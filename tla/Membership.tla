------------------------------ MODULE Membership ------------------------------
(***************************************************************************)
(* Who belongs to which household, and which external identity is whom.    *)
(* People write from a provider, a Telegram user through any of the        *)
(* deployment's bots.  They found a household, invite, join, leave and are  *)
(* removed, bind group chats and link further identities to an account.    *)
(* There are two doors with code of their own: the handlers of the         *)
(* environment's bot, which look an account up by its Telegram id, and the  *)
(* messaging commands, which keep a row per identity and one per direct     *)
(* conversation.  The other bots and Slack have the second only, and the    *)
(* environment's bot passes /link, /confirm_link and /reminders on to it.   *)
(*                                                                         *)
(* A command runs from its authorization to its commit without an await,   *)
(* so each is one step; a refused one is rolled back.  An invite or link   *)
(* that has been used up or has expired is never read again and is None    *)
(* here.  The deployment is hosted and open for registration.              *)
(***************************************************************************)
EXTENDS Integers, FiniteSets

CONSTANTS Bots, Telegrams,  \* Telegram bots, and the users who may write to any of them
          Environment,      \* the bot of the environment, connection "legacy-telegram"
          Guests,           \* users of another provider
          Invites, Links, Groups,
          FreeSeats, FamilySeats,
          Nobody

\* An account is named by the person who opened it, a household by its founder.
People == Telegrams \cup Guests
Actors == (Bots \X Telegrams) \cup ({"slack"} \X Guests)
Person(x) == x[2]

Account == [home : People, role : {"owner", "member"}, active : BOOLEAN,
            banned : BOOLEAN, telegram : Telegrams \cup {Nobody}]

ASSUME MembershipAssumption ==
  /\ Nobody \notin People \cup Account /\ Telegrams \cap Guests = {}
  /\ Environment \in Bots /\ "slack" \notin Bots
  /\ FreeSeats \in Nat \ {0} /\ FamilySeats \in Nat /\ FreeSeats <= FamilySeats

VARIABLES account,     \* [People -> table user, Nobody before it is created]
          identity,    \* [Actors -> People \cup {Nobody}], table externalidentity
          invite,      \* [Invites -> an invite that can be redeemed, or Nobody]
          link,        \* [Links -> an identity link, or Nobody]
          group,       \* [Groups -> table groupbinding, or Nobody]
          conversation,\* [Groups -> table conversationbinding, or Nobody]
          reminders,   \* [Actors -> the direct conversation's notificationdestination]
          seats        \* [People -> seat_cap of the household's subscription]

membershipVars == <<account, identity, invite, link, group, conversation, reminders, seats>>

MembershipTypeOK ==
  /\ account \in [People -> Account \cup {Nobody}]
  /\ identity \in [Actors -> People \cup {Nobody}]
  /\ invite \in [Invites -> [home : People, by : People, reusable : BOOLEAN] \cup {Nobody}]
  /\ link \in [Links -> [of : People, origin : Bots \cup {"slack"},
                         target : Actors \cup {Nobody}] \cup {Nobody}]
  /\ group \in [Groups -> [home : People, by : People] \cup {Nobody}]
  /\ conversation \in [Groups -> [home : People, by : People] \cup {Nobody}]
  /\ reminders \in [Actors -> {"none", "off", "on"}]
  /\ seats \in [People -> {FreeSeats, FamilySeats}]

MembershipInit ==
  /\ account = [p \in People |-> Nobody]
  /\ identity = [x \in Actors |-> Nobody]
  /\ invite = [i \in Invites |-> Nobody]
  /\ link = [l \in Links |-> Nobody]
  /\ group = [g \in Groups |-> Nobody]
  /\ conversation = [g \in Groups |-> Nobody]
  /\ reminders = [x \in Actors |-> "none"]
  /\ seats = [p \in People |-> FreeSeats]

Members(h) == {p \in People : account[p] # Nobody /\ account[p].home = h /\ account[p].active}

FreeSeat(h) == Cardinality(Members(h)) < seats[h]

-----------------------------------------------------------------------------
(* Who is writing.                                                          *)

Having(t) == {p \in People : account[p] # Nobody /\ account[p].telegram = t}

TelegramUser(x) ==
  LET known == Having(Person(x))
  IN  IF known = {} THEN Nobody ELSE CHOOSE p \in known : TRUE

\* resolve_existing_user refuses an identity that its row and its Telegram id
\* give to different accounts.
Conflict(x) == identity[x] # Nobody /\ TelegramUser(x) \notin {Nobody, identity[x]}

Resolved(x) ==
  LET user == TelegramUser(x) IN IF user # Nobody THEN user ELSE identity[x]

\* What authorize asks of an account.
Admitted(p) == p # Nobody /\ account[p] # Nobody /\ account[p].active /\ ~account[p].banned

\* x writes to the environment's bot for account p.  In a group the same holds for a
\* member of the household it is bound to, who may then do what he may in private.
AtBot(x, p) ==
  /\ x[1] = Environment /\ p = TelegramUser(x) /\ Admitted(p) /\ UNCHANGED identity

\* The messaging commands write the identity row that an account found by its
\* Telegram id lacks.
AtMessaging(x, p) ==
  /\ p = Resolved(x) /\ ~Conflict(x) /\ Admitted(p)
  /\ identity' = [identity EXCEPT ![x] = p]

\* observe_destination: a direct conversation that is new gets a row, switched off.
Observed(x) == [reminders EXCEPT ![x] = IF @ = "none" THEN "off" ELSE @]

\* A command that both doors have, and the destinations it goes on with.
Writes(x, p, destinations) ==
  \/ AtBot(x, p) /\ destinations = reminders
  \/ x[1] # Environment /\ AtMessaging(x, p) /\ destinations = Observed(x)

TelegramId(x) == IF Person(x) \in Telegrams THEN Person(x) ELSE Nobody

\* A household of one.
Founded(x) ==
  /\ account[Person(x)] = Nobody
  /\ account' = [account EXCEPT ![Person(x)] =
       [home |-> Person(x), role |-> "owner", active |-> TRUE, banned |-> FALSE,
        telegram |-> TelegramId(x)]]
  /\ UNCHANGED <<invite, link, group, conversation, seats>>

\* /start of somebody unknown, to the bot and to the messaging commands.
HandleStart(x) ==
  /\ x[1] = Environment /\ TelegramUser(x) = Nobody
  /\ Founded(x) /\ UNCHANGED <<identity, reminders>>

StartCommand(x) ==
  /\ x[1] # Environment /\ Resolved(x) = Nobody
  /\ Founded(x) /\ identity' = [identity EXCEPT ![x] = Person(x)]
  /\ reminders' = Observed(x)

\* A message of somebody who is not admitted: the identity row is written first.
Denied(x, p) ==
  /\ x[1] # Environment /\ p = Resolved(x) /\ ~Conflict(x) /\ p # Nobody /\ ~Admitted(p)
  /\ identity' = [identity EXCEPT ![x] = p]
  /\ UNCHANGED <<account, invite, link, group, conversation, reminders, seats>>

\* select_destination: on for the conversation x writes in, off for the others of p.
Remind(x, p, on) ==
  /\ AtMessaging(x, p)
  /\ reminders' = [y \in Actors |->
       IF y = x THEN IF on THEN "on" ELSE "off"
       ELSE IF on /\ identity[y] = p /\ reminders[y] = "on" THEN "off" ELSE reminders[y]]
  /\ UNCHANGED <<account, invite, link, group, conversation, seats>>

\* import_legacy, at each start of the process: whoever has a Telegram chat is known
\* to the environment's bot, and reminded there unless that conversation has a row.
ImportLegacy ==
  LET chats == {x \in Actors : x[1] = Environment /\ TelegramUser(x) # Nobody}
  IN  /\ identity' = [x \in Actors |->
            IF x \in chats /\ identity[x] = Nobody THEN TelegramUser(x) ELSE identity[x]]
      /\ reminders' = [x \in Actors |->
            IF x \in chats /\ reminders[x] = "none"
            THEN IF Admitted(TelegramUser(x)) THEN "on" ELSE "off" ELSE reminders[x]]
      /\ UNCHANGED <<account, invite, link, group, conversation, seats>>

-----------------------------------------------------------------------------
(* Invites and membership.                                                  *)

CreateInvite(p, i, reusable) ==
  /\ invite[i] = Nobody /\ FreeSeat(account[p].home)
  /\ invite' = [invite EXCEPT ![i] =
                  [home |-> account[p].home, by |-> p, reusable |-> reusable]]
  /\ UNCHANGED <<account, link, group, conversation, seats>>

HandleInvite(x, p, i, reusable) ==
  /\ Writes(x, p, reminders') /\ CreateInvite(p, i, reusable)

\* The member who joins: a known account that has left, or a new one.
Joined(p, x, home) ==
  IF p # Nobody
  THEN [account EXCEPT ![p].home = home, ![p].active = TRUE, ![p].role = "member",
                       ![p].telegram = IF Person(x) \in Telegrams THEN Person(x) ELSE @]
  ELSE [account EXCEPT ![Person(x)] =
          [home |-> home, role |-> "member", active |-> TRUE, banned |-> FALSE,
           telegram |-> TelegramId(x)]]

MayJoin(p) == p # Nobody => ~account[p].active /\ ~account[p].banned

\* Mutant: the seat was checked when the invite was made.
JoinUnchecked(x, i) ==
  /\ x[1] # Environment /\ invite[i] # Nobody /\ MayJoin(Resolved(x))
  /\ ~Conflict(x)
  /\ account' = Joined(Resolved(x), x, invite[i].home)
  /\ identity' = [identity EXCEPT ![x] = IF @ # Nobody THEN @ ELSE
                    IF Resolved(x) # Nobody THEN Resolved(x) ELSE Person(x)]
  /\ invite' = [invite EXCEPT ![i] = IF @.reusable THEN @ ELSE Nobody]
  /\ reminders' = Observed(x)
  /\ UNCHANGED <<link, group, conversation, seats>>

\* messaging_commands.join
Join(x, i) ==
  /\ x[1] # Environment /\ invite[i] # Nobody /\ MayJoin(Resolved(x))
  /\ ~Conflict(x)
  /\ FreeSeat(invite[i].home)
  /\ account' = Joined(Resolved(x), x, invite[i].home)
  /\ identity' = [identity EXCEPT ![x] = IF @ # Nobody THEN @ ELSE
                    IF Resolved(x) # Nobody THEN Resolved(x) ELSE Person(x)]
  /\ invite' = [invite EXCEPT ![i] = IF @.reusable THEN @ ELSE Nobody]
  /\ reminders' = Observed(x)
  /\ UNCHANGED <<link, group, conversation, seats>>

\* redeem_invite
RedeemInvite(x, i) ==
  /\ invite[i] # Nobody /\ MayJoin(TelegramUser(x))
  /\ FreeSeat(invite[i].home)
  /\ account' = Joined(TelegramUser(x), x, invite[i].home)
  /\ invite' = [invite EXCEPT ![i] = IF @.reusable THEN @ ELSE Nobody]
  /\ UNCHANGED <<identity, link, group, conversation, reminders, seats>>

\* A deep link or /join to the bot.  The members are told after the commit.
TryRedeemInvite(x, i) == x[1] = Environment /\ RedeemInvite(x, i)

\* transfer_group_bindings
Transferred(p, heir) ==
  [g \in Groups |-> IF group[g] # Nobody /\ group[g] = [home |-> account[p].home, by |-> p]
                    THEN [group[g] EXCEPT !.by = heir] ELSE group[g]]

\* Mutant: only what is left to redeem of a single-use invite is dropped.
RevokedSingleUse(p) ==
  [i \in Invites |-> IF invite[i] # Nobody /\ invite[i].by = p /\ ~invite[i].reusable
                     THEN Nobody ELSE invite[i]]

\* _revoke_invites_from
RevokedInvites(p) ==
  [i \in Invites |-> IF invite[i] # Nobody /\ invite[i].by = p THEN Nobody ELSE invite[i]]

\* What leaving and removal do: bindings go to the owner, invites end, and
\* revoke_membership stops the reminders.
Ended(p, heir, destinations) ==
  /\ account' = [account EXCEPT ![p].active = FALSE]
  /\ group' = Transferred(p, heir)
  /\ invite' = RevokedInvites(p)
  /\ reminders' = [y \in Actors |-> IF identity'[y] = p /\ destinations[y] = "on" THEN "off"
                                    ELSE destinations[y]]

LeaveHousehold(p, destinations) ==
  /\ account[p].role # "owner"
  /\ \E owner \in People : /\ account[owner] # Nobody /\ account[owner].role = "owner"
                           /\ account[owner].home = account[p].home
                           /\ Ended(p, owner, destinations)
  /\ UNCHANGED <<link, conversation, seats>>

HandleLeave(x, p) ==
  \E destinations \in {reminders, Observed(x)} :
    Writes(x, p, destinations) /\ LeaveHousehold(p, destinations)

RemoveMember(p, target, destinations) ==
  /\ account[p].role = "owner"
  /\ target # p /\ target \in Members(account[p].home)
  /\ Ended(target, p, destinations)
  /\ UNCHANGED <<link, conversation, seats>>

HandleRemove(x, p, target) ==
  \E destinations \in {reminders, Observed(x)} :
    Writes(x, p, destinations) /\ RemoveMember(p, target, destinations)

\* /ban and /unban of the operator, by Telegram id.
SetBanned(p, banned) ==
  /\ account[p] # Nobody /\ account[p].telegram # Nobody /\ account[p].banned # banned
  /\ account' = [account EXCEPT ![p].banned = banned]
  /\ UNCHANGED <<identity, invite, link, group, conversation, reminders, seats>>

\* A payment, a refund, the end of a period or the operator moves the cap,
\* below the members a household already has as well.
SetSeats(h, n) ==
  /\ Members(h) # {} /\ n # seats[h]
  /\ seats' = [seats EXCEPT ![h] = n]
  /\ UNCHANGED <<account, identity, invite, link, group, conversation, reminders>>

Expire(i) ==
  /\ invite[i] # Nobody
  /\ invite' = [invite EXCEPT ![i] = Nobody]
  /\ UNCHANGED <<account, identity, link, group, conversation, reminders, seats>>

-----------------------------------------------------------------------------
(* Shared conversations.                                                    *)

\* Any member binds any group, whoever has bound it before.
BindGroup(p, g) ==
  /\ group' = [group EXCEPT ![g] = [home |-> account[p].home, by |-> p]]
  /\ UNCHANGED <<account, invite, link, conversation, reminders, seats>>

HandleBind(x, p, g) == AtBot(x, p) /\ BindGroup(p, g)

\* bind, at the other door: the owner only, and a conversation that is not bound
\* yet.  For one that is bound to this household the code adds a second row with
\* the same key, and the event fails.
BindConversation(x, p, g) ==
  /\ x[1] # Environment /\ AtMessaging(x, p)
  /\ account[p].role = "owner" /\ conversation[g] = Nobody
  /\ conversation' = [conversation EXCEPT ![g] = [home |-> account[p].home, by |-> p]]
  /\ UNCHANGED <<account, invite, link, group, reminders, seats>>

-----------------------------------------------------------------------------
(* Linking: the account asks on one connection, the other identity answers, *)
(* and the account confirms on the connection it asked on.                  *)

CreateLink(x, p, l) ==
  /\ AtMessaging(x, p) /\ link[l] = Nobody
  /\ link' = [link EXCEPT ![l] = [of |-> p, origin |-> x[1], target |-> Nobody]]
  /\ reminders' = Observed(x)
  /\ UNCHANGED <<account, invite, group, conversation, seats>>

\* redeem_link looks the identity up by its row, not by its Telegram id, and
\* makes no destination of the conversation it is sent in.
RedeemLink(x, l) ==
  /\ link[l] # Nobody /\ link[l].target = Nobody
  /\ Admitted(link[l].of) /\ identity[x] \in {Nobody, link[l].of}
  /\ link' = [link EXCEPT ![l].target = x]
  /\ UNCHANGED <<account, identity, invite, group, conversation, reminders, seats>>

ConfirmLink(x, p, l) ==
  LET y == link[l].target IN
  /\ p = Resolved(x) /\ Admitted(p) /\ ~Conflict(x)
  /\ link[l] # Nobody /\ link[l].of = p /\ link[l].origin = x[1] /\ y # Nobody
  /\ identity[y] \in {Nobody, p}
  /\ Person(y) \in Telegrams => /\ account[p].telegram \in {Nobody, Person(y)}
                                /\ Having(Person(y)) \subseteq {p}
  /\ identity' = [identity EXCEPT ![x] = p, ![y] = p]
  /\ account' = [account EXCEPT ![p].telegram =
                   IF Person(y) \in Telegrams THEN Person(y) ELSE @]
  /\ link' = [link EXCEPT ![l] = Nobody]
  /\ reminders' = Observed(x)
  /\ UNCHANGED <<invite, group, conversation, seats>>

LinkExpires(l) ==
  /\ link[l] # Nobody
  /\ link' = [link EXCEPT ![l] = Nobody]
  /\ UNCHANGED <<account, identity, invite, group, conversation, reminders, seats>>

-----------------------------------------------------------------------------
MembershipNext ==
  \/ \E x \in Actors :
       \/ HandleStart(x) \/ StartCommand(x)
       \/ \E i \in Invites : Join(x, i) \/ TryRedeemInvite(x, i)
       \/ \E l \in Links : RedeemLink(x, l)
       \/ \E p \in {TelegramUser(x), identity[x]} \ {Nobody} :
            \/ Denied(x, p) \/ \E on \in BOOLEAN : Remind(x, p, on)
            \/ \E i \in Invites, reusable \in BOOLEAN : HandleInvite(x, p, i, reusable)
            \/ HandleLeave(x, p)
            \/ \E target \in People : HandleRemove(x, p, target)
            \/ \E g \in Groups : HandleBind(x, p, g) \/ BindConversation(x, p, g)
            \/ \E l \in Links : CreateLink(x, p, l) \/ ConfirmLink(x, p, l)
  \/ \E p \in People : \E banned \in BOOLEAN : SetBanned(p, banned)
  \/ \E h \in People, n \in {FreeSeats, FamilySeats} : SetSeats(h, n)
  \/ \E i \in Invites : Expire(i)
  \/ \E l \in Links : LinkExpires(l)
  \/ ImportLegacy

MembershipSpec == MembershipInit /\ [][MembershipNext]_membershipVars

-----------------------------------------------------------------------------
(* Properties.                                                              *)

\* A household that has anybody, or a binding or an invite, has exactly one
\* owner, who is active: leaving, joining elsewhere and removal never orphan it.
OneOwner ==
  \A p \in People : account[p] # Nobody =>
    \E owner \in Members(account[p].home) :
      {q \in Members(account[p].home) : account[q].role = "owner"} = {owner}

\* Whoever leaves or is removed takes the keys along: every token that still
\* opens a household was made by somebody who is a member of it now
\* (leave_household, remove_member; joining elsewhere must not revive one).
InvitesFromMembers ==
  \A i \in Invites : invite[i] # Nobody => invite[i].by \in Members(invite[i].home)

\* A household takes a new member only while a seat is free at that moment,
\* whichever door, however many invites are out and whatever the cap was when
\* they were made (_require_free_seat, called by both redemptions).
SeatsRespected ==
  [][account' # account => \A h \in People :
       LET after == {p \in People : account'[p] # Nobody /\ account'[p].home = h
                                    /\ account'[p].active}
       IN  (after \subseteq Members(h)) \/ Cardinality(after) <= seats[h] \/ Members(h) = {}
    ]_membershipVars

\* A bound chat, through either table, is bound by a member of the household it
\* is bound to (transfer_group_bindings, bind_group, bind).
BindingsValid ==
  \A g \in Groups : \A b \in {group[g], conversation[g]} :
    b # Nobody => b.by \in Members(b.home)

\* Only a member is reminded, and in one conversation, beside which it is only ever
\* the environment's bot that reminds him too: a start of the process gives a linked
\* Telegram chat its destination switched on (import_legacy), while every other way
\* to one (select_destination, revoke_membership) ends what there was.
OneReminder ==
  \A x \in Actors : reminders[x] = "on" =>
    /\ identity[x] # Nobody /\ account[identity[x]].active
    /\ \A y \in Actors : reminders[y] = "on" /\ identity[y] = identity[x] /\ y # x
         => Environment \in {x[1], y[1]}

\* An external identity never moves from one account to another, whatever its
\* person did between a link's answer and its confirmation.
IdentityStable ==
  [][\A x \in Actors : identity[x] # Nobody => identity'[x] = identity[x]]_membershipVars

\* Identity rows and Telegram ids agree, so that the two doors find the same
\* account and resolve_existing_user never refuses anybody.
TelegramCanonical ==
  /\ \A t \in Telegrams : Cardinality(Having(t)) <= 1
  /\ \A x \in Bots \X Telegrams :
       identity[x] # Nobody => account[identity[x]].telegram = Person(x)

\* An identity comes to an account it did not open only by both sides: it
\* answered a link of that account and the account confirmed on the connection
\* it had asked on (redeem_link, confirm_link).
LinkedByBoth ==
  [][identity' # identity => \A x \in Actors :
       identity'[x] # identity[x] =>
         \/ identity'[x] = Person(x)
         \/ identity'[x] = TelegramUser(x)
         \/ \E l \in Links : /\ link[l] # Nobody /\ link'[l] = Nobody
                             /\ link[l].of = identity'[x] /\ link[l].target = x]_membershipVars

\* The tables agree with each other at any moment ...
MembershipSound ==
  OneOwner /\ InvitesFromMembers /\ BindingsValid /\ OneReminder /\ TelegramCanonical

\* ... and nobody gets in, or gets another's identity, by a step of theirs.
DoorsSound == SeatsRespected /\ IdentityStable /\ LinkedByBoth
=============================================================================
