-------------------------- MODULE MembershipProofs --------------------------
(***************************************************************************)
(* Safety of Membership for any number of people, bots, groups, invites    *)
(* and links, and any two seat caps: a household is always its founder's,  *)
(* the keys to it are its members', and an identity is one account's for   *)
(* good. Safety of Digests for any number of members, hours and dates:     *)
(* whatever runs twice, late or over, a day has one digest, a reason for   *)
(* another, or two destinations that are on.                               *)
(***************************************************************************)
EXTENDS Membership, Digests, FiniteSetTheorems, TLAPS

-----------------------------------------------------------------------------
(* Membership.                                                             *)
(* A household belongs to its founder for ever, every key to it was made   *)
(* by somebody who is a member now, and the identities of one person lead  *)
(* to one account.                                                         *)

IsKnown(p) == account[p] # Nobody

\* A household is owned by who founded it, for ever.
Founders ==
  \A p \in People : IsKnown(p) =>
    /\ IsKnown(account[p].home)
    /\ account[account[p].home].home = account[p].home
    /\ account[account[p].home].role = "owner"
    /\ account[account[p].home].active
    /\ account[p].role = "owner" => account[p].home = p

\* An identity and a Telegram id are of the same account, and of one only; who
\* opened an account is found by it.
Identified ==
  /\ \A x \in Actors : identity[x] # Nobody =>
       /\ IsKnown(identity[x])
       /\ Person(x) \in Telegrams => account[identity[x]].telegram = Person(x)
  /\ \A p, q \in People : IsKnown(p) /\ IsKnown(q) /\ account[p].telegram # Nobody
       /\ account[p].telegram = account[q].telegram => p = q
  /\ \A t \in Telegrams : IsKnown(t) => account[t].telegram = t
  /\ \A g \in Guests : IsKnown(g) => identity[<<"slack", g>>] # Nobody

\* Invites and bindings are of members; a conversation at the messaging door is
\* bound by the founder.
KeysHeld ==
  /\ InvitesFromMembers /\ BindingsValid
  /\ \A g \in Groups : conversation[g] # Nobody => conversation[g].by = conversation[g].home

\* The database is finite.
FewAccounts == IsFiniteSet({p \in People : IsKnown(p)})

MInv == MembershipTypeOK /\ Founders /\ Identified /\ KeysHeld /\ OneReminder /\ FewAccounts

-----------------------------------------------------------------------------
(* Who is writing.                                                          *)

LEMMA PersonIsOne ==
  ASSUME NEW x \in Actors
  PROVE  Person(x) \in People /\ (Person(x) \in Telegrams => x \in Bots \X Telegrams)
         /\ (Person(x) \notin Telegrams => x = <<"slack", Person(x)>> /\ Person(x) \in Guests)
         /\ (x[1] = Environment => Person(x) \in Telegrams)
BY MembershipAssumption DEF Actors, Person, People

\* The account of a Telegram id is the only one that has it.
LEMMA TelegramUserIs ==
  ASSUME MInv, NEW x \in Actors
  PROVE  /\ TelegramUser(x) \in People \cup {Nobody}
         /\ TelegramUser(x) # Nobody =>
              /\ Person(x) \in Telegrams /\ IsKnown(TelegramUser(x))
              /\ account[TelegramUser(x)].telegram = Person(x)
         /\ TelegramUser(x) = Nobody => \A p \in People : IsKnown(p) => account[p].telegram # Person(x)
<1>1. CASE Having(Person(x)) = {}
  BY <1>1, MembershipAssumption DEF TelegramUser, Having, IsKnown
<1>2. CASE Having(Person(x)) # {}
  <2>1. TelegramUser(x) \in Having(Person(x))
    BY <1>2 DEF TelegramUser
  <2>2. /\ TelegramUser(x) \in People /\ IsKnown(TelegramUser(x))
        /\ account[TelegramUser(x)].telegram = Person(x)
    BY <2>1 DEF Having, IsKnown
  <2>3. account[TelegramUser(x)] \in Account
    BY <2>2 DEF MInv, MembershipTypeOK, IsKnown
  <2>4. Person(x) \in Telegrams
    BY <2>2, <2>3, PersonIsOne, MembershipAssumption DEF Account, People
  <2>5. QED
    BY <2>2, <2>4, MembershipAssumption
<1>3. QED
  BY <1>1, <1>2

\* An identity that has nobody is of nobody with an account.
LEMMA ResolvedIs ==
  ASSUME MInv, NEW x \in Actors
  PROVE  /\ Resolved(x) \in People \cup {Nobody}
         /\ Resolved(x) # Nobody =>
              /\ IsKnown(Resolved(x))
              /\ Person(x) \in Telegrams => account[Resolved(x)].telegram = Person(x)
              /\ ~Conflict(x) => identity[x] \in {Nobody, Resolved(x)}
         /\ Resolved(x) = Nobody =>
              ~IsKnown(Person(x)) /\ identity[x] = Nobody /\ TelegramUser(x) = Nobody
<1>1. identity[x] \in People \cup {Nobody} /\ Nobody \notin People
  BY MembershipAssumption DEF MInv, MembershipTypeOK
<1>2. CASE TelegramUser(x) # Nobody
  BY <1>1, <1>2, TelegramUserIs DEF Resolved, Conflict
<1>3. CASE TelegramUser(x) = Nobody
  <2>1. Resolved(x) = identity[x]
    BY <1>3 DEF Resolved
  <2>2. identity[x] # Nobody => IsKnown(identity[x])
             /\ (Person(x) \in Telegrams => account[identity[x]].telegram = Person(x))
    BY DEF MInv, Identified
  <2>3. identity[x] = Nobody => ~IsKnown(Person(x))
    BY <1>3, TelegramUserIs, PersonIsOne DEF MInv, Identified
  <2>4. QED
    BY <1>1, <1>3, <2>1, <2>2, <2>3
<1>4. QED
  BY <1>2, <1>3

\* Identity rows appear, of accounts that there are; none is changed.
RowsAdded ==
  /\ identity' \in [Actors -> People \cup {Nobody}]
  /\ \A y \in Actors : identity'[y] # identity[y] =>
       /\ identity[y] = Nobody /\ IsKnown(identity'[y])
       /\ Person(y) \in Telegrams => account[identity'[y]].telegram = Person(y)

LEMMA RowWritten ==
  ASSUME MInv, NEW x \in Actors, NEW p, p = Resolved(x), ~Conflict(x), p # Nobody,
         identity' = [identity EXCEPT ![x] = p]
  PROVE  p \in People /\ IsKnown(p) /\ account[p] \in Account /\ RowsAdded
<1>1. p \in People /\ IsKnown(p) /\ account[p] \in Account
      /\ (Person(x) \in Telegrams => account[p].telegram = Person(x))
      /\ identity[x] \in {Nobody, p}
  BY ResolvedIs DEF IsKnown, MInv, MembershipTypeOK
<1>2. QED
  BY <1>1 DEF RowsAdded, MInv, MembershipTypeOK

\* Somebody who is admitted, at either door.
Speaks(x, p) == AtBot(x, p) \/ AtMessaging(x, p)

LEMMA WriterIs ==
  ASSUME MInv, NEW x \in Actors, NEW p, Speaks(x, p)
  PROVE  /\ p \in People /\ IsKnown(p) /\ account[p] \in Account
         /\ account[p].active /\ ~account[p].banned
         /\ RowsAdded
<1>1. CASE AtBot(x, p)
  BY <1>1, TelegramUserIs DEF AtBot, Admitted, IsKnown, RowsAdded, MInv, MembershipTypeOK
<1>2. CASE AtMessaging(x, p)
  BY <1>2, RowWritten DEF AtMessaging, Admitted
<1>3. QED
  BY <1>1, <1>2 DEF Speaks

\* No conversation is switched on.
Quieter(rows) ==
  /\ rows \in [Actors -> {"none", "off", "on"}]
  /\ \A y \in Actors : rows[y] = "on" => reminders[y] = "on"

LEMMA ObservedIs ==
  ASSUME MInv, NEW x \in Actors
  PROVE  Quieter(Observed(x)) /\ Quieter(reminders)
BY DEF Quieter, Observed, MInv, MembershipTypeOK

LEMMA WritesAre ==
  ASSUME MInv, NEW x \in Actors, NEW p, NEW rows, Writes(x, p, rows)
  PROVE  Speaks(x, p) /\ Quieter(rows)
BY ObservedIs DEF Writes, Speaks

-----------------------------------------------------------------------------
(* What a step does to the accounts.                                        *)

\* Nobody comes, or gets another Telegram id.
TelegramsStay ==
  /\ account' \in [People -> Account \cup {Nobody}]
  /\ \A p \in People : /\ IsKnown(p)' <=> IsKnown(p)
                       /\ IsKnown(p) => account'[p].telegram = account[p].telegram

\* Nor does anybody move or get another role; no owner leaves.
AccountsStay ==
  /\ TelegramsStay
  /\ \A p \in People : IsKnown(p) =>
       /\ account'[p].home = account[p].home /\ account'[p].role = account[p].role
       /\ account[p].role = "owner" => account'[p].active = account[p].active

LEMMA IdentifiedStays ==
  ASSUME MInv, TelegramsStay, RowsAdded
  PROVE  Identified' /\ FewAccounts'
<1>1. \A x \in Actors : identity'[x] \in People \cup {Nobody} /\ identity[x] \in People \cup {Nobody}
  BY DEF RowsAdded, MInv, MembershipTypeOK
<1>2. Identified'
  <2>1. ASSUME NEW x \in Actors, identity'[x] # Nobody
        PROVE  /\ IsKnown(identity[x])'
               /\ Person(x) \in Telegrams => account'[identity'[x]].telegram = Person(x)
    <3>1. IsKnown(identity'[x]) /\ (Person(x) \in Telegrams => account[identity'[x]].telegram = Person(x))
      BY <2>1 DEF RowsAdded, MInv, Identified
    <3>2. QED
      BY <1>1, <2>1, <3>1 DEF TelegramsStay, IsKnown
  <2>2. \A p, q \in People : IsKnown(p)' /\ IsKnown(q)' /\ account'[p].telegram # Nobody
          /\ account'[p].telegram = account'[q].telegram => p = q
    BY DEF TelegramsStay, MInv, Identified
  <2>3. \A t \in Telegrams : IsKnown(t)' => account'[t].telegram = t
    BY DEF TelegramsStay, MInv, Identified, People
  <2>4. \A g \in Guests : IsKnown(g)' => identity'[<<"slack", g>>] # Nobody
    BY DEF TelegramsStay, RowsAdded, MInv, Identified, People, Actors
  <2>5. QED
    BY <2>1, <2>2, <2>3, <2>4 DEF Identified
<1>3. {p \in People : IsKnown(p)'} = {p \in People : IsKnown(p)}
  BY DEF TelegramsStay
<1>4. FewAccounts'
  BY <1>3 DEF MInv, FewAccounts
<1>5. QED
  BY <1>2, <1>4

LEMMA StayingSound ==
  ASSUME MInv, AccountsStay, RowsAdded
  PROVE  Founders' /\ Identified' /\ FewAccounts'
<1>1. \A p \in People : IsKnown(p) => account[p].home \in People
  BY DEF MInv, MembershipTypeOK, Account, IsKnown
<1>2. Founders'
  BY <1>1 DEF MInv, Founders, AccountsStay, TelegramsStay
<1>3. QED
  BY <1>2, IdentifiedStays DEF AccountsStay

\* An identity stays with its account.
MemberRowsStay == \A y \in Actors : identity[y] # Nobody => identity'[y] = identity[y]

LEMMA AddedStay == RowsAdded => MemberRowsStay
BY DEF RowsAdded, MemberRowsStay

\* Reminders only end, and none goes on to whoever becomes inactive.
LEMMA RemindersSound ==
  ASSUME MInv, MemberRowsStay, Quieter(reminders'),
         \A y \in Actors : reminders'[y] = "on" => account'[identity[y]].active
  PROVE  OneReminder'
<1> SUFFICES ASSUME NEW x \in Actors, reminders'[x] = "on"
             PROVE  /\ identity'[x] # Nobody /\ account'[identity'[x]].active
                    /\ \A y \in Actors : reminders'[y] = "on" /\ identity'[y] = identity'[x] /\ y # x
                         => Environment \in {x[1], y[1]}
  BY DEF OneReminder
<1>1. \A y \in Actors : reminders'[y] = "on" =>
        reminders[y] = "on" /\ identity[y] # Nobody /\ identity'[y] = identity[y]
  BY DEF MInv, OneReminder, MemberRowsStay, Quieter
<1>2. QED
  BY <1>1 DEF MInv, OneReminder

LEMMA RemindersKept ==
  ASSUME MInv, RowsAdded, UNCHANGED account, Quieter(reminders')
  PROVE  OneReminder' /\ reminders' \in [Actors -> {"none", "off", "on"}]
<1>1. \A y \in Actors : reminders'[y] = "on" => account'[identity[y]].active
  BY DEF MInv, OneReminder, Quieter
<1>2. QED
  BY <1>1, RemindersSound, AddedStay DEF Quieter

\* A member of a household stays one while the account does.
LEMMA MembersAre ==
  ASSUME NEW h
  PROVE  Members(h) = {p \in People : IsKnown(p) /\ account[p].home = h /\ account[p].active}
BY DEF Members, IsKnown

LEMMA MembersAreNext ==
  ASSUME NEW h
  PROVE  Members(h)' = {p \in People : IsKnown(p)' /\ account'[p].home = h /\ account'[p].active}
BY DEF Members, IsKnown

\* Steps that leave accounts and keys alone.
LEMMA MembershipQuiet ==
  ASSUME MInv, UNCHANGED account, RowsAdded
  PROVE  Founders' /\ Identified' /\ FewAccounts' /\ \A h \in People : Members(h)' = Members(h)
<1>1. AccountsStay
  BY DEF MInv, MembershipTypeOK, AccountsStay, TelegramsStay, IsKnown
<1>2. QED
  BY <1>1, StayingSound, MembersAre, MembersAreNext DEF IsKnown

-----------------------------------------------------------------------------
(* Actions that change no account.                                          *)

\* The messages that write rows of identities and destinations only.
LEMMA RowsSound ==
  ASSUME MInv, RowsAdded, UNCHANGED <<account, invite, link, group, conversation, seats>>,
         reminders' \in [Actors -> {"none", "off", "on"}], OneReminder'
  PROVE  MInv'
<1>1. Founders' /\ Identified' /\ FewAccounts' /\ \A h \in People : Members(h)' = Members(h)
  BY MembershipQuiet
<1>2. MembershipTypeOK'
  BY DEF MInv, MembershipTypeOK, RowsAdded
<1>3. KeysHeld'
  BY MembersAre, MembersAreNext
     DEF MInv, MembershipTypeOK, KeysHeld, InvitesFromMembers, BindingsValid, IsKnown
<1>4. QED
  BY <1>1, <1>2, <1>3 DEF MInv

LEMMA RemindSound ==
  ASSUME MInv, NEW x \in Actors, NEW p, NEW on \in BOOLEAN, Remind(x, p, on)
  PROVE  MInv'
<1>1. /\ p \in People /\ account[p].active /\ RowsAdded /\ identity' = [identity EXCEPT ![x] = p]
      /\ reminders' = [y \in Actors |->
           IF y = x THEN IF on THEN "on" ELSE "off"
           ELSE IF on /\ identity[y] = p /\ reminders[y] = "on" THEN "off" ELSE reminders[y]]
      /\ UNCHANGED <<account, invite, link, group, conversation, seats>>
  BY WriterIs DEF Remind, Speaks, AtMessaging
<1>2. /\ identity \in [Actors -> People \cup {Nobody}] /\ Nobody \notin People
      /\ reminders \in [Actors -> {"none", "off", "on"}]
  BY MembershipAssumption DEF MInv, MembershipTypeOK
<1>3. /\ reminders' \in [Actors -> {"none", "off", "on"}]
      /\ reminders'[x] = "on" => on
      /\ \A y \in Actors \ {x} : reminders'[y] = "on" =>
           reminders[y] = "on" /\ (on => identity[y] # p)
  BY <1>1, <1>2
<1>4. /\ identity'[x] = p
      /\ \A y \in Actors \ {x} : identity'[y] = identity[y]
  BY <1>1, <1>2
<1>5. OneReminder'
  <2>1. ASSUME NEW y \in Actors, reminders'[y] = "on"
        PROVE  identity'[y] # Nobody /\ account'[identity'[y]].active
    <3>1. CASE y = x
      BY <1>1, <1>2, <1>4, <3>1
    <3>2. CASE y # x
      BY <1>1, <1>3, <1>4, <2>1, <3>2 DEF MInv, OneReminder
    <3>3. QED
      BY <3>1, <3>2
  <2>2. ASSUME NEW y \in Actors, NEW z \in Actors, reminders'[y] = "on", reminders'[z] = "on",
               identity'[y] = identity'[z], y # z
        PROVE  Environment \in {y[1], z[1]}
    <3>1. y # x /\ z # x
      BY <1>3, <1>4, <2>2
    <3>2. QED
      BY <1>3, <1>4, <2>2, <3>1 DEF MInv, OneReminder
  <2>3. QED
    BY <2>1, <2>2 DEF OneReminder
<1>6. QED
  BY <1>1, <1>3, <1>5, RowsSound

LEMMA DeniedSound ==
  ASSUME MInv, NEW x \in Actors, NEW p, Denied(x, p)
  PROVE  MInv' /\ RowsAdded
<1>1. RowsAdded /\ UNCHANGED <<account, invite, link, group, conversation, reminders, seats>>
  BY RowWritten DEF Denied
<1>2. OneReminder' /\ reminders' \in [Actors -> {"none", "off", "on"}]
  BY <1>1, RemindersKept, ObservedIs DEF Quieter, MInv, MembershipTypeOK
<1>3. QED
  BY <1>1, <1>2, RowsSound

\* Whoever has a Telegram chat is its one account, so a row that is new is switched on
\* for a member, in the environment's conversation.
LEMMA ImportLegacySound ==
  ASSUME MInv, ImportLegacy
  PROVE  MInv' /\ RowsAdded
<1> DEFINE chats == {x \in Actors : x[1] = Environment /\ TelegramUser(x) # Nobody}
           new == {x \in chats : reminders[x] = "none" /\ Admitted(TelegramUser(x))}
<1>1. /\ identity' = [x \in Actors |->
            IF x \in chats /\ identity[x] = Nobody THEN TelegramUser(x) ELSE identity[x]]
      /\ reminders' = [x \in Actors |->
            IF x \in chats /\ reminders[x] = "none"
            THEN IF Admitted(TelegramUser(x)) THEN "on" ELSE "off" ELSE reminders[x]]
      /\ UNCHANGED <<account, invite, link, group, conversation, seats>>
  BY DEF ImportLegacy
<1>2. ASSUME NEW x \in chats
      PROVE  /\ x \in Actors /\ x[1] = Environment /\ TelegramUser(x) \in People
             /\ IsKnown(TelegramUser(x)) /\ Person(x) \in Telegrams
             /\ account[TelegramUser(x)].telegram = Person(x)
             /\ identity[x] \in {Nobody, TelegramUser(x)}
  <2>1. /\ x \in Actors /\ x[1] = Environment /\ TelegramUser(x) \in People
        /\ IsKnown(TelegramUser(x)) /\ Person(x) \in Telegrams
        /\ account[TelegramUser(x)].telegram = Person(x)
    BY TelegramUserIs
  <2>2. identity[x] # Nobody => IsKnown(identity[x]) /\ account[identity[x]].telegram = Person(x)
                                /\ identity[x] \in People
    BY <2>1 DEF MInv, MembershipTypeOK, Identified
  <2>3. Person(x) # Nobody
    BY <2>1, MembershipAssumption DEF People
  <2>4. identity[x] # Nobody => identity[x] = TelegramUser(x)
    BY <2>1, <2>2, <2>3 DEF MInv, Identified
  <2>5. QED
    BY <2>1, <2>4
<1>3. /\ identity \in [Actors -> People \cup {Nobody}] /\ Nobody \notin People
      /\ reminders \in [Actors -> {"none", "off", "on"}]
  BY MembershipAssumption DEF MInv, MembershipTypeOK
<1> HIDE DEF chats
<1>4. RowsAdded
  BY <1>1, <1>2, <1>3 DEF RowsAdded
<1>5. reminders' \in [Actors -> {"none", "off", "on"}]
  BY <1>1, <1>3
<1>6. ASSUME NEW x \in Actors, reminders'[x] = "on"
      PROVE  \/ /\ x \in chats /\ Admitted(TelegramUser(x)) /\ x[1] = Environment
                /\ identity'[x] = TelegramUser(x)
             \/ /\ reminders[x] = "on" /\ identity'[x] = identity[x]
  <2>1. CASE x \in chats /\ reminders[x] = "none"
    <3>1. Admitted(TelegramUser(x))
      BY <1>1, <1>6, <2>1
    <3>2. QED
      BY <1>1, <1>2, <2>1, <3>1
  <2>2. CASE ~(x \in chats /\ reminders[x] = "none")
    <3>1. reminders[x] = "on"
      BY <1>1, <1>6, <2>2
    <3>2. identity[x] # Nobody
      BY <3>1 DEF MInv, OneReminder
    <3>3. QED
      BY <1>1, <3>1, <3>2
  <2>3. QED
    BY <2>1, <2>2
<1>7. OneReminder'
  <2>1. ASSUME NEW x \in Actors, reminders'[x] = "on"
        PROVE  identity'[x] # Nobody /\ account'[identity'[x]].active
    BY <1>1, <1>6, <2>1 DEF Admitted, MInv, OneReminder
  <2>2. ASSUME NEW x \in Actors, NEW y \in Actors, reminders'[x] = "on", reminders'[y] = "on",
               identity'[x] = identity'[y], x # y
        PROVE  Environment \in {x[1], y[1]}
    <3>1. CASE x[1] = Environment \/ y[1] = Environment
      BY <3>1
    <3>2. CASE x[1] # Environment /\ y[1] # Environment
      BY <1>6, <2>2, <3>2 DEF MInv, OneReminder
    <3>3. QED
      BY <3>1, <3>2
  <2>3. QED
    BY <2>1, <2>2 DEF OneReminder
<1>8. QED
  BY <1>1, <1>4, <1>5, <1>7, RowsSound

\* A key is as it was, gone, or of somebody who is a member now.
KeysChange ==
  /\ \A i \in Invites : invite'[i] \in {Nobody, invite[i]}
                        \/ invite'[i].by \in Members(invite[i].home)'
  /\ \A g \in Groups : /\ \/ group'[g] = group[g]
                           \/ group'[g].by \in Members(group[g].home)'
                        /\ \/ conversation'[g] = conversation[g]
                           \/ /\ conversation'[g].by \in Members(conversation[g].home)'
                              /\ conversation'[g].by = conversation'[g].home

LEMMA KeysSound ==
  ASSUME MInv, \A h \in People : Members(h) \subseteq Members(h)', KeysChange
  PROVE  KeysHeld'
<1>1. ASSUME NEW i \in Invites, invite'[i] # Nobody
      PROVE  invite'[i].by \in Members(invite[i].home)'
  <2>1. CASE invite'[i] = invite[i]
    <3>1. invite[i].by \in Members(invite[i].home) /\ invite[i].home \in People
      BY <1>1, <2>1 DEF MInv, MembershipTypeOK, KeysHeld, InvitesFromMembers
    <3>2. QED
      BY <2>1, <3>1
  <2>2. QED
    BY <1>1, <2>1 DEF KeysChange
<1>2. ASSUME NEW g \in Groups, NEW b \in {group[g], conversation[g]}, b # Nobody
      PROVE  b.by \in Members(b.home) /\ b.home \in People
  BY <1>2 DEF MInv, MembershipTypeOK, KeysHeld, BindingsValid
<1>3. ASSUME NEW g \in Groups, group'[g] # Nobody
      PROVE  group'[g].by \in Members(group[g].home)'
  BY <1>2, <1>3 DEF KeysChange
<1>4. ASSUME NEW g \in Groups, conversation'[g] # Nobody
      PROVE  /\ conversation'[g].by \in Members(conversation[g].home)'
             /\ conversation'[g].by = conversation'[g].home
  BY <1>2, <1>4 DEF KeysChange, MInv, KeysHeld
<1>5. InvitesFromMembers'
  BY <1>1 DEF InvitesFromMembers
<1>6. BindingsValid'
  BY <1>3, <1>4 DEF BindingsValid
<1>7. QED
  BY <1>4, <1>5, <1>6 DEF KeysHeld

LEMMA HandleInviteSound ==
  ASSUME MInv, NEW x \in Actors, NEW p, NEW i \in Invites, NEW reusable \in BOOLEAN,
         HandleInvite(x, p, i, reusable)
  PROVE  MInv'
<1> DEFINE row == [home |-> account[p].home, by |-> p, reusable |-> reusable]
<1>1. /\ p \in People /\ IsKnown(p) /\ account[p] \in Account /\ account[p].active /\ RowsAdded
      /\ invite' = [invite EXCEPT ![i] = row]
      /\ UNCHANGED <<account, link, group, conversation, seats>> /\ Quieter(reminders')
  BY WriterIs, WritesAre DEF HandleInvite, CreateInvite
<1>2. /\ Founders' /\ Identified' /\ FewAccounts'
      /\ \A h \in People : Members(h)' = Members(h)
  BY <1>1, MembershipQuiet
<1>3. p \in Members(account[p].home)' /\ account[p].home \in People
  BY <1>1, <1>2, MembersAre DEF Account
<1>4. KeysChange
  BY <1>1, <1>3 DEF KeysChange, MInv, MembershipTypeOK
<1>5. OneReminder' /\ reminders' \in [Actors -> {"none", "off", "on"}]
  BY <1>1, RemindersKept, ObservedIs DEF Quieter
<1>6. MembershipTypeOK'
  BY <1>1, <1>3, <1>5 DEF MInv, MembershipTypeOK, RowsAdded
<1>7. QED
  BY <1>2, <1>4, <1>5, <1>6, KeysSound DEF MInv

LEMMA HandleBindSound ==
  ASSUME MInv, NEW x \in Actors, NEW p, NEW g \in Groups, HandleBind(x, p, g)
  PROVE  MInv'
<1> DEFINE row == [home |-> account[p].home, by |-> p]
<1>1. /\ p \in People /\ IsKnown(p) /\ account[p] \in Account /\ account[p].active /\ RowsAdded
      /\ group' = [group EXCEPT ![g] = row]
      /\ UNCHANGED <<account, invite, link, conversation, reminders, seats>>
  BY WriterIs DEF HandleBind, BindGroup, Speaks
<1>2. /\ Founders' /\ Identified' /\ FewAccounts'
      /\ \A h \in People : Members(h)' = Members(h)
  BY <1>1, MembershipQuiet
<1>3. p \in Members(account[p].home)' /\ account[p].home \in People
  BY <1>1, <1>2, MembersAre DEF Account
<1>4. KeysChange
  BY <1>1, <1>3 DEF KeysChange, MInv, MembershipTypeOK
<1>5. OneReminder' /\ reminders' \in [Actors -> {"none", "off", "on"}]
  BY <1>1, RemindersKept, ObservedIs DEF Quieter
<1>6. MembershipTypeOK'
  BY <1>1, <1>3, <1>5 DEF MInv, MembershipTypeOK, RowsAdded
<1>7. QED
  BY <1>2, <1>4, <1>5, <1>6, KeysSound DEF MInv

LEMMA BindConversationSound ==
  ASSUME MInv, NEW x \in Actors, NEW p, NEW g \in Groups, BindConversation(x, p, g)
  PROVE  MInv'
<1> DEFINE row == [home |-> account[p].home, by |-> p]
<1>1. /\ p \in People /\ IsKnown(p) /\ account[p] \in Account /\ account[p].active /\ RowsAdded
      /\ account[p].role = "owner"
      /\ conversation' = [conversation EXCEPT ![g] = row]
      /\ UNCHANGED <<account, invite, link, group, reminders, seats>>
  BY WriterIs DEF BindConversation, Speaks
<1>2. /\ Founders' /\ Identified' /\ FewAccounts'
      /\ \A h \in People : Members(h)' = Members(h)
  BY <1>1, MembershipQuiet
<1>3. p \in Members(account[p].home)' /\ account[p].home \in People /\ account[p].home = p
  BY <1>1, <1>2, MembersAre DEF Account, MInv, Founders
<1>4. KeysChange
  BY <1>1, <1>3 DEF KeysChange, MInv, MembershipTypeOK
<1>5. OneReminder' /\ reminders' \in [Actors -> {"none", "off", "on"}]
  BY <1>1, RemindersKept, ObservedIs DEF Quieter
<1>6. MembershipTypeOK'
  BY <1>1, <1>3, <1>5 DEF MInv, MembershipTypeOK, RowsAdded
<1>7. QED
  BY <1>2, <1>4, <1>5, <1>6, KeysSound DEF MInv

\* Links, expiry and the cap: no table of the invariant but those of the step.
LEMMA CreateLinkSound ==
  ASSUME MInv, NEW x \in Actors, NEW p, NEW l \in Links, CreateLink(x, p, l)
  PROVE  MInv'
<1>1. /\ p \in People /\ RowsAdded
      /\ link' = [link EXCEPT ![l] = [of |-> p, origin |-> x[1], target |-> Nobody]]
      /\ UNCHANGED <<account, invite, group, conversation, seats>> /\ Quieter(reminders')
  BY WriterIs, ObservedIs DEF CreateLink, Speaks
<1>2. /\ Founders' /\ Identified' /\ FewAccounts'
      /\ \A h \in People : Members(h)' = Members(h)
  BY <1>1, MembershipQuiet
<1>3. KeysChange
  BY <1>1 DEF KeysChange, MInv, MembershipTypeOK
<1>4. OneReminder' /\ reminders' \in [Actors -> {"none", "off", "on"}]
  BY <1>1, RemindersKept, ObservedIs DEF Quieter
<1>5. x[1] \in Bots \cup {"slack"}
  BY DEF Actors
<1>6. MembershipTypeOK'
  BY <1>1, <1>4, <1>5 DEF MInv, MembershipTypeOK, RowsAdded
<1>7. QED
  BY <1>2, <1>3, <1>4, <1>6, KeysSound DEF MInv

LEMMA QuietTablesSound ==
  ASSUME MInv, UNCHANGED <<account, identity, group, conversation, reminders>>, MembershipTypeOK',
         \A i \in Invites : invite'[i] \in {Nobody, invite[i]}
  PROVE  MInv'
<1>1. RowsAdded
  BY DEF MInv, MembershipTypeOK, RowsAdded
<1>2. /\ Founders' /\ Identified' /\ FewAccounts'
      /\ \A h \in People : Members(h)' = Members(h)
  BY <1>1, MembershipQuiet
<1>3. KeysChange
  BY DEF KeysChange
<1>4. OneReminder'
  BY DEF MInv, OneReminder
<1>5. QED
  BY <1>2, <1>3, <1>4, KeysSound DEF MInv

LEMMA ExpirySound ==
  ASSUME MInv,
         \/ \E x \in Actors, l \in Links : RedeemLink(x, l)
         \/ \E l \in Links : LinkExpires(l)
         \/ \E i \in Invites : Expire(i)
         \/ \E h \in People, n \in {FreeSeats, FamilySeats} : SetSeats(h, n)
  PROVE  MInv'
<1>1. ASSUME NEW x \in Actors, NEW l \in Links, RedeemLink(x, l) PROVE MInv'
  <2>1. /\ link[l] # Nobody /\ link' = [link EXCEPT ![l].target = x]
        /\ UNCHANGED <<account, identity, invite, group, conversation, reminders, seats>>
    BY <1>1 DEF RedeemLink
  <2>2. MembershipTypeOK'
    BY <2>1 DEF MInv, MembershipTypeOK
  <2>3. QED
    BY <2>1, <2>2, QuietTablesSound
<1>2. ASSUME NEW l \in Links, LinkExpires(l) PROVE MInv'
  <2>1. MembershipTypeOK'
    BY <1>2 DEF LinkExpires, MInv, MembershipTypeOK
  <2>2. QED
    BY <1>2, <2>1, QuietTablesSound DEF LinkExpires
<1>3. ASSUME NEW i \in Invites, Expire(i) PROVE MInv'
  <2>1. MembershipTypeOK' /\ \A j \in Invites : invite'[j] \in {Nobody, invite[j]}
    BY <1>3 DEF Expire, MInv, MembershipTypeOK
  <2>2. QED
    BY <1>3, <2>1, QuietTablesSound DEF Expire
<1>4. ASSUME NEW h \in People, NEW n \in {FreeSeats, FamilySeats}, SetSeats(h, n) PROVE MInv'
  <2>1. MembershipTypeOK'
    BY <1>4 DEF SetSeats, MInv, MembershipTypeOK
  <2>2. QED
    BY <1>4, <2>1, QuietTablesSound DEF SetSeats
<1>5. QED
  BY <1>1, <1>2, <1>3, <1>4

-----------------------------------------------------------------------------
(* Leaving, removal and the ban.                                            *)

LEMMA EndedSound ==
  ASSUME MInv, RowsAdded, NEW p \in People, IsKnown(p), account[p].role # "owner",
         NEW heir \in Members(account[p].home), heir # p,
         NEW rows, Quieter(rows), Ended(p, heir, rows), UNCHANGED <<link, conversation, seats>>
  PROVE  MInv'
<1>1. account[p] \in Account /\ account \in [People -> Account \cup {Nobody}]
      /\ Nobody \notin Account
  BY MembershipAssumption DEF MInv, MembershipTypeOK, IsKnown
<1>2. account' = [account EXCEPT ![p].active = FALSE]
  BY DEF Ended
<1>3. AccountsStay
  BY <1>1, <1>2 DEF AccountsStay, TelegramsStay, IsKnown, Account
<1>4. Founders' /\ Identified' /\ FewAccounts'
  BY <1>3, StayingSound
<1>5. \A q \in People \ {p} : account'[q] = account[q]
  BY <1>1, <1>2
<1>6. \A h \in People : Members(h) \ {p} \subseteq Members(h)'
  BY <1>5, MembersAre, MembersAreNext DEF IsKnown
<1>7. OneReminder' /\ reminders' \in [Actors -> {"none", "off", "on"}]
  <2>1. reminders' = [y \in Actors |-> IF identity'[y] = p /\ rows[y] = "on" THEN "off"
                                        ELSE rows[y]]
    BY DEF Ended
  <2>2. reminders' \in [Actors -> {"none", "off", "on"}]
        /\ \A y \in Actors : reminders'[y] = "on" => rows[y] = "on" /\ identity'[y] # p
    BY <2>1 DEF Quieter
  <2>3. Quieter(reminders')
    BY <2>2 DEF Quieter
  <2>4. ASSUME NEW y \in Actors, reminders'[y] = "on"
        PROVE  account'[identity[y]].active
    <3>1. reminders[y] = "on" /\ identity'[y] # p
      BY <2>2, <2>4 DEF Quieter
    <3>2. identity[y] # Nobody /\ identity'[y] = identity[y] /\ identity[y] \in People
      BY <3>1 DEF MInv, MembershipTypeOK, OneReminder, RowsAdded
    <3>3. QED
      BY <1>5, <3>1, <3>2 DEF MInv, OneReminder
  <2>5. QED
    BY <2>2, <2>3, <2>4, RemindersSound, AddedStay
<1>8. heir \in People /\ account[p].home \in People /\ account'[p].home = account[p].home
  BY <1>1, <1>3, MembersAre DEF Account, AccountsStay, TelegramsStay
<1>9. heir \in Members(account[p].home)'
  BY <1>6, <1>8
<1>10. \A i \in Invites : invite'[i] # Nobody => invite'[i] = invite[i] /\ invite[i].by # p
  BY DEF Ended, RevokedInvites
<1>11. group' = Transferred(p, heir)
  BY DEF Ended
<1>12. ASSUME NEW g \in Groups, group'[g] # Nobody
       PROVE  group'[g].by \in Members(group[g].home)'
  <2>1. /\ group[g] # Nobody => /\ group[g] \in [home : People, by : People]
                                /\ group[g].by \in Members(group[g].home)
        /\ group[g] = Nobody => group'[g] = Nobody
    BY <1>11 DEF Transferred, MInv, MembershipTypeOK, KeysHeld, BindingsValid
  <2>2. group[g] # Nobody
    BY <1>12, <2>1
  <2>3. CASE group[g].by = p
    <3>1. group[g].home = account[p].home
      BY <2>1, <2>2, <2>3, MembersAre
    <3>2. group[g] = [home |-> account[p].home, by |-> p]
      BY <2>1, <2>2, <2>3, <3>1
    <3>3. group'[g].home = account[p].home /\ group'[g].by = heir
      BY <1>11, <2>1, <2>2, <3>2 DEF Transferred
    <3>4. QED
      BY <1>8, <1>9, <3>3
  <2>4. CASE group[g].by # p
    <3>1. group'[g] = group[g]
      BY <1>11, <2>4 DEF Transferred
    <3>2. QED
      BY <1>6, <2>1, <2>2, <2>4, <3>1
  <2>5. QED
    BY <2>3, <2>4
<1>13. ASSUME NEW i \in Invites, invite'[i] # Nobody
       PROVE  invite'[i].by \in Members(invite[i].home)'
  <2>1. /\ invite'[i] = invite[i] /\ invite[i].by # p /\ invite[i].home \in People
        /\ invite[i].by \in Members(invite[i].home)
    BY <1>10, <1>13 DEF MInv, MembershipTypeOK, KeysHeld, InvitesFromMembers
  <2>2. QED
    BY <1>6, <2>1
<1>14. ASSUME NEW g \in Groups, conversation'[g] # Nobody
       PROVE  /\ conversation'[g].by \in Members(conversation[g].home)'
              /\ conversation'[g].by = conversation'[g].home
  <2>1. /\ conversation'[g] = conversation[g] /\ conversation[g].home \in People
        /\ conversation[g].by \in Members(conversation[g].home)
        /\ conversation[g].by = conversation[g].home
    BY <1>14 DEF MInv, MembershipTypeOK, KeysHeld, BindingsValid
  <2>2. account[conversation[g].by].role = "owner"
    BY <2>1, MembersAre DEF MInv, Founders
  <2>3. conversation[g].by # p
    BY <2>2
  <2>4. QED
    BY <1>6, <2>1, <2>3
<1>15. KeysHeld'
  BY <1>12, <1>13, <1>14 DEF KeysHeld, InvitesFromMembers, BindingsValid
<1>16. MembershipTypeOK'
  <2>1. group' \in [Groups -> [home : People, by : People] \cup {Nobody}]
    BY <1>8, <1>11 DEF Transferred, MInv, MembershipTypeOK
  <2>2. invite' \in [Invites -> [home : People, by : People, reusable : BOOLEAN] \cup {Nobody}]
    BY DEF Ended, RevokedInvites, MInv, MembershipTypeOK
  <2>3. QED
    BY <1>3, <1>7, <2>1, <2>2 DEF AccountsStay, TelegramsStay, RowsAdded, MInv, MembershipTypeOK
<1>17. QED
  BY <1>4, <1>7, <1>15, <1>16 DEF MInv

LEMMA HandleLeaveSound ==
  ASSUME MInv, NEW x \in Actors, NEW p, HandleLeave(x, p)
  PROVE  MInv'
<1>1. PICK rows \in {reminders, Observed(x)} : Writes(x, p, rows) /\ LeaveHousehold(p, rows)
  BY DEF HandleLeave
<1>2. p \in People /\ IsKnown(p) /\ RowsAdded /\ account[p].role # "owner" /\ Quieter(rows)
  BY <1>1, WriterIs, WritesAre DEF LeaveHousehold
<1>3. PICK owner \in People :
        /\ account[owner] # Nobody /\ account[owner].role = "owner"
        /\ account[owner].home = account[p].home /\ Ended(p, owner, rows)
  BY <1>1 DEF LeaveHousehold
<1>4. owner \in Members(account[p].home) /\ owner # p
  BY <1>2, <1>3, MembersAre DEF MInv, Founders, IsKnown
<1>5. UNCHANGED <<link, conversation, seats>>
  BY <1>1 DEF LeaveHousehold
<1>6. QED
  BY <1>2, <1>3, <1>4, <1>5, EndedSound

LEMMA HandleRemoveSound ==
  ASSUME MInv, NEW x \in Actors, NEW p, NEW target \in People, HandleRemove(x, p, target)
  PROVE  MInv'
<1>1. PICK rows \in {reminders, Observed(x)} :
        Writes(x, p, rows) /\ RemoveMember(p, target, rows)
  BY DEF HandleRemove
<1>2. p \in People /\ IsKnown(p) /\ account[p].active /\ RowsAdded /\ account[p].role = "owner"
      /\ Quieter(rows)
  BY <1>1, WriterIs, WritesAre DEF RemoveMember
<1>3. /\ target # p /\ target \in Members(account[p].home) /\ Ended(target, p, rows)
      /\ UNCHANGED <<link, conversation, seats>>
  BY <1>1 DEF RemoveMember
<1>4. IsKnown(target) /\ account[target].home = account[p].home
  BY <1>3, MembersAre
<1>5. account[p].home = p /\ (account[target].role = "owner" => account[target].home = target)
  BY <1>2, <1>4 DEF MInv, Founders
<1>6. account[target].role # "owner" /\ p \in Members(account[target].home)
  BY <1>2, <1>3, <1>4, <1>5, MembersAre
<1>7. QED
  BY <1>2, <1>3, <1>4, <1>6, EndedSound

LEMMA SetBannedSound ==
  ASSUME MInv, NEW p \in People, NEW banned \in BOOLEAN, SetBanned(p, banned)
  PROVE  MInv'
<1>1. /\ IsKnown(p) /\ account' = [account EXCEPT ![p].banned = banned]
      /\ UNCHANGED <<identity, invite, link, group, conversation, reminders, seats>>
  BY DEF SetBanned, IsKnown
<1>2. account[p] \in Account /\ account \in [People -> Account \cup {Nobody}]
      /\ Nobody \notin Account
  BY <1>1, MembershipAssumption DEF MInv, MembershipTypeOK, IsKnown
<1>3. /\ AccountsStay
      /\ \A q \in People : IsKnown(q) => account'[q].active = account[q].active
  BY <1>1, <1>2 DEF AccountsStay, TelegramsStay, IsKnown, Account
<1>4. RowsAdded
  BY <1>1 DEF MInv, MembershipTypeOK, RowsAdded
<1>5. Founders' /\ Identified' /\ FewAccounts'
  BY <1>3, <1>4, StayingSound
<1>6. \A h \in People : Members(h) \subseteq Members(h)'
  BY <1>3, MembersAre, MembersAreNext DEF AccountsStay, TelegramsStay
<1>7. KeysHeld'
  BY <1>1, <1>6, KeysSound DEF KeysChange
<1>8. \A y \in Actors : reminders[y] = "on" =>
        identity[y] \in People /\ IsKnown(identity[y]) /\ account[identity[y]].active
  BY DEF MInv, MembershipTypeOK, OneReminder, Identified
<1>9. OneReminder'
  BY <1>1, <1>3, <1>4, <1>8, RemindersSound, AddedStay DEF Quieter, MInv, MembershipTypeOK
<1>10. MembershipTypeOK'
  BY <1>1, <1>3 DEF AccountsStay, TelegramsStay, MInv, MembershipTypeOK
<1>11. QED
  BY <1>5, <1>7, <1>9, <1>10 DEF MInv

-----------------------------------------------------------------------------
(* Who gets an account or comes back.                                       *)

\* The founder of a household that an invite is to.
LEMMA InvitedTo ==
  ASSUME MInv, NEW i \in Invites, invite[i] # Nobody
  PROVE  LET h == invite[i].home
         IN /\ h \in People /\ IsKnown(h) /\ account[h].home = h
            /\ account[h].role = "owner" /\ account[h].active
<1>1. invite[i].home \in People /\ invite[i].by \in Members(invite[i].home)
  BY DEF MInv, MembershipTypeOK, KeysHeld, InvitesFromMembers
<1>2. QED
  BY <1>1, MembersAre DEF MInv, Founders

\* The row of a person who has no account yet: of a founder, or of a member.
Opens(x, row) ==
  /\ row \in Account /\ row.active /\ row.telegram = TelegramId(x)
  /\ \/ row.home = Person(x) /\ row.role = "owner"
     \/ /\ IsKnown(row.home) /\ account[row.home].home = row.home
        /\ account[row.home].role = "owner" /\ account[row.home].active
        /\ row.role = "member"
  /\ account' = [account EXCEPT ![Person(x)] = row]

LEMMA OpenedSound ==
  ASSUME MInv, NEW x \in Actors, ~IsKnown(Person(x)), TelegramUser(x) = Nobody,
         identity[x] = Nobody, NEW row, Opens(x, row),
         \/ identity' = [identity EXCEPT ![x] = Person(x)]
         \/ identity' = identity /\ Person(x) \in Telegrams
  PROVE  /\ Founders' /\ Identified' /\ FewAccounts' /\ MemberRowsStay
         /\ account' \in [People -> Account \cup {Nobody}]
         /\ identity' \in [Actors -> People \cup {Nobody}]
         /\ \A h \in People : Members(h) \subseteq Members(h)'
         /\ \A q \in People : IsKnown(q) => account'[q] = account[q]
<1> DEFINE o == Person(x)
<1>1. o \in People /\ Nobody \notin Account /\ Nobody \notin People
      /\ account \in [People -> Account \cup {Nobody}]
      /\ identity \in [Actors -> People \cup {Nobody}] /\ row \in Account
  BY PersonIsOne, MembershipAssumption DEF MInv, MembershipTypeOK, Opens
<1>2. /\ account'[o] = row /\ IsKnown(o)' /\ ~IsKnown(o)
      /\ \A q \in People \ {o} : account'[q] = account[q] /\ (IsKnown(q)' <=> IsKnown(q))
  BY <1>1 DEF Opens, IsKnown
<1>3. \A p \in People : IsKnown(p) => account[p] \in Account /\ account[p].home \in People
                                   /\ account[p].home # o
  BY <1>1, <1>2 DEF MInv, Founders, IsKnown, Account
<1>4. Founders'
  <2>1. ASSUME NEW p \in People, IsKnown(p)'
        PROVE  /\ IsKnown(account[p].home)'
               /\ account'[account'[p].home].home = account'[p].home
               /\ account'[account'[p].home].role = "owner"
               /\ account'[account'[p].home].active
               /\ account'[p].role = "owner" => account'[p].home = p
    <3>1. CASE p = o /\ row.home = o
      BY <1>2, <3>1 DEF Opens
    <3>2. CASE p = o /\ row.home # o
      <4>1. row.home \in People \ {o}
        BY <1>1, <3>2 DEF Account
      <4>2. QED
        BY <1>2, <3>2, <4>1 DEF Opens
    <3>3. CASE p # o
      BY <1>2, <1>3, <2>1, <3>3 DEF MInv, Founders
    <3>4. QED
      BY <3>1, <3>2, <3>3
  <2>2. QED
    BY <2>1 DEF Founders
<1>5. \A y \in Actors : identity'[y] # identity[y] => y = x /\ identity'[y] = o
  BY <1>1
<1>6. identity' \in [Actors -> People \cup {Nobody}] /\ MemberRowsStay
  BY <1>1, <1>5 DEF MemberRowsStay
<1>7. Identified'
  <2>1. ASSUME NEW y \in Actors, identity'[y] # Nobody
        PROVE  /\ IsKnown(identity[y])'
               /\ Person(y) \in Telegrams => account'[identity'[y]].telegram = Person(y)
    <3>1. CASE y = x /\ identity[y] # identity'[y]
      BY <1>2, <1>5, <3>1 DEF Opens, TelegramId
    <3>2. CASE identity[y] = identity'[y]
      <4>1. IsKnown(identity[y]) /\ identity[y] \in People \ {o}
            /\ (Person(y) \in Telegrams => account[identity[y]].telegram = Person(y))
        BY <1>1, <1>2, <2>1, <3>2 DEF MInv, Identified
      <4>2. QED
        BY <1>2, <3>2, <4>1
    <3>3. QED
      BY <1>5, <3>1, <3>2
  <2>2. ASSUME NEW p \in People, IsKnown(p) PROVE account[p].telegram # Nobody => account[p].telegram # row.telegram
    <3>1. CASE Person(x) \in Telegrams
      BY <2>2, <3>1, TelegramUserIs DEF Opens, TelegramId
    <3>2. CASE Person(x) \notin Telegrams
      BY <3>2 DEF Opens, TelegramId
    <3>3. QED
      BY <3>1, <3>2
  <2>3. ASSUME NEW p \in People, NEW q \in People, IsKnown(p)', IsKnown(q)',
               account'[p].telegram # Nobody, account'[p].telegram = account'[q].telegram
        PROVE  p = q
    <3>1. CASE p # o /\ q # o
      BY <1>2, <2>3, <3>1 DEF MInv, Identified
    <3>2. CASE p = o \/ q = o
      BY <1>2, <2>2, <2>3, <3>2
    <3>3. QED
      BY <3>1, <3>2
  <2>4. ASSUME NEW t \in Telegrams, IsKnown(t)' PROVE account'[t].telegram = t
    <3>1. CASE t = o
      BY <1>2, <3>1 DEF Opens, TelegramId
    <3>2. CASE t # o
      BY <1>2, <2>4, <3>2 DEF MInv, Identified, People
    <3>3. QED
      BY <3>1, <3>2
  <2>5. ASSUME NEW g \in Guests, IsKnown(g)' PROVE identity'[<<"slack", g>>] # Nobody
    <3>1. <<"slack", g>> \in Actors /\ g \in People
      BY DEF Actors, People
    <3>2. CASE g = o
      <4>1. x = <<"slack", g>> /\ Person(x) \notin Telegrams
        BY <3>2, PersonIsOne, MembershipAssumption
      <4>2. QED
        BY <1>1, <4>1
    <3>3. CASE g # o
      BY <1>2, <1>5, <1>1, <2>5, <3>1, <3>3 DEF MInv, Identified
    <3>4. QED
      BY <3>2, <3>3
  <2>6. QED
    BY <2>1, <2>3, <2>4, <2>5 DEF Identified
<1>8. FewAccounts'
  <2>1. {p \in People : IsKnown(p)'} = {p \in People : IsKnown(p)} \cup {o}
    BY <1>1, <1>2
  <2>2. QED
    BY <2>1, FS_AddElement DEF MInv, FewAccounts
<1>9. \A h \in People : Members(h) \subseteq Members(h)'
  BY <1>2, MembersAre, MembersAreNext
<1>10. account' \in [People -> Account \cup {Nobody}] /\ \A q \in People : IsKnown(q) => account'[q] = account[q]
  BY <1>1, <1>2 DEF Opens
<1>11. QED
  BY <1>4, <1>6, <1>7, <1>8, <1>9, <1>10

\* A known account joins the household of h.
LEMMA RejoinedSound ==
  ASSUME MInv, RowsAdded, NEW p \in People, IsKnown(p), ~account[p].active,
         NEW h \in People, IsKnown(h), account[h].home = h, account[h].role = "owner",
         account[h].active,
         NEW row \in Account, row.home = h, row.role = "member", row.telegram = account[p].telegram,
         account' = [account EXCEPT ![p] = row]
  PROVE  /\ Founders' /\ Identified' /\ FewAccounts'
         /\ account' \in [People -> Account \cup {Nobody}]
         /\ \A g \in People : Members(g) \subseteq Members(g)'
         /\ \A q \in People : IsKnown(q) /\ account[q].active => account'[q] = account[q]
<1>1. Nobody \notin Account /\ account \in [People -> Account \cup {Nobody}]
  BY MembershipAssumption DEF MInv, MembershipTypeOK
<1>2. /\ account'[p] = row /\ IsKnown(p)'
      /\ \A q \in People \ {p} : account'[q] = account[q] /\ (IsKnown(q)' <=> IsKnown(q))
  BY <1>1 DEF IsKnown
<1>3. \A q \in People : IsKnown(q) => account[q].home \in People \ {p}
  BY <1>1 DEF MInv, Founders, Account, IsKnown
<1>4. Founders'
  <2>1. ASSUME NEW q \in People, IsKnown(q)'
        PROVE  /\ IsKnown(account[q].home)'
               /\ account'[account'[q].home].home = account'[q].home
               /\ account'[account'[q].home].role = "owner"
               /\ account'[account'[q].home].active
               /\ account'[q].role = "owner" => account'[q].home = q
    <3>1. CASE q = p
      BY <1>2, <3>1
    <3>2. CASE q # p
      BY <1>2, <1>3, <2>1, <3>2 DEF MInv, Founders
    <3>3. QED
      BY <3>1, <3>2
  <2>2. QED
    BY <2>1 DEF Founders
<1>5. TelegramsStay
  BY <1>1, <1>2 DEF TelegramsStay
<1>6. Identified' /\ FewAccounts'
  BY <1>5, IdentifiedStays
<1>7. \A g \in People : Members(g) \subseteq Members(g)'
  BY <1>2, MembersAre, MembersAreNext
<1>8. QED
  BY <1>2, <1>4, <1>5, <1>6, <1>7 DEF TelegramsStay

\* The rest of the tables after somebody came.
LEMMA NewcomerSound ==
  ASSUME MInv, MemberRowsStay, Founders', Identified', FewAccounts',
         account' \in [People -> Account \cup {Nobody}],
         identity' \in [Actors -> People \cup {Nobody}],
         \A h \in People : Members(h) \subseteq Members(h)',
         \A q \in People : IsKnown(q) /\ account[q].active => account'[q].active,
         UNCHANGED <<link, group, conversation, seats>>, Quieter(reminders'),
         invite' \in [Invites -> [home : People, by : People, reusable : BOOLEAN] \cup {Nobody}],
         \A i \in Invites : invite'[i] \in {Nobody, invite[i]}
  PROVE  MInv'
<1>1. KeysHeld'
  BY KeysSound DEF KeysChange
<1>2. \A y \in Actors : reminders[y] = "on" =>
        identity[y] \in People /\ IsKnown(identity[y]) /\ account[identity[y]].active
  BY DEF MInv, MembershipTypeOK, OneReminder, Identified
<1>3. OneReminder'
  BY <1>2, RemindersSound DEF Quieter
<1>4. QED
  BY <1>1, <1>3 DEF MInv, MembershipTypeOK, Quieter

LEMMA FoundedSound ==
  ASSUME MInv, NEW x \in Actors, HandleStart(x) \/ StartCommand(x)
  PROVE  MInv'
<1> DEFINE row == [home |-> Person(x), role |-> "owner", active |-> TRUE, banned |-> FALSE,
                   telegram |-> TelegramId(x)]
<1>1. /\ ~IsKnown(Person(x)) /\ account' = [account EXCEPT ![Person(x)] = row]
      /\ UNCHANGED <<invite, link, group, conversation, seats>> /\ Quieter(reminders')
  BY ObservedIs DEF HandleStart, StartCommand, Founded, IsKnown
<1>2. TelegramUser(x) = Nobody /\ identity[x] = Nobody
  <2>1. CASE HandleStart(x)
    <3>1. Person(x) \in Telegrams /\ TelegramUser(x) = Nobody
      BY <2>1, PersonIsOne DEF HandleStart
    <3>2. identity[x] \in People \cup {Nobody}
      BY DEF MInv, MembershipTypeOK
    <3>3. QED
      BY <3>1, <3>2, TelegramUserIs DEF MInv, Identified
  <2>2. CASE StartCommand(x)
    BY <2>2, ResolvedIs DEF StartCommand
  <2>3. QED
    BY <2>1, <2>2
<1>3. Opens(x, row)
  BY <1>1, PersonIsOne DEF Opens, Account, TelegramId
<1>4. \/ identity' = [identity EXCEPT ![x] = Person(x)]
      \/ identity' = identity /\ Person(x) \in Telegrams
  BY PersonIsOne DEF HandleStart, StartCommand
<1> HIDE DEF row
<1>5. /\ Founders' /\ Identified' /\ FewAccounts' /\ MemberRowsStay
      /\ account' \in [People -> Account \cup {Nobody}]
      /\ identity' \in [Actors -> People \cup {Nobody}]
      /\ \A h \in People : Members(h) \subseteq Members(h)'
      /\ \A q \in People : IsKnown(q) => account'[q] = account[q]
  BY <1>1, <1>2, <1>3, <1>4, OpenedSound
<1>6. QED
  BY <1>1, <1>5, NewcomerSound DEF MInv, MembershipTypeOK

\* Both doors for an invite: p is the account that comes back, if there is one.
LEMMA JoinedSound ==
  ASSUME MInv, NEW x \in Actors, NEW i \in Invites, invite[i] # Nobody,
         NEW p \in People \cup {Nobody}, MayJoin(p), account' = Joined(p, x, invite[i].home),
         p = Nobody =>
           /\ ~IsKnown(Person(x)) /\ TelegramUser(x) = Nobody /\ identity[x] = Nobody
           /\ \/ identity' = [identity EXCEPT ![x] = Person(x)]
              \/ identity' = identity /\ Person(x) \in Telegrams,
         p # Nobody =>
           /\ IsKnown(p) /\ RowsAdded
           /\ Person(x) \in Telegrams => account[p].telegram = Person(x),
         invite' = [invite EXCEPT ![i] = IF @.reusable THEN @ ELSE Nobody],
         UNCHANGED <<link, group, conversation, seats>>, Quieter(reminders')
  PROVE  /\ MInv' /\ MemberRowsStay
         /\ \E q \in People : \A h \in People :
              Members(h)' \subseteq Members(h) \cup IF h = invite[i].home THEN {q} ELSE {}
<1> DEFINE home == invite[i].home
<1>1. /\ home \in People /\ IsKnown(home) /\ account[home].home = home
      /\ account[home].role = "owner" /\ account[home].active
  BY InvitedTo
<1>2. /\ invite' \in [Invites -> [home : People, by : People, reusable : BOOLEAN] \cup {Nobody}]
      /\ \A j \in Invites : invite'[j] \in {Nobody, invite[j]}
  BY DEF MInv, MembershipTypeOK
<1> HIDE DEF home
<1>3. ASSUME NEW q \in People, NEW row, account' = [account EXCEPT ![q] = row], row.home = home
      PROVE  \A h \in People : Members(h)' \subseteq Members(h) \cup IF h = home THEN {q} ELSE {}
  <2>1. \A r \in People \ {q} : account'[r] = account[r]
    BY <1>3 DEF MInv, MembershipTypeOK
  <2>2. account'[q] = row
    BY <1>3 DEF MInv, MembershipTypeOK
  <2>3. QED
    BY <1>3, <2>1, <2>2, MembersAre, MembersAreNext DEF IsKnown
<1>4. CASE p = Nobody
  <2> DEFINE row == [home |-> home, role |-> "member", active |-> TRUE, banned |-> FALSE,
                     telegram |-> TelegramId(x)]
  <2>1. account' = [account EXCEPT ![Person(x)] = row] /\ Person(x) \in People
    BY <1>4, PersonIsOne DEF Joined, home
  <2>2. row \in Account
    BY <1>1, PersonIsOne DEF Account, TelegramId
  <2>3. Opens(x, row)
    BY <1>1, <2>1, <2>2 DEF Opens
  <2>4. row.home = home
    OBVIOUS
  <2> HIDE DEF row
  <2>5. /\ Founders' /\ Identified' /\ FewAccounts' /\ MemberRowsStay
        /\ account' \in [People -> Account \cup {Nobody}]
        /\ identity' \in [Actors -> People \cup {Nobody}]
        /\ \A h \in People : Members(h) \subseteq Members(h)'
        /\ \A q \in People : IsKnown(q) => account'[q] = account[q]
    BY <1>4, <2>3, OpenedSound
  <2>6. MInv'
    BY <1>2, <2>5, NewcomerSound
  <2>7. QED
    BY <1>3, <2>1, <2>4, <2>5, <2>6 DEF home
<1>5. CASE p # Nobody
  <2> DEFINE row == [account[p] EXCEPT !.home = home, !.active = TRUE, !.role = "member",
                       !.telegram = IF Person(x) \in Telegrams THEN Person(x) ELSE @]
  <2>1. p \in People /\ IsKnown(p) /\ ~account[p].active /\ RowsAdded
        /\ account \in [People -> Account \cup {Nobody}] /\ account[p] \in Account
    BY <1>5 DEF MInv, MembershipTypeOK, MayJoin, IsKnown
  <2>2. account' = [account EXCEPT ![p] = row]
    BY <1>5, <2>1 DEF Joined, home
  <2>3. row \in Account /\ row.home = home /\ row.role = "member" /\ row.active
        /\ row.telegram = account[p].telegram
    BY <1>1, <1>5, <2>1 DEF Account
  <2> HIDE DEF row
  <2>4. /\ Founders' /\ Identified' /\ FewAccounts'
        /\ account' \in [People -> Account \cup {Nobody}]
        /\ \A h \in People : Members(h) \subseteq Members(h)'
        /\ \A q \in People : IsKnown(q) /\ account[q].active => account'[q] = account[q]
    BY <1>1, <2>1, <2>2, <2>3, RejoinedSound
  <2>5. MInv' /\ MemberRowsStay
    BY <1>2, <2>1, <2>4, NewcomerSound, AddedStay DEF RowsAdded
  <2>6. QED
    BY <1>3, <2>1, <2>2, <2>3, <2>5 DEF home
<1>6. QED
  BY <1>4, <1>5

\* An invite that is redeemed: a seat was free for the one who takes it.
Seated ==
  \E home \in People, q \in People :
    /\ FreeSeat(home)
    /\ \A h \in People : Members(h)' \subseteq Members(h) \cup IF h = home THEN {q} ELSE {}

LEMMA JoinSound ==
  ASSUME MInv, NEW x \in Actors, NEW i \in Invites, Join(x, i)
  PROVE  MInv' /\ MemberRowsStay /\ Seated
<1>1. /\ invite[i] # Nobody /\ MayJoin(Resolved(x)) /\ ~Conflict(x)
      /\ FreeSeat(invite[i].home)
      /\ account' = Joined(Resolved(x), x, invite[i].home)
      /\ identity' = [identity EXCEPT ![x] = IF @ # Nobody THEN @ ELSE
                        IF Resolved(x) # Nobody THEN Resolved(x) ELSE Person(x)]
      /\ invite' = [invite EXCEPT ![i] = IF @.reusable THEN @ ELSE Nobody]
      /\ UNCHANGED <<link, group, conversation, seats>> /\ Quieter(reminders')
  BY ObservedIs DEF Join
<1>2. Resolved(x) = Nobody =>
        /\ ~IsKnown(Person(x)) /\ TelegramUser(x) = Nobody /\ identity[x] = Nobody
        /\ identity' = [identity EXCEPT ![x] = Person(x)]
  BY <1>1, ResolvedIs
<1>3. ASSUME Resolved(x) # Nobody
      PROVE  /\ IsKnown(Resolved(x)) /\ RowsAdded
             /\ Person(x) \in Telegrams => account[Resolved(x)].telegram = Person(x)
  <2>1. /\ Resolved(x) \in People /\ IsKnown(Resolved(x)) /\ identity[x] \in {Nobody, Resolved(x)}
        /\ Person(x) \in Telegrams => account[Resolved(x)].telegram = Person(x)
    BY <1>1, <1>3, ResolvedIs
  <2>2. identity' = [identity EXCEPT ![x] = Resolved(x)]
    BY <1>1, <1>3, <2>1
  <2>3. QED
    BY <2>1, <2>2 DEF RowsAdded, MInv, MembershipTypeOK
<1>4. Resolved(x) \in People \cup {Nobody}
  BY ResolvedIs
<1>5. invite[i].home \in People
  BY <1>1, InvitedTo
<1>6. /\ MInv' /\ MemberRowsStay
      /\ \E q \in People : \A h \in People :
           Members(h)' \subseteq Members(h) \cup IF h = invite[i].home THEN {q} ELSE {}
  BY <1>1, <1>2, <1>3, <1>4, JoinedSound
<1>7. Seated
  BY <1>1, <1>5, <1>6, Zenon DEF Seated
<1>8. QED
  BY <1>6, <1>7

LEMMA TryRedeemInviteSound ==
  ASSUME MInv, NEW x \in Actors, NEW i \in Invites, TryRedeemInvite(x, i)
  PROVE  MInv' /\ MemberRowsStay /\ Seated
<1>1. /\ Person(x) \in Telegrams /\ invite[i] # Nobody /\ MayJoin(TelegramUser(x))
      /\ FreeSeat(invite[i].home)
      /\ account' = Joined(TelegramUser(x), x, invite[i].home)
      /\ invite' = [invite EXCEPT ![i] = IF @.reusable THEN @ ELSE Nobody]
      /\ UNCHANGED <<identity, link, group, conversation, seats>> /\ Quieter(reminders')
  BY PersonIsOne, ObservedIs DEF TryRedeemInvite, RedeemInvite
<1>2. identity[x] \in People \cup {Nobody}
  BY DEF MInv, MembershipTypeOK
<1>3. TelegramUser(x) = Nobody => ~IsKnown(Person(x)) /\ identity[x] = Nobody
  BY <1>1, <1>2, TelegramUserIs, PersonIsOne DEF MInv, Identified
<1>4. TelegramUser(x) # Nobody =>
        IsKnown(TelegramUser(x)) /\ account[TelegramUser(x)].telegram = Person(x)
  BY TelegramUserIs
<1>5. RowsAdded /\ TelegramUser(x) \in People \cup {Nobody}
  BY <1>1, TelegramUserIs DEF RowsAdded, MInv, MembershipTypeOK
<1>6. invite[i].home \in People
  BY <1>1, InvitedTo
<1>7. /\ MInv' /\ MemberRowsStay
      /\ \E q \in People : \A h \in People :
           Members(h)' \subseteq Members(h) \cup IF h = invite[i].home THEN {q} ELSE {}
  <2>1. identity' = identity
    BY <1>1
  <2>2. QED
    BY <1>1, <1>3, <1>4, <1>5, <2>1, JoinedSound
<1>8. Seated
  BY <1>1, <1>6, <1>7, Zenon DEF Seated
<1>9. QED
  BY <1>7, <1>8

-----------------------------------------------------------------------------
(* The confirmation of a link.                                              *)

LEMMA ConfirmLinkSound ==
  ASSUME MInv, NEW x \in Actors, NEW p, NEW l \in Links, ConfirmLink(x, p, l)
  PROVE  MInv' /\ MemberRowsStay /\ \A h \in People : Members(h)' = Members(h)
<1> DEFINE y == link[l].target
           id == IF Person(y) \in Telegrams THEN Person(y) ELSE account[p].telegram
<1>1. /\ p = Resolved(x) /\ p # Nobody /\ account[p] # Nobody /\ ~Conflict(x)
      /\ link[l] # Nobody /\ y # Nobody /\ identity[y] \in {Nobody, p}
      /\ Person(y) \in Telegrams => /\ account[p].telegram \in {Nobody, Person(y)}
                                    /\ Having(Person(y)) \subseteq {p}
      /\ identity' = [identity EXCEPT ![x] = p, ![y] = p]
      /\ account' = [account EXCEPT ![p].telegram =
                       IF Person(y) \in Telegrams THEN Person(y) ELSE @]
      /\ link' = [link EXCEPT ![l] = Nobody]
      /\ UNCHANGED <<invite, group, conversation, seats>> /\ Quieter(reminders')
  BY ObservedIs DEF ConfirmLink, Admitted
<1>2. y \in Actors
  BY <1>1 DEF MInv, MembershipTypeOK
<1>3. /\ p \in People /\ IsKnown(p) /\ account[p] \in Account
      /\ identity[x] \in {Nobody, p}
      /\ Person(x) \in Telegrams => account[p].telegram = Person(x)
      /\ Nobody \notin People \cup Account
      /\ account \in [People -> Account \cup {Nobody}]
      /\ identity \in [Actors -> People \cup {Nobody}]
  BY <1>1, ResolvedIs, MembershipAssumption DEF MInv, MembershipTypeOK, IsKnown
<1> HIDE DEF y
<1>4. /\ account' = [account EXCEPT ![p] = [account[p] EXCEPT !.telegram = id]]
      /\ id \in Telegrams \cup {Nobody}
  BY <1>1, <1>3 DEF Account
<1>5. /\ account'[p] \in Account /\ account'[p].home = account[p].home
      /\ account'[p].role = account[p].role /\ account'[p].active = account[p].active
      /\ account'[p].telegram = id
      /\ account[p].telegram # Nobody => id = account[p].telegram
  BY <1>1, <1>3, <1>4 DEF Account
<1>6. \A q \in People \ {p} : account'[q] = account[q]
  BY <1>3, <1>4
<1>7. Person(y) \in Telegrams =>
        id = Person(y) /\ \A q \in People : IsKnown(q) /\ account[q].telegram = id => q = p
  BY <1>1 DEF Having, IsKnown
<1> HIDE DEF id
<1>8. account' \in [People -> Account \cup {Nobody}] /\ \A q \in People : IsKnown(q)' <=> IsKnown(q)
  BY <1>3, <1>4, <1>5, <1>6 DEF IsKnown
<1>9. /\ identity' \in [Actors -> People \cup {Nobody}] /\ MemberRowsStay
      /\ identity'[y] = p
      /\ \A z \in Actors : identity'[z] # identity[z] => z \in {x, y} /\ identity'[z] = p
  BY <1>1, <1>2, <1>3 DEF MemberRowsStay
<1>10. Identified'
  <2>1. ASSUME NEW z \in Actors, identity'[z] # Nobody
        PROVE  /\ IsKnown(identity[z])'
               /\ Person(z) \in Telegrams => account'[identity'[z]].telegram = Person(z)
    <3>1. CASE z = y
      BY <1>3, <1>5, <1>7, <1>8, <1>9, <3>1
    <3>2. CASE z # y /\ identity'[z] = p
      <4>1. Person(z) \in Telegrams => account[p].telegram = Person(z)
        BY <1>3, <1>9, <2>1, <3>2 DEF MInv, Identified
      <4>2. Person(z) \in Telegrams => id = Person(z)
        BY <1>5, <4>1, MembershipAssumption DEF People
      <4>3. QED
        BY <1>3, <1>5, <1>8, <3>2, <4>2
    <3>3. CASE z # y /\ identity'[z] # p
      <4>1. identity'[z] = identity[z] /\ identity[z] \in People \ {p}
        BY <1>3, <1>9, <2>1, <3>3
      <4>2. IsKnown(identity[z]) /\ (Person(z) \in Telegrams => account[identity[z]].telegram = Person(z))
        BY <1>3, <4>1 DEF MInv, Identified
      <4>3. QED
        BY <1>6, <4>1, <4>2 DEF IsKnown
    <3>4. QED
      BY <3>1, <3>2, <3>3
  <2>2. ASSUME NEW q \in People, IsKnown(q), q # p PROVE id # Nobody => account[q].telegram # id
    <3>1. CASE Person(y) \in Telegrams
      BY <1>7, <2>2, <3>1
    <3>2. CASE Person(y) \notin Telegrams
      BY <1>3, <2>2, <3>2 DEF id, MInv, Identified
    <3>3. QED
      BY <3>1, <3>2
  <2>3. ASSUME NEW q \in People, NEW r \in People, IsKnown(q)', IsKnown(r)',
               account'[q].telegram # Nobody, account'[q].telegram = account'[r].telegram
        PROVE  q = r
    <3>1. CASE q # p /\ r # p
      BY <1>6, <1>8, <2>3, <3>1 DEF MInv, Identified
    <3>2. CASE q = p \/ r = p
      BY <1>5, <1>6, <1>8, <2>2, <2>3, <3>2
    <3>3. QED
      BY <3>1, <3>2
  <2>4. ASSUME NEW t \in Telegrams, IsKnown(t)' PROVE account'[t].telegram = t
    <3>1. account[t].telegram = t /\ t # Nobody /\ t \in People
      BY <1>3, <1>8, <2>4 DEF MInv, Identified, People
    <3>2. QED
      BY <1>5, <1>6, <3>1
  <2>5. ASSUME NEW g \in Guests, IsKnown(g)' PROVE identity'[<<"slack", g>>] # Nobody
    <3>1. identity[<<"slack", g>>] # Nobody /\ <<"slack", g>> \in Actors
      BY <1>8, <2>5 DEF MInv, Identified, Actors, People
    <3>2. QED
      BY <1>9, <3>1 DEF MemberRowsStay
  <2>6. QED
    BY <2>1, <2>3, <2>4, <2>5 DEF Identified
<1>11. \A q \in People : IsKnown(q) => account[q].home \in People
  BY <1>3 DEF Account, IsKnown
<1>12. \A q \in People : IsKnown(q) =>
         /\ account'[q].home = account[q].home /\ account'[q].role = account[q].role
         /\ account'[q].active = account[q].active
  BY <1>5, <1>6
<1>13. Founders'
  BY <1>8, <1>11, <1>12 DEF MInv, Founders
<1>14. {q \in People : IsKnown(q)'} = {q \in People : IsKnown(q)}
  BY <1>8
<1>15. FewAccounts'
  BY <1>14 DEF MInv, FewAccounts
<1>16. \A h \in People : Members(h)' = Members(h)
  BY <1>8, <1>12, MembersAre, MembersAreNext
<1>17. KeysHeld'
  BY <1>1, <1>16, KeysSound DEF KeysChange
<1>18. \A z \in Actors : reminders[z] = "on" =>
         identity[z] \in People /\ IsKnown(identity[z]) /\ account[identity[z]].active
  BY DEF MInv, MembershipTypeOK, OneReminder, Identified
<1>19. OneReminder'
  BY <1>1, <1>9, <1>12, <1>18, RemindersSound DEF Quieter
<1>20. MembershipTypeOK'
  BY <1>1, <1>8, <1>9 DEF MInv, MembershipTypeOK, Quieter
<1>21. QED
  BY <1>9, <1>10, <1>13, <1>15, <1>16, <1>17, <1>19, <1>20 DEF MInv

-----------------------------------------------------------------------------
(* The theorems.                                                            *)

LEMMA MembershipStepSound ==
  ASSUME MInv, [MembershipNext]_membershipVars
  PROVE  MInv'
<1>1. ASSUME NEW x \in Actors, HandleStart(x) \/ StartCommand(x) PROVE MInv'
  BY <1>1, FoundedSound
<1>2. ASSUME NEW x \in Actors, NEW i \in Invites, Join(x, i) \/ TryRedeemInvite(x, i)
      PROVE  MInv'
  BY <1>2, JoinSound, TryRedeemInviteSound
<1>3. ASSUME NEW x \in Actors, NEW l \in Links, RedeemLink(x, l) PROVE MInv'
  BY <1>3, ExpirySound
<1>4. ASSUME NEW x \in Actors, NEW p,
             \/ Denied(x, p) \/ \E on \in BOOLEAN : Remind(x, p, on)
             \/ \E i \in Invites, reusable \in BOOLEAN : HandleInvite(x, p, i, reusable)
             \/ HandleLeave(x, p)
             \/ \E target \in People : HandleRemove(x, p, target)
             \/ \E g \in Groups : HandleBind(x, p, g) \/ BindConversation(x, p, g)
             \/ \E l \in Links : CreateLink(x, p, l) \/ ConfirmLink(x, p, l)
      PROVE  MInv'
  BY <1>4, DeniedSound, RemindSound, HandleInviteSound, HandleLeaveSound, HandleRemoveSound, HandleBindSound,
     BindConversationSound, CreateLinkSound, ConfirmLinkSound
<1>5. ASSUME NEW p \in People, NEW banned \in BOOLEAN, SetBanned(p, banned) PROVE MInv'
  BY <1>5, SetBannedSound
<1>6. CASE \/ \E h \in People, n \in {FreeSeats, FamilySeats} : SetSeats(h, n)
           \/ \E i \in Invites : Expire(i)
           \/ \E l \in Links : LinkExpires(l)
  BY <1>6, ExpirySound
<1>7. CASE UNCHANGED membershipVars
  <2>1. /\ MembershipTypeOK'
        /\ \A i \in Invites : invite'[i] \in {Nobody, invite[i]}
    BY <1>7 DEF membershipVars, MInv, MembershipTypeOK
  <2>2. QED
    BY <1>7, <2>1, QuietTablesSound DEF membershipVars
<1>8. CASE ImportLegacy
  BY <1>8, ImportLegacySound
<1>9. QED
  BY <1>1, <1>2, <1>3, <1>4, <1>5, <1>6, <1>7, <1>8 DEF MembershipNext

LEMMA MembershipInductive == MembershipSpec => []MInv
<1>1. MembershipInit => MInv
  <2> SUFFICES ASSUME MembershipInit PROVE MInv
    OBVIOUS
  <2>1. \A p \in People : ~IsKnown(p)
    BY DEF MembershipInit, IsKnown
  <2>2. {p \in People : IsKnown(p)} = {}
    BY <2>1
  <2>3. FewAccounts
    BY <2>2, FS_EmptySet DEF FewAccounts
  <2>4. MembershipTypeOK /\ OneReminder
    BY DEF MembershipInit, MembershipTypeOK, OneReminder
  <2>5. Founders
    BY <2>1 DEF Founders
  <2>6. Identified
    BY <2>1, MembershipAssumption DEF MembershipInit, Identified, People
  <2>7. KeysHeld
    BY DEF MembershipInit, KeysHeld, InvitesFromMembers, BindingsValid
  <2>8. QED
    BY <2>3, <2>4, <2>5, <2>6, <2>7 DEF MInv
<1>2. MInv /\ [MembershipNext]_membershipVars => MInv'
  BY MembershipStepSound
<1>3. QED
  BY <1>1, <1>2, PTL DEF MembershipSpec

\* Types of the tables of membership.
THEOREM MembershipTypeCorrect == MembershipSpec => []MembershipTypeOK
BY MembershipInductive, PTL DEF MInv

LEMMA HouseholdsOwned == MInv => OneOwner
<1> SUFFICES ASSUME MInv, NEW p \in People, IsKnown(p)
             PROVE  \E owner \in Members(account[p].home) :
                      {q \in Members(account[p].home) : account[q].role = "owner"} = {owner}
  BY DEF OneOwner, IsKnown
<1> DEFINE h == account[p].home
<1>1. h \in People
  BY DEF MInv, MembershipTypeOK, Account, IsKnown
<1>2. h \in Members(h) /\ account[h].role = "owner"
  BY <1>1, MembersAre DEF MInv, Founders
<1>3. \A q \in Members(h) : account[q].role = "owner" => q = h
  BY MembersAre DEF MInv, Founders
<1>4. {q \in Members(h) : account[q].role = "owner"} = {h}
  BY <1>2, <1>3
<1>5. QED
  BY <1>2, <1>4

LEMMA TelegramsOwned == MInv => TelegramCanonical
<1> SUFFICES ASSUME MInv PROVE TelegramCanonical
  OBVIOUS
<1>1. ASSUME NEW t \in Telegrams PROVE Cardinality(Having(t)) <= 1
  <2>1. \A p, q \in Having(t) : p = q
    BY MembershipAssumption DEF Having, MInv, Identified, IsKnown, People
  <2>2. CASE Having(t) = {}
    BY <2>2, FS_EmptySet
  <2>3. CASE Having(t) # {}
    <3>1. PICK p \in Having(t) : TRUE
      BY <2>3
    <3>2. Having(t) = {p}
      BY <2>1, <3>1
    <3>3. Cardinality({p}) = 1
      BY FS_Singleton, Zenon
    <3>4. QED
      BY <3>2, <3>3
  <2>4. QED
    BY <2>2, <2>3
<1>2. ASSUME NEW x \in Bots \X Telegrams, identity[x] # Nobody
      PROVE  account[identity[x]].telegram = Person(x)
  <2>1. x \in Actors /\ Person(x) \in Telegrams
    BY DEF Actors, Person
  <2>2. QED
    BY <1>2, <2>1 DEF MInv, Identified
<1>3. QED
  BY <1>1, <1>2 DEF TelegramCanonical

\* However people join, leave, are removed and link identities at the two doors,
\* and whichever invites are out: a household has its one owner, its invites and
\* its bindings are of members, a member is reminded in one conversation, beside
\* which only a start of the process can add the environment's bot, and an identity
\* and a Telegram id find the same account.
THEOREM TablesAgree == MembershipSpec => []MembershipSound
<1>1. MInv => MembershipSound
  BY HouseholdsOwned, TelegramsOwned DEF MInv, KeysHeld, MembershipSound
<1>2. QED
  BY <1>1, MembershipInductive, PTL

-----------------------------------------------------------------------------
(* What no step does.                                                       *)

\* Who is writing: the row that is written is of the account with the Telegram id.
LEMMA WriterIsThe ==
  ASSUME MInv, NEW x \in Actors, NEW p, Speaks(x, p)
  PROVE  \A y \in Actors : identity'[y] # identity[y] => identity'[y] = TelegramUser(y)
<1>1. CASE AtBot(x, p)
  BY <1>1 DEF AtBot
<1>2. CASE AtMessaging(x, p)
  BY <1>2 DEF AtMessaging, Resolved, MInv, MembershipTypeOK
<1>3. QED
  BY <1>1, <1>2 DEF Speaks

\* Steps of somebody with an account, except for the confirmation of a link.
LEMMA WritersStep ==
  ASSUME MInv, NEW x \in Actors, NEW p,
         \/ \E on \in BOOLEAN : Remind(x, p, on)
         \/ \E i \in Invites, reusable \in BOOLEAN : HandleInvite(x, p, i, reusable)
         \/ HandleLeave(x, p)
         \/ \E target \in People : HandleRemove(x, p, target)
         \/ \E g \in Groups : HandleBind(x, p, g) \/ BindConversation(x, p, g)
         \/ \E l \in Links : CreateLink(x, p, l)
  PROVE  /\ MemberRowsStay
         /\ \A y \in Actors : identity'[y] # identity[y] => identity'[y] = TelegramUser(y)
         /\ \/ account' = account
            \/ \E q \in People : IsKnown(q) /\ account' = [account EXCEPT ![q].active = FALSE]
<1>1. Speaks(x, p)
  BY WritesAre DEF Speaks, Remind, HandleInvite, HandleLeave, HandleRemove, HandleBind,
     BindConversation, CreateLink
<1>2. MemberRowsStay /\ p \in People /\ IsKnown(p)
  BY <1>1, WriterIs, AddedStay
<1>3. \A y \in Actors : identity'[y] # identity[y] => identity'[y] = TelegramUser(y)
  BY <1>1, WriterIsThe
<1>4. CASE HandleLeave(x, p)
  <2>1. account' = [account EXCEPT ![p].active = FALSE]
    BY <1>4 DEF HandleLeave, LeaveHousehold, Ended
  <2>2. QED
    BY <1>2, <1>3, <2>1
<1>5. ASSUME NEW target \in People, HandleRemove(x, p, target)
      PROVE  IsKnown(target) /\ account' = [account EXCEPT ![target].active = FALSE]
  BY <1>5, MembersAre DEF HandleRemove, RemoveMember, Ended
<1>6. CASE ~HandleLeave(x, p) /\ ~\E target \in People : HandleRemove(x, p, target)
  <2>1. account' = account
    BY <1>6 DEF Remind, HandleInvite, CreateInvite, HandleBind, BindGroup, BindConversation,
                CreateLink
  <2>2. QED
    BY <1>2, <1>3, <2>1
<1>7. QED
  BY <1>2, <1>3, <1>4, <1>5, <1>6

\* Who is a member afterwards.
FewMembers(h) == Members(h)' \subseteq Members(h) \/ Cardinality(Members(h)') <= seats[h] \/ Members(h) = {}

LEMMA EndedAddsNobody ==
  ASSUME MInv, NEW q \in People, IsKnown(q), NEW h \in People,
         \/ account' = [account EXCEPT ![q].active = FALSE]
         \/ \E banned \in BOOLEAN : account' = [account EXCEPT ![q].banned = banned]
  PROVE  Members(h)' \subseteq Members(h)
<1>1. account \in [People -> Account \cup {Nobody}] /\ account[q] \in Account
  BY DEF MInv, MembershipTypeOK, IsKnown
<1>2. \A p \in People \ {q} : account'[p] = account[p]
  BY <1>1
<1>3. account'[q].home = account[q].home /\ (account'[q].active => account[q].active)
  BY <1>1 DEF Account
<1>4. QED
  BY <1>2, <1>3, MembersAre, MembersAreNext DEF IsKnown

LEMMA SeatedHasSeat ==
  ASSUME MInv, Seated, NEW h \in People
  PROVE  FewMembers(h)
<1>1. PICK home \in People, q \in People :
        /\ Cardinality(Members(home)) < seats[home]
        /\ \A g \in People : Members(g)' \subseteq Members(g) \cup IF g = home THEN {q} ELSE {}
  BY DEF Seated, FreeSeat
<1>2. CASE h # home
  BY <1>1, <1>2 DEF FewMembers
<1>3. CASE h = home
  <2>1. Members(h) \subseteq {p \in People : IsKnown(p)}
    BY MembersAre
  <2>2. IsFiniteSet(Members(h))
    BY <2>1, FS_Subset DEF MInv, FewAccounts
  <2>3. /\ IsFiniteSet(Members(h) \cup {q})
        /\ Cardinality(Members(h) \cup {q}) \in Nat /\ Cardinality(Members(h)) \in Nat
        /\ Cardinality(Members(h) \cup {q}) <= Cardinality(Members(h)) + 1
    <3>1. /\ IsFiniteSet(Members(h) \cup {q})
          /\ \/ Cardinality(Members(h) \cup {q}) = Cardinality(Members(h))
             \/ Cardinality(Members(h) \cup {q}) = Cardinality(Members(h)) + 1
      BY <2>2, FS_AddElement
    <3>2. Cardinality(Members(h)) \in Nat /\ Cardinality(Members(h) \cup {q}) \in Nat
      BY <2>2, <3>1, FS_CardinalityType
    <3>3. QED
      BY <3>1, <3>2
  <2>4. Members(h)' \subseteq Members(h) \cup {q}
    BY <1>1, <1>3
  <2>5. /\ Cardinality(Members(h)') \in Nat
        /\ Cardinality(Members(h)') <= Cardinality(Members(h) \cup {q})
    BY <2>3, <2>4, FS_Subset, FS_CardinalityType
  <2>6. seats[h] \in Nat
    BY MembershipAssumption DEF MInv, MembershipTypeOK
  <2>7. QED
    BY <1>1, <1>3, <2>3, <2>5, <2>6 DEF FewMembers
<1>4. QED
  BY <1>2, <1>3

\* A person who founds a household finds none of theirs.
LEMMA FounderIsFirst ==
  ASSUME MInv, NEW x \in Actors, HandleStart(x) \/ StartCommand(x), NEW h \in People
  PROVE  FewMembers(h)
<1>1. /\ ~IsKnown(Person(x)) /\ Person(x) \in People
      /\ account' = [account EXCEPT ![Person(x)] =
            [home |-> Person(x), role |-> "owner", active |-> TRUE, banned |-> FALSE,
             telegram |-> TelegramId(x)]]
  BY PersonIsOne DEF HandleStart, StartCommand, Founded, IsKnown
<1>2. /\ account'[Person(x)].home = Person(x)
      /\ \A p \in People \ {Person(x)} : account'[p] = account[p]
  BY <1>1 DEF MInv, MembershipTypeOK
<1>3. CASE h = Person(x)
  <2>1. Members(h) = {}
    BY <1>1, <1>3, MembersAre DEF MInv, Founders
  <2>2. QED
    BY <2>1 DEF FewMembers
<1>4. CASE h # Person(x)
  <2>1. Members(h)' \subseteq Members(h)
    BY <1>2, <1>4, MembersAre, MembersAreNext DEF IsKnown
  <2>2. QED
    BY <2>1 DEF FewMembers
<1>5. QED
  BY <1>3, <1>4

\* The two sides of a link.
BothSides(x) ==
  \E l \in Links : /\ link[l] # Nobody /\ link'[l] = Nobody
                   /\ link[l].of = identity'[x] /\ link[l].target = x

StepDoors ==
  /\ MemberRowsStay
  /\ account' # account => \A h \in People : FewMembers(h)
  /\ \A x \in Actors : identity'[x] # identity[x] =>
       identity'[x] = Person(x) \/ identity'[x] = TelegramUser(x) \/ BothSides(x)

LEMMA StepOfDoors ==
  ASSUME MInv, [MembershipNext]_membershipVars
  PROVE  StepDoors
<1>1. ASSUME NEW x \in Actors, HandleStart(x) \/ StartCommand(x) PROVE StepDoors
  <2>1. \A h \in People : FewMembers(h)
    BY <1>1, FounderIsFirst
  <2>2. identity' = identity \/ (identity[x] = Nobody /\ identity' = [identity EXCEPT ![x] = Person(x)])
    BY <1>1, ResolvedIs DEF HandleStart, StartCommand
  <2>3. QED
    BY <2>1, <2>2 DEF StepDoors, MemberRowsStay, MInv, MembershipTypeOK
<1>2. ASSUME NEW x \in Actors, NEW i \in Invites, Join(x, i) \/ TryRedeemInvite(x, i)
      PROVE  StepDoors
  <2>1. MemberRowsStay /\ Seated
    BY <1>2, JoinSound, TryRedeemInviteSound
  <2>2. \A h \in People : FewMembers(h)
    BY <2>1, SeatedHasSeat
  <2>3. \/ identity' = identity
        \/ identity' = [identity EXCEPT ![x] = IF @ # Nobody THEN @ ELSE
                          IF Resolved(x) # Nobody THEN Resolved(x) ELSE Person(x)]
    BY <1>2 DEF Join, TryRedeemInvite, RedeemInvite
  <2>4. \A y \in Actors : identity'[y] # identity[y] =>
          identity'[y] = Person(y) \/ identity'[y] = TelegramUser(y)
    BY <2>3 DEF Resolved, MInv, MembershipTypeOK
  <2>5. QED
    BY <2>1, <2>2, <2>4 DEF StepDoors
<1>3. ASSUME NEW x \in Actors, NEW p,
             \/ \E on \in BOOLEAN : Remind(x, p, on)
             \/ \E i \in Invites, reusable \in BOOLEAN : HandleInvite(x, p, i, reusable)
             \/ HandleLeave(x, p)
             \/ \E target \in People : HandleRemove(x, p, target)
             \/ \E g \in Groups : HandleBind(x, p, g) \/ BindConversation(x, p, g)
             \/ \E l \in Links : CreateLink(x, p, l)
      PROVE  StepDoors
  <2>1. /\ MemberRowsStay
        /\ \A y \in Actors : identity'[y] # identity[y] => identity'[y] = TelegramUser(y)
        /\ \/ account' = account
           \/ \E q \in People : IsKnown(q) /\ account' = [account EXCEPT ![q].active = FALSE]
    BY <1>3, WritersStep
  <2>2. account' # account => \A h \in People : FewMembers(h)
    BY <2>1, EndedAddsNobody DEF FewMembers
  <2>3. QED
    BY <2>1, <2>2 DEF StepDoors
<1>4. ASSUME NEW x \in Actors, NEW p, NEW l \in Links, ConfirmLink(x, p, l) PROVE StepDoors
  <2>1. MemberRowsStay /\ \A h \in People : Members(h)' = Members(h)
    BY <1>4, ConfirmLinkSound
  <2>2. /\ link[l] # Nobody /\ link[l].of = p /\ p = Resolved(x)
        /\ link' = [link EXCEPT ![l] = Nobody]
        /\ identity' = [identity EXCEPT ![x] = p, ![link[l].target] = p]
    BY <1>4 DEF ConfirmLink
  <2>3. link'[l] = Nobody
    BY <2>2 DEF MInv, MembershipTypeOK
  <2>4. ASSUME NEW y \in Actors, identity'[y] # identity[y]
        PROVE  identity'[y] = TelegramUser(y) \/ BothSides(y)
    <3>1. identity'[y] = p /\ y \in {x, link[l].target}
      BY <2>2, <2>4 DEF MInv, MembershipTypeOK
    <3>2. CASE y = link[l].target
      BY <2>2, <2>3, <3>1, <3>2 DEF BothSides
    <3>3. CASE y = x
      BY <2>2, <2>4, <3>1, <3>3 DEF Resolved
    <3>4. QED
      BY <3>1, <3>2, <3>3
  <2>5. QED
    BY <2>1, <2>4 DEF StepDoors, FewMembers
<1>5. ASSUME NEW p \in People, NEW banned \in BOOLEAN, SetBanned(p, banned) PROVE StepDoors
  <2>1. IsKnown(p) /\ identity' = identity /\ account' = [account EXCEPT ![p].banned = banned]
    BY <1>5 DEF SetBanned, IsKnown
  <2>2. \A h \in People : Members(h)' \subseteq Members(h)
    BY <2>1, EndedAddsNobody
  <2>3. QED
    BY <2>1, <2>2 DEF StepDoors, MemberRowsStay, FewMembers
<1>6. CASE \/ \E x \in Actors, l \in Links : RedeemLink(x, l)
           \/ \E h \in People, n \in {FreeSeats, FamilySeats} : SetSeats(h, n)
           \/ \E i \in Invites : Expire(i)
           \/ \E l \in Links : LinkExpires(l)
           \/ UNCHANGED membershipVars
  <2>1. UNCHANGED <<account, identity>>
    BY <1>6 DEF RedeemLink, SetSeats, Expire, LinkExpires, membershipVars
  <2>2. QED
    BY <2>1 DEF StepDoors, MemberRowsStay
<1>7. ASSUME NEW x \in Actors, NEW p, Denied(x, p) PROVE StepDoors
  <2>1. MemberRowsStay /\ account' = account
    BY <1>7, DeniedSound, AddedStay DEF Denied
  <2>2. \A y \in Actors : identity'[y] # identity[y] => identity'[y] = TelegramUser(y)
    BY <1>7 DEF Denied, Resolved, MInv, MembershipTypeOK
  <2>3. QED
    BY <2>1, <2>2 DEF StepDoors
<1>8. CASE ImportLegacy
  <2>1. MemberRowsStay /\ account' = account
    BY <1>8, ImportLegacySound, AddedStay DEF ImportLegacy
  <2>2. \A y \in Actors : identity'[y] # identity[y] => identity'[y] = TelegramUser(y)
    BY <1>8 DEF ImportLegacy
  <2>3. QED
    BY <2>1, <2>2 DEF StepDoors
<1>9. QED
  BY <1>1, <1>2, <1>3, <1>4, <1>5, <1>6, <1>7, <1>8 DEF MembershipNext

\* Whoever comes in takes a free seat or is the first, whatever the cap was when
\* the invite was made; an identity stays with its account, and comes to one that
\* it did not open only after both sides said so.
THEOREM DoorsHold == MembershipSpec => DoorsSound
<1>1. MInv /\ [MembershipNext]_membershipVars => StepDoors
  BY StepOfDoors
<1>2. StepDoors =>
        /\ [account' # account => \A h \in People :
              LET after == {p \in People : account'[p] # Nobody /\ account'[p].home = h
                                           /\ account'[p].active}
              IN  (after \subseteq Members(h)) \/ Cardinality(after) <= seats[h] \/ Members(h) = {}
           ]_membershipVars
        /\ [\A x \in Actors : identity[x] # Nobody => identity'[x] = identity[x]]_membershipVars
        /\ [identity' # identity => \A x \in Actors : identity'[x] # identity[x] =>
              \/ identity'[x] = Person(x)
              \/ identity'[x] = TelegramUser(x)
              \/ \E l \in Links : /\ link[l] # Nobody /\ link'[l] = Nobody
                                  /\ link[l].of = identity'[x] /\ link[l].target = x]_membershipVars
  BY DEF StepDoors, MemberRowsStay, FewMembers, BothSides, Members
<1>3. QED
  BY <1>1, <1>2, MembershipInductive, PTL
     DEF MembershipSpec, DoorsSound, SeatsRespected, IdentityStable, LinkedByBoth

-----------------------------------------------------------------------------
(* Digests.                                                                *)
(* Who has one destination that is on and has had nothing happen today     *)
(* that may repeat a digest (Calm) has at most one sender at work, and     *)
(* after his digest none that could begin.                                 *)

\* What holds of a member however the day went: a job is for the member's hour and of
\* a member with a chat, a date that is recorded is not ahead of the clock and was
\* served, and the relay does not wait with a digest.
Steady(u) ==
  /\ job[u] \in {eater[u].hour, Never} /\ (~eater[u].chat => job[u] = Never)
  /\ eater[u].last # Never => eater[u].last <= clock.date
  /\ eater[u].last = Today => digests[u] > 0 \/ u \in silent
  /\ \A s \in Senders : At(u, s, "sent") => digests[u] > 0
  /\ ~NoAttempt(u, "relay") => At(u, "relay", "composing")

\* A digest that went out leaves nothing that could send another: it is recorded or
\* about to be, no attempt is behind its sending, and the hour is past for the job.
Served(u) ==
  /\ u \in digestRun \/ (u \notin ringing /\ clock.hour >= eater[u].hour)
  /\ eater[u].last = Today \/ \E s \in {"cron", "catchup"} : At(u, s, "sent")
  /\ \A s \in Senders : ~NoAttempt(u, s) => sending[u][s].at = "sent"

\* The relay's destination is there and that of the environment's bot is not on.
Relayed(u) == eater[u].to["legacy"] # "on" /\ eater[u].to["other"] # "none"

\* A day on which nothing happened that may repeat a digest, of a member with one
\* destination that is on: one sender at a time, and those of the environment's bot
\* and the relay exclude each other.
Orderly(u) ==
  /\ u \in ringing => eater[u].hour = clock.hour
  /\ ~NoAttempt(u, "relay") => Relayed(u)
  /\ u \in digestRun => Relayed(u) \/ u \notin ringing
  /\ u \in digestRun \/ ~NoAttempt(u, "relay") => clock.hour >= eater[u].hour
  /\ \A s \in {"cron", "catchup"} : ~NoAttempt(u, s) =>
       eater[u].to["other"] # "on" /\ clock.hour >= eater[u].hour /\ u \notin ringing
  /\ \A s, t \in Senders : ~NoAttempt(u, s) /\ ~NoAttempt(u, t) => s = t
  /\ digests[u] <= 1
  /\ digests[u] = 1 => Served(u)

Calm(u) == u \notin excuse /\ ~Doubled(u)

DigestInv ==
  DigestTypeOK /\ \A u \in Eaters : Steady(u) /\ (Calm(u) => Orderly(u))

Member == [active : BOOLEAN, chat : BOOLEAN, linked : BOOLEAN, hour : DayHours,
           last : LastDates, to : [Sources -> {"none", "off", "on"}]]

\* A member is no calmer after a step that leaves the destinations.
LEMMA CalmBefore ==
  ASSUME NEW u, Calm(u)', excuse \subseteq excuse', eater'[u].to = eater[u].to
  PROVE  Calm(u) /\ u \notin excuse'
BY DEF Calm, Doubled

LEMMA DigestTypes ==
  ASSUME DigestTypeOK
  PROVE  /\ clock.date \in Nat /\ clock.hour \in Nat /\ clock.date \in Dates
         /\ clock.hour \in DayHours
         /\ \A u \in Eaters :
              /\ eater[u] \in Member /\ eater[u].hour \in Nat
              /\ sending[u] \in [Senders -> Attempt \cup {Never}]
              /\ digests[u] \in 0..2
              /\ \A s \in Senders : ~NoAttempt(u, s) => sending[u][s] \in Attempt
BY DigestAssumption DEF DigestTypeOK, DayHours, Dates, Member, NoAttempt

\* What concerns one member only.
Same(u) ==
  /\ eater'[u] = eater[u] /\ job'[u] = job[u] /\ sending'[u] = sending[u]
  /\ digests'[u] = digests[u] /\ (u \in ringing' <=> u \in ringing)
  /\ (u \in digestRun' <=> u \in digestRun) /\ (u \in silent' <=> u \in silent)
  /\ (u \in excuse' <=> u \in excuse)

LEMMA OthersStay ==
  ASSUME NEW u, Same(u), UNCHANGED clock, Steady(u), Calm(u) => Orderly(u)
  PROVE  Steady(u)' /\ (Calm(u)' => Orderly(u)')
<1>1. \A s \in Senders : NoAttempt(u, s)' <=> NoAttempt(u, s)
  BY DEF Same, NoAttempt
<1>2. \A s \in Senders : \A at : At(u, s, at)' <=> At(u, s, at)
  BY <1>1 DEF Same, At
<1>3. Steady(u)'
  BY <1>1, <1>2 DEF Same, Steady, Today, Senders
<1>4. Served(u) => Served(u)'
  BY <1>1, <1>2 DEF Same, Served, Today, Senders
<1>5. Calm(u)' => Orderly(u)'
  BY <1>1, <1>4 DEF Same, Orderly, Relayed, Calm, Doubled, Senders
<1>6. QED
  BY <1>3, <1>5

LEMMA OneMember ==
  ASSUME DigestInv, DigestTypeOK', UNCHANGED clock, NEW u \in Eaters,
         \A v \in Eaters \ {u} : Same(v), Steady(u)', Calm(u)' => Orderly(u)'
  PROVE  DigestInv'
<1>1. ASSUME NEW v \in Eaters \ {u} PROVE Steady(v)' /\ (Calm(v)' => Orderly(v)')
  BY <1>1, OthersStay DEF DigestInv
<1>2. QED
  BY <1>1 DEF DigestInv

\* Nothing is sent or written: a job is skipped, a list read, a reason noted.
LEMMA QuietStep ==
  ASSUME DigestInv, UNCHANGED <<clock, eater, job, sending, digests, digestRun, silent>>,
         ringing' \subseteq ringing, excuse \subseteq excuse', excuse' \subseteq Eaters,
         line' \in [catchup : SUBSET (Eaters \X LastDates \X DayHours), relay : SUBSET Eaters],
         verified' \in BOOLEAN
  PROVE  DigestInv' /\ OnlyMembersAreTried
<1>1. DigestTypeOK'
  BY DEF DigestInv, DigestTypeOK
<1>2. ASSUME NEW u \in Eaters PROVE Steady(u)' /\ (Calm(u)' => Orderly(u)')
  <2>1. Steady(u) /\ (Calm(u)' => Orderly(u))
    BY CalmBefore DEF DigestInv
  <2>2. Steady(u)'
    BY <2>1 DEF Steady, At, NoAttempt, Today
  <2>3. Served(u) => Served(u)'
    BY DEF Served, At, NoAttempt, Today
  <2>4. Calm(u)' => Orderly(u)'
    BY <2>1, <2>3 DEF Orderly, Relayed, NoAttempt
  <2>5. QED
    BY <2>2, <2>4
<1>3. QED
  BY <1>1, <1>2 DEF DigestInv, OnlyMembersAreTried

\* One attempt changes.
LEMMA OneSlot ==
  ASSUME DigestTypeOK, NEW u \in Eaters, NEW s \in Senders, NEW attempt \in Attempt \cup {Never},
         sending' = [sending EXCEPT ![u][s] = attempt]
  PROVE  /\ sending' \in [Eaters -> [Senders -> Attempt \cup {Never}]]
         /\ sending'[u][s] = attempt
         /\ \A t \in Senders \ {s} : sending'[u][t] = sending[u][t]
         /\ \A v \in Eaters \ {u} : sending'[v] = sending[v]
BY DEF DigestTypeOK

\* The date is recorded.
LEMMA LastSet ==
  ASSUME DigestTypeOK, NEW u \in Eaters, eater' = [eater EXCEPT ![u].last = Today]
  PROVE  /\ eater' \in [Eaters -> Member]
         /\ eater'[u].last = Today /\ eater'[u].chat = eater[u].chat
         /\ eater'[u].hour = eater[u].hour /\ eater'[u].to = eater[u].to
         /\ \A v \in Eaters \ {u} : eater'[v] = eater[v]
<1>1. Today \in Dates /\ eater \in [Eaters -> Member]
  BY DigestTypes DEF Today, DigestTypeOK, Member
<1>2. [eater[u] EXCEPT !.last = Today] \in Member
  BY <1>1 DEF LastDates, Member
<1>3. eater' = [eater EXCEPT ![u] = [eater[u] EXCEPT !.last = Today]]
  OBVIOUS
<1>4. QED
  BY <1>1, <1>2, <1>3 DEF Member

LEMMA AttemptKeeps ==
  ASSUME NEW u, NEW s, NEW try, Attempts(u, s, try), DigestTypeOK, u \in Eaters
  PROVE  eater'[u].to = eater[u].to
<1>1. eater' = [eater EXCEPT ![u].last = Today] => eater'[u].to = eater[u].to
  BY LastSet
<1>2. QED
  BY <1>1 DEF Attempts

\* An attempt of the environment's bot begins, is given up or has nothing to say.
LEMMA Tried ==
  ASSUME DigestInv, NEW u \in Eaters, NEW s \in {"cron", "catchup"}, NEW try \in 1..2,
         Attempts(u, s, try), UNCHANGED <<clock, job, digests, digestRun>>,
         line' \in [catchup : SUBSET (Eaters \X LastDates \X DayHours), relay : SUBSET Eaters],
         verified' \in BOOLEAN,
         ringing' \in {ringing, ringing \ {u}}, excuse' \in {excuse, excuse \cup {u}},
         Calm(u)' =>
           /\ ~At(u, s, "sent")
           /\ MayReceive(u) => /\ digests[u] = 0 /\ clock.hour >= eater[u].hour
                               /\ u \notin ringing'
                               /\ \A t \in Senders : ~NoAttempt(u, t) => t = s
  PROVE  DigestInv' /\ OnlyMembersAreTried
<1> DEFINE begun == [at |-> "composing", try |-> try]
<1>1. /\ DigestTypeOK /\ Steady(u) /\ (Calm(u) => Orderly(u)) /\ s \in Senders
      /\ Never \notin Attempt /\ begun \in Attempt
  BY DigestAssumption DEF DigestInv, Senders, Attempt
<1>2. /\ ringing' \subseteq ringing /\ excuse \subseteq excuse'
      /\ \A v \in Eaters \ {u} : /\ v \in ringing' <=> v \in ringing
                                 /\ v \in excuse' <=> v \in excuse
  OBVIOUS
<1>3. Calm(u) /\ MayReceive(u) => eater[u].to["other"] # "on" /\ ~Relayed(u)
  BY DEF MayReceive, Calm, Doubled, Relayed, Sources
<1>4. ASSUME NEW attempt \in {begun, Never}, sending' = [sending EXCEPT ![u][s] = attempt],
             UNCHANGED <<eater, silent>>, attempt = begun => MayReceive(u)
      PROVE  DigestInv' /\ OnlyMembersAreTried
  <2>1. /\ sending' \in [Eaters -> [Senders -> Attempt \cup {Never}]] /\ sending'[u][s] = attempt
        /\ \A t \in Senders \ {s} : sending'[u][t] = sending[u][t]
        /\ \A v \in Eaters \ {u} : sending'[v] = sending[v]
    BY <1>1, <1>4, OneSlot
  <2>2. DigestTypeOK'
    BY <1>1, <1>4, <2>1 DEF DigestTypeOK
  <2>3. \A v \in Eaters \ {u} : Same(v)
    BY <1>2, <1>4, <2>1 DEF Same
  <2>4. /\ \A t \in Senders \ {s} : NoAttempt(u, t)' <=> NoAttempt(u, t)
        /\ \A t \in Senders \ {s} : At(u, t, "sent")' <=> At(u, t, "sent")
        /\ ~At(u, s, "sent")' /\ (NoAttempt(u, s)' <=> attempt = Never)
        /\ sending'[u]["relay"] = sending[u]["relay"]
    BY <1>1, <2>1 DEF NoAttempt, At, Senders
  <2> HIDE DEF begun
  <2>5. Steady(u)'
    BY <1>1, <1>4, <2>4 DEF Steady, Today, NoAttempt, At
  <2>6. ASSUME Calm(u)' PROVE Orderly(u)'
    <3>1. Calm(u) /\ Orderly(u) /\ ~At(u, s, "sent")
      BY <1>1, <1>2, <1>4, <2>6, CalmBefore
    <3>2. CASE attempt = Never
      <4>1. digests[u] = 1 => Served(u)'
        <5>1. ASSUME Served(u) PROVE Served(u)'
          BY <1>2, <1>4, <2>1, <2>4, <3>1, <3>2, <5>1 DEF Served, Today, Senders
        <5>2. QED
          BY <3>1, <5>1 DEF Orderly
      <4>2. QED
        BY <1>2, <1>4, <2>4, <3>1, <3>2, <4>1 DEF Orderly, Relayed, Senders
    <3>3. CASE attempt = begun
      <4>1. /\ digests[u] = 0 /\ clock.hour >= eater[u].hour /\ u \notin ringing'
            /\ \A t \in Senders : ~NoAttempt(u, t) => t = s
            /\ eater[u].to["other"] # "on"
        BY <1>3, <1>4, <2>6, <3>1, <3>3
      <4>3. \A t \in Senders : ~NoAttempt(u, t)' => t = s
        BY <2>4, <4>1
      <4>4. NoAttempt(u, "relay")'
        BY <4>3 DEF Senders
      <4>5. QED
        BY <1>2, <1>4, <3>1, <4>1, <4>3, <4>4 DEF Orderly, Relayed, Senders
    <3>4. QED
      BY <3>2, <3>3
  <2>7. OnlyMembersAreTried
    <3>1. MayReceive(u) => eater[u].active
      BY DEF MayReceive
    <3>2. QED
      BY <1>4, <2>1, <3>1 DEF OnlyMembersAreTried
  <2>8. QED
    BY <2>2, <2>3, <2>5, <2>6, <2>7, OneMember
<1>5. ASSUME MayReceive(u), sending' = [sending EXCEPT ![u][s] = Never],
             eater' = [eater EXCEPT ![u].last = Today], silent' = silent \cup {u}
      PROVE  DigestInv' /\ OnlyMembersAreTried
  <2>1. /\ sending' \in [Eaters -> [Senders -> Attempt \cup {Never}]] /\ sending'[u][s] = Never
        /\ \A t \in Senders \ {s} : sending'[u][t] = sending[u][t]
        /\ \A v \in Eaters \ {u} : sending'[v] = sending[v]
    BY <1>1, <1>5, OneSlot
  <2>2. /\ eater' \in [Eaters -> Member]
        /\ eater'[u].last = Today /\ eater'[u].chat = eater[u].chat
        /\ eater'[u].hour = eater[u].hour /\ eater'[u].to = eater[u].to
        /\ \A v \in Eaters \ {u} : eater'[v] = eater[v]
    BY <1>1, <1>5, LastSet
  <2>3. DigestTypeOK'
    <3>1. /\ clock' \in [date : Dates, hour : DayHours] /\ job' \in [Eaters -> Hour]
          /\ ringing' \subseteq Eaters /\ digests' \in [Eaters -> 0..2]
      BY <1>1, <1>2 DEF DigestTypeOK
    <3>2. digestRun' \cup silent' \cup excuse' \subseteq Eaters
      BY <1>1, <1>5 DEF DigestTypeOK
    <3>3. QED
      BY <2>1, <2>2, <3>1, <3>2 DEF DigestTypeOK, Member
  <2>4. \A v \in Eaters \ {u} : Same(v)
    BY <1>2, <1>5, <2>1, <2>2 DEF Same
  <2>5. /\ \A t \in Senders \ {s} : NoAttempt(u, t)' <=> NoAttempt(u, t)
        /\ \A t \in Senders \ {s} : At(u, t, "sent")' <=> At(u, t, "sent")
        /\ ~At(u, s, "sent")' /\ NoAttempt(u, s)'
        /\ sending'[u]["relay"] = sending[u]["relay"]
    BY <1>1, <2>1 DEF NoAttempt, At, Senders
  <2>6. Steady(u)'
    <3>1. eater'[u].last <= clock'.date
      BY <1>1, <2>2, DigestTypes DEF Today
    <3>2. u \in silent'
      BY <1>5
    <3>3. ~NoAttempt(u, "relay")' => At(u, "relay", "composing")'
      BY <1>1, <2>5 DEF Steady, NoAttempt, At
    <3>4. QED
      BY <1>1, <2>2, <2>5, <3>1, <3>2, <3>3 DEF Steady
  <2>7. ASSUME Calm(u)' PROVE Orderly(u)'
    <3>1. Orderly(u) /\ digests[u] = 0
      BY <1>1, <1>2, <1>5, <2>2, <2>7, CalmBefore
    <3>2. QED
      BY <1>2, <2>2, <2>5, <3>1 DEF Orderly, Relayed, Senders
  <2>8. OnlyMembersAreTried
    BY <2>1 DEF OnlyMembersAreTried
  <2>9. QED
    BY <2>3, <2>4, <2>6, <2>7, <2>8, OneMember
<1>6. QED
  <2>1. \/ /\ sending' = [sending EXCEPT ![u][s] = Never] /\ UNCHANGED <<eater, silent>>
        \/ /\ MayReceive(u) /\ sending' = [sending EXCEPT ![u][s] = begun]
           /\ UNCHANGED <<eater, silent>>
        \/ /\ MayReceive(u) /\ sending' = [sending EXCEPT ![u][s] = Never]
           /\ eater' = [eater EXCEPT ![u].last = Today] /\ silent' = silent \cup {u}
    BY DEF Attempts
  <2>2. Never # begun
    BY <1>1
  <2>3. QED
    BY <1>4, <1>5, <2>1, <2>2

LEMMA JobSteps ==
  ASSUME DigestInv, NEW u \in Eaters, JobRuns(u) \/ JobMisfires(u)
  PROVE  DigestInv' /\ OnlyMembersAreTried
<1>1. /\ DigestTypeOK /\ Steady(u) /\ (Calm(u) => Orderly(u)) /\ u \in ringing
      /\ excuse \subseteq Eaters
  BY DEF DigestInv, JobRuns, JobMisfires, DigestTypeOK
<1>2. CASE JobRuns(u) /\ verified
  <2>1. /\ ringing' = ringing \ {u} /\ Attempts(u, "cron", 1)
        /\ excuse' = (IF ~NoAttempt(u, "catchup") THEN excuse \cup {u} ELSE excuse)
        /\ UNCHANGED <<clock, job, line, verified, digests, digestRun>>
    BY <1>2 DEF JobRuns, Excuse
  <2>2. ASSUME Calm(u)', Calm(u)
        PROVE  /\ ~At(u, "cron", "sent")
               /\ MayReceive(u) => /\ digests[u] = 0 /\ clock.hour >= eater[u].hour
                                   /\ u \notin ringing'
                                   /\ \A t \in Senders : ~NoAttempt(u, t) => t = "cron"
    <3>1. Orderly(u) /\ NoAttempt(u, "catchup")
      BY <1>1, <2>1, <2>2 DEF Calm
    <3>2. NoAttempt(u, "cron") /\ clock.hour = eater[u].hour
      BY <1>1, <3>1 DEF Orderly
    <3>3. ASSUME MayReceive(u) PROVE u \notin digestRun /\ NoAttempt(u, "relay")
      BY <1>1, <2>2, <3>1, <3>3 DEF Orderly, Relayed, MayReceive, Sources
    <3>4. ASSUME MayReceive(u) PROVE digests[u] = 0
      BY <1>1, <3>1, <3>3, <3>4, DigestTypes DEF Orderly, Served
    <3>5. clock.hour >= eater[u].hour
      BY <1>1, <3>2, DigestTypes
    <3>6. QED
      BY <2>1, <3>1, <3>2, <3>3, <3>4, <3>5 DEF At, Senders
  <2>3. /\ line' \in [catchup : SUBSET (Eaters \X LastDates \X DayHours), relay : SUBSET Eaters]
        /\ verified' \in BOOLEAN
    BY <1>1, <2>1 DEF DigestTypeOK
  <2>4. Calm(u)' => Calm(u)
    BY <1>1, <2>1, AttemptKeeps DEF Calm, Doubled
  <2>5. QED
    BY <2>1, <2>2, <2>3, <2>4, Tried
<1>3. CASE ~(JobRuns(u) /\ verified)
  <2>1. /\ UNCHANGED <<clock, eater, job, line, sending, verified, digests, digestRun, silent>>
        /\ ringing' = ringing \ {u} /\ excuse' \in {excuse, excuse \cup {u}}
    BY <1>3 DEF JobRuns, JobMisfires, Excuse, history
  <2>2. QED
    BY <1>1, <2>1, QuietStep DEF DigestTypeOK
<1>4. QED
  BY <1>2, <1>3

LEMMA CatchUpSteps ==
  ASSUME DigestInv, NEW u \in Eaters, NEW seen \in LastDates, NEW hour \in DayHours,
         CatchUp(u, seen, hour)
  PROVE  DigestInv' /\ OnlyMembersAreTried
<1>1. /\ DigestTypeOK /\ Steady(u) /\ (Calm(u) => Orderly(u))
      /\ excuse \subseteq Eaters /\ ~Busy("catchup")
  BY DEF DigestInv, CatchUp, DigestTypeOK
<1>2. /\ line' \in [catchup : SUBSET (Eaters \X LastDates \X DayHours), relay : SUBSET Eaters]
      /\ verified' \in BOOLEAN
  BY <1>1 DEF DigestTypeOK, CatchUp
<1>3. CASE clock.hour >= hour /\ seen # Today /\ verified
  <2>1. /\ Attempts(u, "catchup", 1) /\ UNCHANGED <<clock, job, ringing, digests, digestRun>>
        /\ excuse' = (IF \/ clock.hour = hour \/ hour # eater[u].hour \/ seen # eater[u].last
                         \/ ~NoAttempt(u, "cron") THEN excuse \cup {u} ELSE excuse)
    BY <1>3 DEF CatchUp, Excuse, scheduling
  <2>2. ASSUME Calm(u)', Calm(u)
        PROVE  /\ ~At(u, "catchup", "sent")
               /\ MayReceive(u) => /\ digests[u] = 0 /\ clock.hour >= eater[u].hour
                                   /\ u \notin ringing'
                                   /\ \A t \in Senders : ~NoAttempt(u, t) => t = "catchup"
    <3>1. /\ Orderly(u) /\ NoAttempt(u, "cron") /\ clock.hour # hour
          /\ hour = eater[u].hour /\ seen = eater[u].last
      BY <1>1, <2>1, <2>2 DEF Calm
    <3>2. NoAttempt(u, "catchup")
      BY <1>1 DEF Busy
    <3>3. ASSUME MayReceive(u) PROVE NoAttempt(u, "relay")
      BY <3>1, <3>3 DEF Orderly, Relayed, MayReceive, Sources
    <3>4. ~Served(u)
      BY <1>3, <3>1, <3>2 DEF Served, At
    <3>5. digests[u] = 0
      BY <1>1, <3>1, <3>4, DigestTypes DEF Orderly
    <3>6. u \notin ringing
      BY <3>1 DEF Orderly
    <3>7. QED
      BY <1>3, <2>1, <3>1, <3>2, <3>3, <3>5, <3>6 DEF At, Senders
  <2>3. Calm(u)' => Calm(u)
    BY <1>1, <2>1, AttemptKeeps DEF Calm, Doubled
  <2>4. QED
    BY <1>2, <2>1, <2>2, <2>3, Tried
<1>4. CASE ~(clock.hour >= hour /\ seen # Today /\ verified)
  <2>1. UNCHANGED <<clock, eater, job, ringing, sending, digests, digestRun, silent, excuse>>
    BY <1>4 DEF CatchUp, scheduling
  <2>2. QED
    BY <1>1, <1>2, <2>1, QuietStep
<1>5. QED
  BY <1>3, <1>4

LEMMA RetrySteps ==
  ASSUME DigestInv, NEW u \in Eaters, NEW s \in Senders, Retry(u, s)
  PROVE  DigestInv' /\ OnlyMembersAreTried
<1>1. /\ DigestTypeOK /\ Steady(u) /\ (Calm(u) => Orderly(u))
      /\ At(u, s, "waiting") /\ Attempts(u, s, 2)
      /\ UNCHANGED <<clock, job, ringing, line, verified, digests, digestRun, excuse>>
  BY DEF DigestInv, Retry, scheduling
<1>2. s \in {"cron", "catchup"}
  BY <1>1 DEF Steady, At, Senders
<1>3. ASSUME Calm(u)'
      PROVE  /\ digests[u] = 0 /\ clock.hour >= eater[u].hour /\ u \notin ringing
             /\ \A t \in Senders : ~NoAttempt(u, t) => t = s
  <2>1. Orderly(u) /\ ~NoAttempt(u, s) /\ sending[u][s].at # "sent"
    BY <1>1, <1>3, AttemptKeeps, CalmBefore DEF At
  <2>2. digests[u] = 0
    BY <1>1, <2>1, DigestTypes DEF Orderly, Served
  <2>3. QED
    BY <1>2, <2>1, <2>2 DEF Orderly
<1>4. /\ line' \in [catchup : SUBSET (Eaters \X LastDates \X DayHours), relay : SUBSET Eaters]
      /\ verified' \in BOOLEAN /\ ~At(u, s, "sent")
  BY <1>1 DEF DigestTypeOK, At
<1>5. QED
  BY <1>1, <1>2, <1>3, <1>4, Tried

\* A slot that is emptied or goes on, and what else it changes.
LEMMA SlotFacts ==
  ASSUME DigestInv, NEW u \in Eaters, NEW s \in Senders, NEW attempt \in Attempt \cup {Never},
         sending' = [sending EXCEPT ![u][s] = attempt]
  PROVE  /\ sending' \in [Eaters -> [Senders -> Attempt \cup {Never}]] /\ sending'[u][s] = attempt
         /\ \A t \in Senders \ {s} : /\ sending'[u][t] = sending[u][t]
                                     /\ NoAttempt(u, t)' <=> NoAttempt(u, t)
                                     /\ \A at : At(u, t, at)' <=> At(u, t, at)
         /\ NoAttempt(u, s)' <=> attempt = Never
         /\ \A at : At(u, s, at)' <=> attempt # Never /\ attempt.at = at
         /\ \A v \in Eaters \ {u} : sending'[v] = sending[v]
<1>1. /\ sending' \in [Eaters -> [Senders -> Attempt \cup {Never}]] /\ sending'[u][s] = attempt
      /\ \A t \in Senders \ {s} : sending'[u][t] = sending[u][t]
      /\ \A v \in Eaters \ {u} : sending'[v] = sending[v]
  BY OneSlot DEF DigestInv
<1>2. QED
  BY <1>1 DEF NoAttempt, At

LEMMA SendSteps ==
  ASSUME DigestInv, NEW u \in Eaters, NEW s \in Senders, Send(u, s)
  PROVE  DigestInv' /\ OnlyMembersAreTried
<1> DEFINE attempt == [sending[u][s] EXCEPT !.at = "sent"]
<1>1. /\ DigestTypeOK /\ Steady(u) /\ (Calm(u) => Orderly(u)) /\ s # "relay"
      /\ At(u, s, "composing") /\ digests[u] \in 0..2
      /\ digests' = [digests EXCEPT ![u] = IF digests[u] = 2 THEN 2 ELSE digests[u] + 1]
      /\ sending' = [sending EXCEPT ![u][s] = attempt]
      /\ UNCHANGED <<clock, job, ringing, eater, line, verified, digestRun, silent, excuse>>
  BY DigestTypes DEF DigestInv, Send, GoesOut, scheduling
<1>2. attempt \in Attempt /\ attempt # Never /\ attempt.at = "sent"
  BY <1>1, DigestTypes, DigestAssumption DEF At, Attempt
<1> HIDE DEF attempt
<1>3. /\ sending' \in [Eaters -> [Senders -> Attempt \cup {Never}]] /\ sending'[u][s] = attempt
      /\ \A t \in Senders \ {s} : /\ sending'[u][t] = sending[u][t]
                                  /\ NoAttempt(u, t)' <=> NoAttempt(u, t)
                                  /\ \A at : At(u, t, at)' <=> At(u, t, at)
      /\ ~NoAttempt(u, s)' /\ At(u, s, "sent")'
      /\ \A v \in Eaters \ {u} : sending'[v] = sending[v]
  <2>1. sending'[u][s] = attempt
    BY <1>1, <1>2, OneSlot
  <2>2. ~NoAttempt(u, s)' /\ At(u, s, "sent")'
    BY <1>2, <2>1 DEF NoAttempt, At
  <2>3. QED
    BY <1>1, <1>2, <2>2, SlotFacts
<1>4. /\ digests' \in [Eaters -> 0..2] /\ digests'[u] > 0 /\ (digests[u] = 0 => digests'[u] = 1)
      /\ \A v \in Eaters \ {u} : digests'[v] = digests[v]
  BY <1>1 DEF DigestTypeOK
<1>5. DigestTypeOK'
  BY <1>1, <1>3, <1>4 DEF DigestTypeOK
<1>6. \A v \in Eaters \ {u} : Same(v)
  BY <1>1, <1>3, <1>4 DEF Same
<1>7. Steady(u)'
  BY <1>1, <1>3, <1>4 DEF Steady, Today, Senders
<1>8. ASSUME Calm(u)' PROVE Orderly(u)'
  <2>1. Orderly(u) /\ ~NoAttempt(u, s) /\ s \in {"cron", "catchup"} /\ sending[u][s].at # "sent"
    BY <1>1, <1>8, CalmBefore DEF At, Senders
  <2>2. digests[u] = 0
    BY <1>1, <2>1 DEF Orderly, Served
  <2>3. /\ \A t \in Senders : ~NoAttempt(u, t) => t = s
        /\ clock.hour >= eater[u].hour /\ u \notin ringing /\ eater[u].to["other"] # "on"
    BY <2>1 DEF Orderly
  <2>4. \A t \in Senders : ~NoAttempt(u, t)' => t = s
    BY <1>3, <2>3
  <2>5. sending'[u][s].at = "sent" /\ At(u, s, "sent")'
    BY <1>2, <1>3
  <2>6. Served(u)'
    BY <1>1, <2>1, <2>3, <2>4, <2>5 DEF Served
  <2>7. NoAttempt(u, "relay")'
    BY <2>1, <2>4 DEF Senders
  <2>8. /\ u \in ringing' => eater'[u].hour = clock'.hour
        /\ u \in digestRun' => /\ Relayed(u)' \/ u \notin ringing'
                               /\ clock'.hour >= eater'[u].hour
    BY <1>1, <2>1 DEF Orderly, Relayed
  <2>9. QED
    BY <1>1, <1>4, <2>2, <2>3, <2>4, <2>6, <2>7, <2>8 DEF Orderly
<1>9. OnlyMembersAreTried
  BY <1>1, <1>2, <1>3 DEF OnlyMembersAreTried
<1>10. QED
  BY <1>1, <1>5, <1>6, <1>7, <1>8, <1>9, OneMember

LEMMA RecordSteps ==
  ASSUME DigestInv, NEW u \in Eaters, NEW s \in Senders, DateRecorded(u, s)
  PROVE  DigestInv' /\ OnlyMembersAreTried
<1>1. /\ DigestTypeOK /\ Steady(u) /\ (Calm(u) => Orderly(u)) /\ At(u, s, "sent")
      /\ eater' = [eater EXCEPT ![u].last = Today]
      /\ sending' = [sending EXCEPT ![u][s] = Never]
      /\ UNCHANGED <<clock, job, ringing, line, verified, digests, digestRun, silent, excuse>>
  BY DEF DigestInv, DateRecorded, scheduling, history
<1>2. /\ sending' \in [Eaters -> [Senders -> Attempt \cup {Never}]] /\ sending'[u][s] = Never
      /\ \A t \in Senders \ {s} : /\ sending'[u][t] = sending[u][t]
                                  /\ NoAttempt(u, t)' <=> NoAttempt(u, t)
                                  /\ \A at : At(u, t, at)' <=> At(u, t, at)
      /\ NoAttempt(u, s)' /\ \A at : ~At(u, s, at)'
      /\ \A v \in Eaters \ {u} : sending'[v] = sending[v]
  BY <1>1, SlotFacts
<1>3. /\ eater' \in [Eaters -> Member]
      /\ eater'[u].last = Today /\ eater'[u].chat = eater[u].chat
      /\ eater'[u].hour = eater[u].hour /\ eater'[u].to = eater[u].to
      /\ \A v \in Eaters \ {u} : eater'[v] = eater[v]
  BY <1>1, LastSet
<1>4. DigestTypeOK'
  BY <1>1, <1>2, <1>3 DEF DigestTypeOK, Member
<1>5. \A v \in Eaters \ {u} : Same(v)
  BY <1>1, <1>2, <1>3 DEF Same
<1>6. Steady(u)'
  <2>1. eater'[u].last <= clock'.date /\ digests'[u] > 0
    BY <1>1, <1>3, DigestTypes DEF Today, Steady
  <2>2. \A t \in Senders : At(u, t, "sent")' => digests'[u] > 0
    BY <2>1
  <2>3. ~NoAttempt(u, "relay")' => At(u, "relay", "composing")'
    BY <1>1, <1>2 DEF Steady, Senders
  <2>4. QED
    BY <1>1, <1>3, <2>1, <2>2, <2>3 DEF Steady
<1>7. ASSUME Calm(u)' PROVE Orderly(u)'
  <2>1. Orderly(u) /\ eater'[u].last = Today'
    BY <1>1, <1>3, <1>7, CalmBefore DEF Today
  <2>2. Served(u) => Served(u)'
    BY <1>1, <1>2, <1>3, <2>1 DEF Served
  <2>3. \A t \in Senders : ~NoAttempt(u, t)' => ~NoAttempt(u, t)
    BY <1>2
  <2>4. QED
    BY <1>1, <1>3, <2>1, <2>2, <2>3 DEF Orderly, Relayed, Senders
<1>8. OnlyMembersAreTried
  BY <1>2 DEF OnlyMembersAreTried
<1>9. QED
  BY <1>1, <1>4, <1>5, <1>6, <1>7, <1>8, OneMember

LEMMA FailSteps ==
  ASSUME DigestInv, NEW u \in Eaters, NEW s \in Senders, SendFails(u, s)
  PROVE  DigestInv' /\ OnlyMembersAreTried
<1> DEFINE attempt == IF sending[u][s].try = 1 THEN [sending[u][s] EXCEPT !.at = "waiting"]
                      ELSE Never
<1>1. /\ DigestTypeOK /\ Steady(u) /\ (Calm(u) => Orderly(u)) /\ s # "relay"
      /\ At(u, s, "composing") \/ (At(u, s, "sent") /\ excuse' = excuse \cup {u})
      /\ excuse' \in {excuse, excuse \cup {u}}
      /\ sending' = [sending EXCEPT ![u][s] = attempt]
      /\ UNCHANGED <<clock, job, ringing, eater, line, verified, digests, digestRun, silent>>
  BY DEF DigestInv, SendFails, Excuse, scheduling
<1>2. attempt \in Attempt \cup {Never} /\ (attempt # Never => attempt.at = "waiting")
  BY <1>1, DigestTypes, DigestAssumption DEF At, Attempt
<1> HIDE DEF attempt
<1>3. /\ sending' \in [Eaters -> [Senders -> Attempt \cup {Never}]] /\ sending'[u][s] = attempt
      /\ \A t \in Senders \ {s} : /\ sending'[u][t] = sending[u][t]
                                  /\ NoAttempt(u, t)' <=> NoAttempt(u, t)
                                  /\ \A at : At(u, t, at)' <=> At(u, t, at)
      /\ ~At(u, s, "sent")'
      /\ \A v \in Eaters \ {u} : sending'[v] = sending[v]
  <2>1. sending'[u][s] = attempt
    BY <1>1, <1>2, OneSlot
  <2>2. ~At(u, s, "sent")'
    BY <1>2, <2>1 DEF NoAttempt, At
  <2>3. QED
    BY <1>1, <1>2, <2>2, SlotFacts
<1>4. DigestTypeOK'
  BY <1>1, <1>3 DEF DigestTypeOK
<1>5. \A v \in Eaters \ {u} : Same(v)
  BY <1>1, <1>3 DEF Same
<1>6. Steady(u)'
  BY <1>1, <1>3 DEF Steady, Today, Senders
<1>7. ASSUME Calm(u)' PROVE Orderly(u)'
  <2>1. /\ Orderly(u) /\ ~NoAttempt(u, s) /\ s \in {"cron", "catchup"}
        /\ sending[u][s].at # "sent"
    BY <1>1, <1>7, CalmBefore DEF At, Senders, Calm
  <2>2. digests[u] = 0
    BY <1>1, <2>1, DigestTypes DEF Orderly, Served
  <2>3. \A t \in Senders : ~NoAttempt(u, t)' => ~NoAttempt(u, t)
    BY <1>3, <2>1
  <2>4. QED
    BY <1>1, <2>1, <2>2, <2>3 DEF Orderly, Relayed, Senders
<1>8. OnlyMembersAreTried
  BY <1>2, <1>3 DEF OnlyMembersAreTried
<1>9. QED
  BY <1>1, <1>4, <1>5, <1>6, <1>7, <1>8, OneMember

LEMMA RelayTurns ==
  ASSUME DigestInv, NEW u \in Eaters, RelayTurn(u)
  PROVE  DigestInv' /\ OnlyMembersAreTried
<1> DEFINE begun == [at |-> "composing", try |-> 1]
<1>1. /\ DigestTypeOK /\ Steady(u) /\ (Calm(u) => Orderly(u)) /\ excuse \subseteq Eaters
      /\ ~Busy("relay") /\ UNCHANGED <<clock, job, ringing, verified, digests>>
      /\ line' = [line EXCEPT !.relay = line.relay \ {u}]
      /\ excuse' = (IF eater[u].to["other"] # "on" THEN excuse \cup {u} ELSE excuse)
  BY DEF DigestInv, DigestTypeOK, RelayTurn, Excuse, scheduling
<1>2. /\ line' \in [catchup : SUBSET (Eaters \X LastDates \X DayHours), relay : SUBSET Eaters]
      /\ verified' \in BOOLEAN /\ NoAttempt(u, "relay") /\ "relay" \in Senders
      /\ begun \in Attempt \cup {Never} /\ begun # Never /\ begun.at = "composing"
  <2>1. /\ line' \in [catchup : SUBSET (Eaters \X LastDates \X DayHours), relay : SUBSET Eaters]
        /\ verified' \in BOOLEAN
    BY <1>1 DEF DigestTypeOK
  <2>2. NoAttempt(u, "relay") /\ "relay" \in Senders
    BY <1>1 DEF Busy, Senders
  <2>3. begun \in Attempt /\ begun.at = "composing" /\ Never \notin Attempt
    BY DigestAssumption DEF Attempt
  <2>4. QED
    BY <2>1, <2>2, <2>3
<1> HIDE DEF begun
\* What a digest of the relay that begins or is skipped may count on.
<1>3. ASSUME RelayDue(u), Calm(u)', eater'[u].to = eater[u].to
      PROVE  /\ Orderly(u) /\ digests[u] = 0 /\ clock.hour >= eater[u].hour
             /\ eater[u].to["legacy"] # "on" /\ eater[u].to["other"] = "on"
             /\ \A s \in Senders : NoAttempt(u, s)
  <2>1. Orderly(u) /\ eater[u].to["other"] = "on" /\ eater[u].to["legacy"] # "on"
    <3>1. Calm(u) /\ u \notin excuse'
      BY <1>1, <1>3, CalmBefore
    <3>2. QED
      BY <1>1, <3>1 DEF Calm, Doubled, Sources
  <2>2. \A s \in Senders : NoAttempt(u, s)
    BY <1>2, <2>1 DEF Orderly, Senders
  <2>3. ~Served(u)
    BY <1>3, <2>2 DEF RelayDue, Served, At, Senders
  <2>4. digests[u] = 0
    BY <1>1, <2>1, <2>3, DigestTypes DEF Orderly
  <2>5. QED
    BY <1>3, <2>1, <2>2, <2>4 DEF RelayDue
<1>4. CASE UNCHANGED <<eater, sending, digestRun, silent>>
  <2>1. excuse \subseteq excuse' /\ excuse' \subseteq Eaters
    BY <1>1
  <2>2. QED
    BY <1>1, <1>2, <1>4, <2>1, QuietStep
<1>5. ASSUME RelayDue(u), eater' = [eater EXCEPT ![u].last = Today],
             digestRun' = digestRun \cup {u}, silent' = silent \cup {u}, UNCHANGED sending
      PROVE  DigestInv' /\ OnlyMembersAreTried
  <2>1. /\ eater' \in [Eaters -> Member]
        /\ eater'[u].last = Today /\ eater'[u].chat = eater[u].chat
        /\ eater'[u].hour = eater[u].hour /\ eater'[u].to = eater[u].to
        /\ \A v \in Eaters \ {u} : eater'[v] = eater[v]
    BY <1>1, <1>5, LastSet
  <2>2. DigestTypeOK'
    BY <1>1, <1>2, <1>5, <2>1 DEF DigestTypeOK, Member
  <2>3. \A v \in Eaters \ {u} : Same(v)
    BY <1>1, <1>5, <2>1 DEF Same
  <2>4. /\ \A s \in Senders : NoAttempt(u, s)' <=> NoAttempt(u, s)
        /\ \A s \in Senders : \A at : At(u, s, at)' <=> At(u, s, at)
    BY <1>5 DEF NoAttempt, At
  <2>5. Steady(u)'
    <3>1. eater'[u].last <= clock'.date /\ u \in silent'
      BY <1>1, <1>5, <2>1, DigestTypes DEF Today
    <3>2. QED
      BY <1>1, <1>2, <2>1, <2>4, <3>1 DEF Steady
  <2>6. ASSUME Calm(u)' PROVE Orderly(u)'
    <3>1. /\ Orderly(u) /\ digests[u] = 0 /\ clock.hour >= eater[u].hour
          /\ eater[u].to["legacy"] # "on" /\ eater[u].to["other"] = "on"
          /\ \A s \in Senders : NoAttempt(u, s)
      BY <1>3, <1>5, <2>1, <2>6
    <3>2. QED
      BY <1>1, <2>1, <2>4, <3>1 DEF Orderly, Relayed, Senders
  <2>7. OnlyMembersAreTried
    BY <1>5 DEF OnlyMembersAreTried
  <2>8. QED
    BY <1>1, <2>2, <2>3, <2>5, <2>6, <2>7, OneMember
<1>6. ASSUME RelayDue(u), sending' = [sending EXCEPT ![u]["relay"] = begun],
             UNCHANGED <<eater, digestRun, silent>>
      PROVE  DigestInv' /\ OnlyMembersAreTried
  <2>1. /\ sending' \in [Eaters -> [Senders -> Attempt \cup {Never}]] /\ sending'[u]["relay"] = begun
        /\ \A s \in Senders \ {"relay"} : sending'[u][s] = sending[u][s]
        /\ \A v \in Eaters \ {u} : sending'[v] = sending[v]
    BY <1>1, <1>2, <1>6 DEF DigestTypeOK, Senders
  <2>2. DigestTypeOK'
    BY <1>1, <1>2, <1>6, <2>1 DEF DigestTypeOK
  <2>3. \A v \in Eaters \ {u} : Same(v)
    BY <1>1, <1>6, <2>1 DEF Same
  <2>4. /\ \A s \in Senders \ {"relay"} : NoAttempt(u, s)' <=> NoAttempt(u, s)
        /\ \A s \in Senders \ {"relay"} : \A at : At(u, s, at)' <=> At(u, s, at)
        /\ ~NoAttempt(u, "relay")' /\ At(u, "relay", "composing")' /\ ~At(u, "relay", "sent")'
    BY <1>2, <2>1 DEF NoAttempt, At
  <2>5. Steady(u)'
    BY <1>1, <1>6, <2>4 DEF Steady, Today, Senders
  <2>6. ASSUME Calm(u)' PROVE Orderly(u)'
    <3>1. /\ Orderly(u) /\ digests[u] = 0 /\ clock.hour >= eater[u].hour
          /\ eater[u].to["legacy"] # "on" /\ eater[u].to["other"] = "on"
          /\ \A s \in Senders : NoAttempt(u, s)
      BY <1>3, <1>6, <2>6
    <3>2. \A s \in Senders : ~NoAttempt(u, s)' => s = "relay"
      BY <2>4, <3>1
    <3>3. QED
      BY <1>1, <1>6, <3>1, <3>2 DEF Orderly, Relayed, Senders
  <2>7. OnlyMembersAreTried
    BY <1>6, <2>1 DEF OnlyMembersAreTried, RelayDue
  <2>8. QED
    BY <1>1, <2>2, <2>3, <2>5, <2>6, <2>7, OneMember
<1>7. QED
  BY <1>4, <1>5, <1>6 DEF RelayTurn, begun

LEMMA RelayEnds ==
  ASSUME DigestInv, NEW u \in Eaters, RelayQueues(u) \/ RelayFails(u)
  PROVE  DigestInv' /\ OnlyMembersAreTried
<1>1. /\ DigestTypeOK /\ Steady(u) /\ (Calm(u) => Orderly(u)) /\ digests[u] \in 0..2
      /\ At(u, "relay", "composing") /\ ~NoAttempt(u, "relay") /\ "relay" \in Senders
      /\ sending' = [sending EXCEPT ![u]["relay"] = Never]
      /\ UNCHANGED <<clock, job, ringing, verified, silent, excuse>>
  BY DigestTypes DEF DigestInv, RelayQueues, RelayFails, At, scheduling, history, Senders
<1>2. /\ sending' \in [Eaters -> [Senders -> Attempt \cup {Never}]]
      /\ sending'[u]["relay"] = Never
      /\ \A t \in Senders \ {"relay"} : /\ sending'[u][t] = sending[u][t]
                                        /\ NoAttempt(u, t)' <=> NoAttempt(u, t)
                                        /\ \A at : At(u, t, at)' <=> At(u, t, at)
      /\ NoAttempt(u, "relay")' /\ \A at : ~At(u, "relay", at)'
      /\ \A v \in Eaters \ {u} : sending'[v] = sending[v]
  BY <1>1, SlotFacts
<1>3. ASSUME Calm(u)
      PROVE  /\ digests[u] = 0 /\ \A t \in Senders : NoAttempt(u, t)'
             /\ Relayed(u) /\ clock.hour >= eater[u].hour
  <2>1. Orderly(u) /\ sending[u]["relay"].at # "sent"
    BY <1>1, <1>3 DEF At
  <2>2. digests[u] = 0
    BY <1>1, <2>1 DEF Orderly, Served
  <2>3. \A t \in Senders : ~NoAttempt(u, t) => t = "relay"
    BY <1>1, <2>1 DEF Orderly
  <2>4. QED
    BY <1>1, <1>2, <2>1, <2>2, <2>3 DEF Orderly
<1>4. OnlyMembersAreTried
  BY <1>2 DEF OnlyMembersAreTried
<1>5. CASE RelayQueues(u)
  <2>1. /\ eater' = [eater EXCEPT ![u].last = Today] /\ digestRun' = digestRun \cup {u}
        /\ digests' = [digests EXCEPT ![u] = IF digests[u] = 2 THEN 2 ELSE digests[u] + 1]
        /\ UNCHANGED line
    BY <1>5 DEF RelayQueues, GoesOut
  <2>2. /\ eater' \in [Eaters -> Member]
        /\ eater'[u].last = Today /\ eater'[u].chat = eater[u].chat
        /\ eater'[u].hour = eater[u].hour /\ eater'[u].to = eater[u].to
        /\ \A v \in Eaters \ {u} : eater'[v] = eater[v]
    BY <1>1, <2>1, LastSet
  <2>3. /\ digests' \in [Eaters -> 0..2] /\ digests'[u] > 0 /\ (digests[u] = 0 => digests'[u] = 1)
        /\ \A v \in Eaters \ {u} : digests'[v] = digests[v]
    BY <1>1, <2>1 DEF DigestTypeOK
  <2>4. DigestTypeOK'
    BY <1>1, <1>2, <2>1, <2>2, <2>3 DEF DigestTypeOK, Member
  <2>5. \A v \in Eaters \ {u} : Same(v)
    BY <1>1, <1>2, <2>1, <2>2, <2>3 DEF Same
  <2>6. Steady(u)'
    <3>1. eater'[u].last <= clock'.date
      BY <1>1, <2>2, DigestTypes DEF Today
    <3>2. QED
      BY <1>1, <1>2, <2>2, <2>3, <3>1 DEF Steady
  <2>7. ASSUME Calm(u)' PROVE Orderly(u)'
    <3>1. /\ digests[u] = 0 /\ \A t \in Senders : NoAttempt(u, t)'
          /\ Relayed(u) /\ clock.hour >= eater[u].hour /\ Orderly(u)
      BY <1>1, <1>3, <2>2, <2>7, CalmBefore
    <3>2. u \in digestRun' /\ eater'[u].last = Today'
      BY <1>1, <2>1, <2>2 DEF Today
    <3>3. Served(u)'
      BY <3>1, <3>2 DEF Served
    <3>4. QED
      BY <1>1, <2>2, <2>3, <3>1, <3>3 DEF Orderly, Relayed, Senders
  <2>8. QED
    BY <1>1, <1>4, <2>4, <2>5, <2>6, <2>7, OneMember
<1>6. CASE RelayFails(u)
  <2>1. /\ line' = [line EXCEPT !.relay = {}]
        /\ UNCHANGED <<eater, digests, digestRun>>
    BY <1>6 DEF RelayFails, history
  <2>2. DigestTypeOK'
    BY <1>1, <1>2, <2>1 DEF DigestTypeOK
  <2>3. \A v \in Eaters \ {u} : Same(v)
    BY <1>1, <1>2, <2>1 DEF Same
  <2>4. Steady(u)'
    BY <1>1, <1>2, <2>1 DEF Steady, Today
  <2>5. ASSUME Calm(u)' PROVE Orderly(u)'
    <3>1. /\ digests[u] = 0 /\ Orderly(u) /\ \A t \in Senders : NoAttempt(u, t)'
      BY <1>1, <1>3, <2>1, <2>5, CalmBefore
    <3>2. QED
      BY <1>1, <2>1, <3>1 DEF Orderly, Relayed, Senders
  <2>6. QED
    BY <1>1, <1>4, <2>2, <2>3, <2>4, <2>5, OneMember
<1>7. QED
  BY <1>5, <1>6

\* A command writes a member's row and may make, move or end the job: the member's hour
\* stays, no destination is switched on or off and the relay's remains, or a reason is
\* noted.
LEMMA EaterWritten ==
  ASSUME DigestInv, NEW u \in Eaters, NEW row \in Member, eater' = [eater EXCEPT ![u] = row],
         UNCHANGED <<clock, ringing, line, sending, verified, digests, digestRun, silent>>,
         job' \in [Eaters -> Hour], \A v \in Eaters \ {u} : job'[v] = job[v],
         job'[u] \in {row.hour, Never}, ~row.chat => job'[u] = Never,
         row.last = eater[u].last,
         excuse' \in {excuse, excuse \cup {u}},
         u \notin excuse' =>
           /\ row.hour = eater[u].hour
           /\ \A p \in Sources : row.to[p] = "on" => eater[u].to[p] = "on"
           /\ Doubled(u) => \A p \in Sources : row.to[p] = "on"
           /\ row.to["other"] = "none" => eater[u].to["other"] = "none"
  PROVE  DigestInv' /\ OnlyMembersAreTried
<1>1. DigestTypeOK /\ Steady(u) /\ (Calm(u) => Orderly(u))
  BY DEF DigestInv
<1>2. eater'[u] = row /\ \A v \in Eaters \ {u} : eater'[v] = eater[v]
  BY <1>1 DEF DigestTypeOK
<1>3. DigestTypeOK'
  BY <1>1 DEF DigestTypeOK, Member
<1>4. \A v \in Eaters \ {u} : Same(v)
  BY <1>2 DEF Same
<1>5. /\ \A s \in Senders : NoAttempt(u, s)' <=> NoAttempt(u, s)
      /\ \A s \in Senders : \A at : At(u, s, at)' <=> At(u, s, at)
  BY DEF NoAttempt, At
<1>6. Steady(u)'
  BY <1>1, <1>2, <1>5 DEF Steady, Today, Senders
<1>7. ASSUME Calm(u)' PROVE Orderly(u)'
  <2>1. Orderly(u) /\ u \notin excuse'
    BY <1>1, <1>2, <1>7 DEF Calm, Doubled
  <2>2. /\ row.hour = eater[u].hour
        /\ row.to["legacy"] = "on" => eater[u].to["legacy"] = "on"
        /\ row.to["other"] = "on" => eater[u].to["other"] = "on"
        /\ row.to["other"] = "none" => eater[u].to["other"] = "none"
    BY <2>1 DEF Sources
  <2>3. (Relayed(u) => Relayed(u)') /\ (Served(u) => Served(u)')
    BY <1>2, <1>5, <2>2 DEF Served, Relayed, Today, Senders
  <2>4. QED
    BY <1>2, <1>5, <2>1, <2>2, <2>3 DEF Orderly, Senders
<1>8. OnlyMembersAreTried
  BY DEF OnlyMembersAreTried
<1>9. QED
  BY <1>3, <1>4, <1>6, <1>7, <1>8, OneMember

LEMMA HourSet ==
  ASSUME DigestInv, NEW u \in Eaters, NEW hour \in DayHours, SetHour(u, hour)
  PROVE  DigestInv' /\ OnlyMembersAreTried
<1> DEFINE row == [eater[u] EXCEPT !.hour = hour]
<1>1. DigestTypeOK /\ Steady(u) /\ eater[u] \in Member /\ eater[u].active
  BY DigestTypes DEF DigestInv, SetHour
<1>2. /\ row \in Member /\ row.hour = hour /\ row.chat = eater[u].chat /\ row.to = eater[u].to
      /\ row.last = eater[u].last /\ row.active
  BY <1>1 DEF Member
<1>3. /\ eater' = [eater EXCEPT ![u] = row]
      /\ job' = [job EXCEPT ![u] = JobOf(eater'[u], job[u])]
      /\ UNCHANGED <<clock, ringing, line, sending, verified, digests, digestRun, silent>>
      /\ excuse' = (IF hour # eater[u].hour THEN excuse \cup {u} ELSE excuse)
  BY DEF SetHour, Excuse
<1> HIDE DEF row
<1>4. eater'[u] = row
  BY <1>1, <1>3 DEF DigestTypeOK
<1>5. job' = [job EXCEPT ![u] = IF row.chat THEN hour ELSE job[u]]
  <2>1. JobOf(row, job[u]) = IF row.chat THEN hour ELSE job[u]
    BY <1>2 DEF JobOf
  <2>2. job' = [job EXCEPT ![u] = JobOf(row, job[u])]
    BY <1>3, <1>4
  <2>3. QED
    BY <2>1, <2>2, Zenon
<1>6. /\ job' \in [Eaters -> Hour] /\ \A v \in Eaters \ {u} : job'[v] = job[v]
      /\ job'[u] = IF row.chat THEN hour ELSE job[u]
  BY <1>1, <1>5 DEF DigestTypeOK, Hour
<1>7. job'[u] \in {row.hour, Never} /\ (~row.chat => job'[u] = Never)
  BY <1>1, <1>2, <1>6 DEF Steady
<1>8. /\ excuse' \in {excuse, excuse \cup {u}}
      /\ u \notin excuse' => row.hour = eater[u].hour
  BY <1>2, <1>3
<1>9. Doubled(u) => \A p \in Sources : row.to[p] = "on"
  BY <1>2 DEF Doubled
<1>10. QED
  BY <1>2, <1>3, <1>6, <1>7, <1>8, <1>9, EaterWritten

LEMMA RemindersSet ==
  ASSUME DigestInv, NEW u \in Eaters, NEW p \in Sources, NEW enabled \in BOOLEAN,
         Reminders(u, p, enabled)
  PROVE  DigestInv' /\ OnlyMembersAreTried
<1> DEFINE was == eater[u].to
           to == [(IF enabled THEN OptedOut(was) ELSE was) EXCEPT
                    ![p] = IF enabled THEN "on" ELSE "off"]
           row == [eater[u] EXCEPT !.to = to]
<1>1. DigestTypeOK /\ Steady(u) /\ eater[u] \in Member /\ was \in [Sources -> {"none", "off", "on"}]
  BY DigestTypes DEF DigestInv, Member
<1>2. /\ eater' = [eater EXCEPT ![u] = row] /\ UNCHANGED job
      /\ UNCHANGED <<clock, ringing, line, sending, verified, digests, digestRun, silent>>
      /\ excuse' = (IF Doubled(u) \/ (enabled /\ was[p] # "on") THEN excuse \cup {u}
                    ELSE excuse)
  BY DEF Reminders, Put, Excuse
<1>3. /\ to \in [Sources -> {"none", "off", "on"}]
      /\ to[p] = IF enabled THEN "on" ELSE "off"
      /\ \A q \in Sources \ {p} :
            to[q] = IF enabled /\ was[q] = "on" THEN "off" ELSE was[q]
  BY <1>1 DEF OptedOut
<1>4. /\ row \in Member /\ row.hour = eater[u].hour /\ row.chat = eater[u].chat /\ row.to = to
      /\ row.last = eater[u].last
  BY <1>1, <1>3 DEF Member
<1> HIDE DEF row, to
<1>5. p \in {"legacy", "other"} /\ Sources = {"legacy", "other"}
  BY DEF Sources
<1>6. u \notin excuse' => /\ \A q \in Sources : to[q] = "on" => was[q] = "on"
                          /\ ~Doubled(u)
                          /\ to["other"] = "none" => was["other"] = "none"
  BY <1>2, <1>3, <1>5
<1>7. /\ job' \in [Eaters -> Hour] /\ job'[u] \in {row.hour, Never}
      /\ ~row.chat => job'[u] = Never
  BY <1>1, <1>2, <1>4 DEF DigestTypeOK, Steady
<1>8. excuse' \in {excuse, excuse \cup {u}}
  BY <1>2
<1>9. QED
  BY <1>2, <1>4, <1>6, <1>7, <1>8, EaterWritten

\* A conversation that is noticed becomes a destination that is off.
LEMMA NoticedIsOff ==
  ASSUME NEW to \in [Sources -> {"none", "off", "on"}], NEW p \in Sources
  PROVE  /\ Noticed(to, p) \in [Sources -> {"none", "off", "on"}]
         /\ \A q \in Sources : Noticed(to, p)[q] = "on" <=> to[q] = "on"
         /\ Noticed(to, p)["other"] = "none" => to["other"] = "none"
<1>1. \A q \in Sources : Noticed(to, p)[q] = IF q = p /\ to[q] = "none" THEN "off" ELSE to[q]
  BY DEF Noticed
<1>2. "other" \in Sources
  BY DEF Sources
<1>3. QED
  BY <1>1, <1>2 DEF Noticed

LEMMA ConversationSeen ==
  ASSUME DigestInv, NEW u \in Eaters, NEW p \in Sources, ObserveDestination(u, p) \/ Link(u, p)
  PROVE  DigestInv' /\ OnlyMembersAreTried
<1> DEFINE was == eater[u].to
           row == [eater[u] EXCEPT !.to = Noticed(was, p)]
           linked == [eater[u] EXCEPT !.chat = TRUE, !.linked = TRUE, !.to = Noticed(was, p)]
<1>1. DigestTypeOK /\ Steady(u) /\ eater[u] \in Member /\ was \in [Sources -> {"none", "off", "on"}]
  BY DigestTypes DEF DigestInv, Member
<1>2. PICK new \in {row, linked} :
        /\ eater' = [eater EXCEPT ![u] = new] /\ UNCHANGED <<job, excuse>>
        /\ UNCHANGED <<clock, ringing, line, sending, verified, digests, digestRun, silent>>
  BY DEF ObserveDestination, Link, Put
<1>3. Noticed(was, p) \in [Sources -> {"none", "off", "on"}]
  BY <1>1, NoticedIsOff
<1>4. /\ new \in Member /\ new.hour = eater[u].hour /\ (~new.chat => ~eater[u].chat)
      /\ new.last = eater[u].last /\ new.to = Noticed(was, p)
  <2>1. CASE new = row
    BY <1>1, <1>3, <2>1 DEF Member
  <2>2. CASE new = linked
    BY <1>1, <1>3, <2>2 DEF Member
  <2>3. QED
    BY <1>2, <2>1, <2>2
<1> HIDE DEF row, linked
<1>5. /\ \A q \in Sources : new.to[q] = "on" <=> was[q] = "on"
      /\ new.to["other"] = "none" => was["other"] = "none"
  BY <1>1, <1>4, NoticedIsOff
<1>6. /\ job' \in [Eaters -> Hour] /\ job'[u] \in {new.hour, Never}
      /\ ~new.chat => job'[u] = Never
  BY <1>1, <1>2, <1>4 DEF DigestTypeOK, Steady
<1>7. Doubled(u) => \A q \in Sources : new.to[q] = "on"
  BY <1>5 DEF Doubled
<1>8. QED
  BY <1>2, <1>4, <1>5, <1>6, <1>7, EaterWritten

LEMMA MemberLeft ==
  ASSUME DigestInv, NEW u \in Eaters, Leave(u)
  PROVE  DigestInv' /\ OnlyMembersAreTried
<1> DEFINE was == eater[u].to
           to == OptedOut(was)
           row == [eater[u] EXCEPT !.active = FALSE, !.to = to]
<1>1. DigestTypeOK /\ Steady(u) /\ eater[u] \in Member /\ was \in [Sources -> {"none", "off", "on"}]
  BY DigestTypes DEF DigestInv, Member
<1>2. /\ eater' = [eater EXCEPT ![u] = row]
      /\ excuse' = (IF Doubled(u) THEN excuse \cup {u} ELSE excuse)
      /\ UNCHANGED <<clock, ringing, line, sending, verified, digests, digestRun, silent>>
      /\ job' = [job EXCEPT ![u] = Never] \/ job' = job
  BY DEF Leave, Put, Excuse
<1>3. /\ to \in [Sources -> {"none", "off", "on"}]
      /\ \A q \in Sources : to[q] = IF was[q] = "on" THEN "off" ELSE was[q]
  BY <1>1 DEF OptedOut
<1>4. /\ row \in Member /\ row.hour = eater[u].hour /\ row.chat = eater[u].chat /\ row.to = to
      /\ row.last = eater[u].last
  BY <1>1, <1>3 DEF Member
<1> HIDE DEF row, to
<1>5. /\ \A q \in Sources : to[q] # "on"
      /\ to["other"] = "none" => was["other"] = "none"
  BY <1>3 DEF Sources
<1>6. /\ job' \in [Eaters -> Hour] /\ job'[u] \in {row.hour, Never}
      /\ ~row.chat => job'[u] = Never /\ \A v \in Eaters \ {u} : job'[v] = job[v]
  BY <1>1, <1>2, <1>4 DEF DigestTypeOK, Steady, Hour
<1>7. /\ \A v \in Eaters \ {u} : job'[v] = job[v]
      /\ excuse' \in {excuse, excuse \cup {u}} /\ (u \notin excuse' => ~Doubled(u))
  BY <1>1, <1>2 DEF DigestTypeOK
<1>8. QED
  BY <1>2, <1>4, <1>5, <1>6, <1>7, EaterWritten

LEMMA Rejoined ==
  ASSUME DigestInv, NEW u \in Eaters, Rejoin(u)
  PROVE  DigestInv' /\ OnlyMembersAreTried
<1> DEFINE row == [eater[u] EXCEPT !.active = TRUE]
<1>1. DigestTypeOK /\ Steady(u) /\ eater[u] \in Member
  BY DigestTypes DEF DigestInv
<1>2. /\ eater' = [eater EXCEPT ![u] = row] /\ UNCHANGED excuse
      /\ UNCHANGED <<clock, ringing, line, sending, verified, digests, digestRun, silent>>
      /\ job' = [job EXCEPT ![u] = JobOf(eater'[u], job[u])] \/ job' = job
  BY DEF Rejoin, Put
<1>3. /\ row \in Member /\ row.hour = eater[u].hour /\ row.chat = eater[u].chat
      /\ row.to = eater[u].to /\ row.last = eater[u].last /\ row.active
  BY <1>1 DEF Member
<1> HIDE DEF row
<1>4. eater'[u] = row
  BY <1>1, <1>2 DEF DigestTypeOK
<1>5. job' = [job EXCEPT ![u] = IF row.chat THEN row.hour ELSE job[u]] \/ job' = job
  BY <1>2, <1>3, <1>4 DEF JobOf
<1>6. row.hour \in Hour
  BY <1>3 DEF Member, Hour
<1>7. /\ job' \in [Eaters -> Hour] /\ \A v \in Eaters \ {u} : job'[v] = job[v]
  BY <1>1, <1>5, <1>6 DEF DigestTypeOK
<1>8. job'[u] = (IF row.chat THEN row.hour ELSE job[u]) \/ job'[u] = job[u]
  BY <1>1, <1>5 DEF DigestTypeOK
<1>9. /\ job'[u] \in {row.hour, Never} /\ (~row.chat => job'[u] = Never)
      /\ Doubled(u) => \A p \in Sources : row.to[p] = "on"
  BY <1>1, <1>3, <1>8 DEF Steady, Doubled
<1>10. QED
  BY <1>2, <1>3, <1>7, <1>9, EaterWritten

-----------------------------------------------------------------------------
(* Time, and the process starting again.                                   *)

LEMMA HourPasses ==
  ASSUME DigestInv, NextHour
  PROVE  DigestInv' /\ OnlyMembersAreTried
<1>1. /\ DigestTypeOK /\ clock.hour \in Nat /\ clock.hour < LastHour /\ clock.date \in Dates
      /\ clock' = [clock EXCEPT !.hour = clock.hour + 1]
      /\ ringing' = {u \in Eaters : job[u] = clock'.hour}
      /\ UNCHANGED <<eater, job, line, sending, verified, digests, digestRun, silent, excuse>>
  BY DigestTypes DEF DigestInv, NextHour, Rings, history
<1>2. /\ clock' \in [date : Dates, hour : DayHours] /\ clock'.date = clock.date
      /\ clock'.hour = clock.hour + 1
  BY <1>1, DigestAssumption DEF DigestTypeOK, DayHours
<1>3. DigestTypeOK'
  BY <1>1, <1>2 DEF DigestTypeOK
<1>4. ASSUME NEW u \in Eaters PROVE Steady(u)' /\ (Calm(u)' => Orderly(u)')
  <2>1. /\ \A s \in Senders : NoAttempt(u, s)' <=> NoAttempt(u, s)
        /\ \A s \in Senders : \A at : At(u, s, at)' <=> At(u, s, at)
    BY <1>1 DEF NoAttempt, At
  <2>2. Steady(u) /\ (Calm(u) => Orderly(u))
    BY DEF DigestInv
  <2>3. Steady(u)'
    BY <1>1, <1>2, <2>1, <2>2 DEF Steady, Today, Senders
  <2>4. eater[u].hour \in Nat /\ Never \notin DayHours /\ clock'.hour \in DayHours
    BY <1>1, <1>2, DigestTypes, DigestAssumption
  <2>5. u \in ringing' => eater[u].hour = clock'.hour
    BY <1>1, <2>2, <2>4 DEF Steady
  <2>6. clock.hour >= eater[u].hour => clock'.hour >= eater[u].hour /\ u \notin ringing'
    BY <1>1, <1>2, <2>4, <2>5
  <2>7. Served(u) => Served(u)'
    BY <1>1, <1>2, <2>1, <2>6 DEF Served, Today, Senders
  <2>8. Calm(u)' => Orderly(u)'
    <3>1. ASSUME Calm(u)' PROVE Orderly(u)
      BY <1>1, <2>2, <3>1, CalmBefore
    <3>2. QED
      BY <1>1, <1>2, <2>1, <2>5, <2>6, <2>7, <3>1 DEF Orderly, Relayed, Senders
  <2>9. QED
    BY <2>3, <2>8
<1>5. QED
  BY <1>1, <1>3, <1>4 DEF DigestInv, OnlyMembersAreTried

LEMMA NobodySends ==
  ASSUME NEW u \in Eaters, sending = NotSending
  PROVE  \A s \in Senders : NoAttempt(u, s) /\ \A at : ~At(u, s, at)
BY DEF NotSending, NoAttempt, At

LEMMA DatePasses ==
  ASSUME DigestInv, NextDate
  PROVE  DigestInv' /\ OnlyMembersAreTried
<1>1. /\ DigestTypeOK /\ clock.date \in Nat /\ clock.date < LastDate /\ 0 \in DayHours
      /\ clock' = [date |-> clock.date + 1, hour |-> 0]
      /\ ringing' = {u \in Eaters : job[u] = clock'.hour}
      /\ digests' = [u \in Eaters |-> 0] /\ digestRun' = {} /\ silent' = {} /\ excuse' = {}
      /\ sending = NotSending /\ UNCHANGED <<eater, job, line, sending, verified>>
  BY DigestTypes, DigestAssumption DEF DigestInv, NextDate, Rings, DayHours
<1>2. /\ clock' \in [date : Dates, hour : DayHours] /\ clock'.date = clock.date + 1
      /\ clock'.hour = 0
  BY <1>1, DigestAssumption DEF Dates
<1>3. DigestTypeOK'
  BY <1>1, <1>2 DEF DigestTypeOK
<1>4. ASSUME NEW u \in Eaters PROVE Steady(u)' /\ Orderly(u)'
  <2>1. \A s \in Senders : NoAttempt(u, s)' /\ \A at : ~At(u, s, at)'
    BY <1>1 DEF NotSending, NoAttempt, At
  <2>2. Steady(u) /\ digests'[u] = 0 /\ eater[u].last \in LastDates
    BY <1>1, DigestTypes DEF DigestInv, Member
  <2>3. eater[u].last # Never => eater[u].last <= clock'.date /\ eater[u].last # Today'
    BY <1>1, <1>2, <2>2 DEF LastDates, Steady, Today, Dates
  <2>4. Never # Today'
    BY <1>2, DigestAssumption DEF Today
  <2>5. Steady(u)'
    BY <1>1, <2>1, <2>2, <2>3, <2>4 DEF Steady, Senders
  <2>6. u \in ringing' => eater[u].hour = clock'.hour
    <3>1. Never # clock'.hour
      BY <1>1, <1>2, DigestAssumption
    <3>2. QED
      BY <1>1, <2>2, <3>1 DEF Steady
  <2>7. Orderly(u)'
    BY <1>1, <2>1, <2>2, <2>6 DEF Orderly, Relayed, Senders
  <2>8. QED
    BY <2>5, <2>7
<1>5. QED
  BY <1>1, <1>3, <1>4 DEF DigestInv, OnlyMembersAreTried

LEMMA Restarts ==
  ASSUME DigestInv, Restart
  PROVE  DigestInv' /\ OnlyMembersAreTried
<1>1. /\ DigestTypeOK /\ eater' = [u \in Eaters |-> Imported(u)]
      /\ job' = [u \in Eaters |-> JobOf(eater[u], Never)]
      /\ ringing' = {} /\ sending' = NotSending
      /\ line' = [relay |-> {}, catchup |-> {<<u, eater[u].last, eater[u].hour>> : u \in Eaters}]
      /\ verified' \in BOOLEAN
      /\ excuse' = excuse \cup {u \in Eaters : \E s \in Senders : At(u, s, "sent")}
      /\ UNCHANGED <<clock, digests, digestRun, silent>>
  BY DEF DigestInv, Restart
<1>2. ASSUME NEW u \in Eaters
      PROVE  /\ eater'[u] \in Member /\ eater'[u].chat = eater[u].chat
             /\ eater'[u].hour = eater[u].hour /\ eater'[u].last = eater[u].last
             /\ eater'[u].to["other"] = eater[u].to["other"]
             /\ eater'[u].to["legacy"] = IF eater[u].chat /\ eater[u].to["legacy"] = "none"
                                         THEN IF eater[u].active THEN "on" ELSE "off"
                                         ELSE eater[u].to["legacy"]
             /\ eater[u].last \in LastDates /\ eater[u].hour \in DayHours
             /\ job'[u] = IF eater[u].active /\ eater[u].chat THEN eater[u].hour ELSE Never
             /\ job'[u] \in Hour
  <2>1. eater[u] \in Member
    BY <1>1, DigestTypes
  <2>2. eater'[u] = Imported(u) /\ job'[u] = JobOf(eater[u], Never)
    BY <1>1
  <2>3. Imported(u) \in Member
    BY <2>1 DEF Imported, Member, Sources
  <2>4. QED
    BY <2>1, <2>2, <2>3 DEF Imported, JobOf, Member, Sources, Hour
<1>3. sending' \in [Eaters -> [Senders -> Attempt \cup {Never}]]
  BY <1>1 DEF NotSending
<1>4. /\ eater' \in [Eaters -> Member] /\ job' \in [Eaters -> Hour]
      /\ line' \in [catchup : SUBSET (Eaters \X LastDates \X DayHours), relay : SUBSET Eaters]
  BY <1>1, <1>2
<1>5. DigestTypeOK'
  BY <1>1, <1>3, <1>4 DEF DigestTypeOK, Member
<1>6. ASSUME NEW u \in Eaters PROVE Steady(u)' /\ (Calm(u)' => Orderly(u)')
  <2>1. \A s \in Senders : NoAttempt(u, s)' /\ \A at : ~At(u, s, at)'
    BY <1>1 DEF NotSending, NoAttempt, At
  <2>2. Steady(u) /\ (Calm(u) => Orderly(u))
    BY DEF DigestInv
  <2>3. Steady(u)'
    BY <1>1, <1>2, <2>1, <2>2 DEF Steady, Today, Senders
  <2>4. ASSUME Calm(u)' PROVE Orderly(u)'
    <3>1. Orderly(u) /\ \A s \in Senders : ~At(u, s, "sent")
      <4>1. u \notin excuse'
        BY <2>4 DEF Calm
      <4>2. u \notin excuse /\ \A s \in Senders : ~At(u, s, "sent")
        BY <1>1, <4>1
      <4>3. ~Doubled(u)
        BY <1>2, <2>4 DEF Calm, Doubled, Sources
      <4>4. QED
        BY <2>2, <4>2, <4>3 DEF Calm
    <3>2. digests[u] = 1 => eater[u].last = Today /\ (u \in digestRun \/ clock.hour >= eater[u].hour)
      BY <3>1 DEF Orderly, Served, Senders
    <3>3. digests[u] = 1 => Served(u)'
      BY <1>1, <1>2, <2>1, <3>2 DEF Served, Today
    <3>4. QED
      BY <1>1, <1>2, <2>1, <3>1, <3>3 DEF Orderly, Senders
  <2>5. QED
    BY <2>3, <2>4
<1>7. OnlyMembersAreTried
  BY <1>1 DEF OnlyMembersAreTried, NotSending
<1>8. QED
  BY <1>5, <1>6, <1>7 DEF DigestInv

LEMMA DigestSteps == DigestInv /\ [DigestNext]_digestVars => DigestInv' /\ [OnlyMembersAreTried]_digestVars
<1> SUFFICES ASSUME DigestInv, [DigestNext]_digestVars
             PROVE  DigestInv' /\ [OnlyMembersAreTried]_digestVars
  OBVIOUS
<1>1. DigestTypeOK
  BY DEF DigestInv
<1>2. CASE NextHour \/ NextDate \/ Restart
  BY <1>2, HourPasses, DatePasses, Restarts
<1>3. CASE Verify
  BY <1>1, <1>3, QuietStep DEF Verify, scheduling, history, DigestTypeOK
<1>4. CASE PrepareDigests
  <2>1. /\ line' \in [catchup : SUBSET (Eaters \X LastDates \X DayHours), relay : SUBSET Eaters]
        /\ verified' \in BOOLEAN /\ excuse' \subseteq Eaters
    BY <1>1, <1>4 DEF PrepareDigests, DigestTypeOK, history
  <2>2. QED
    BY <1>4, <2>1, QuietStep DEF PrepareDigests, scheduling, history
<1>5. ASSUME NEW u \in Eaters,
             \/ JobRuns(u) \/ JobMisfires(u)
             \/ \E seen \in LastDates, hour \in DayHours : CatchUp(u, seen, hour)
             \/ RelayTurn(u) \/ RelayQueues(u) \/ RelayFails(u)
      PROVE  DigestInv' /\ OnlyMembersAreTried
  BY <1>5, JobSteps, CatchUpSteps, RelayTurns, RelayEnds
<1>6. ASSUME NEW u \in Eaters, NEW s \in Senders,
             Send(u, s) \/ DateRecorded(u, s) \/ SendFails(u, s) \/ Retry(u, s)
      PROVE  DigestInv' /\ OnlyMembersAreTried
  BY <1>6, SendSteps, RecordSteps, FailSteps, RetrySteps
<1>7. ASSUME NEW u \in Eaters,
             \/ \E hour \in DayHours : SetHour(u, hour)
             \/ \E p \in Sources : \/ \E enabled \in BOOLEAN : Reminders(u, p, enabled)
                                  \/ ObserveDestination(u, p) \/ Link(u, p)
             \/ Leave(u) \/ Rejoin(u)
      PROVE  DigestInv' /\ OnlyMembersAreTried
  BY <1>7, HourSet, RemindersSet, ConversationSeen, MemberLeft, Rejoined
<1>8. CASE UNCHANGED digestVars
  <2>1. UNCHANGED <<clock, eater, job, ringing, line, sending, verified, digests, digestRun,
                    silent, excuse>>
    BY <1>8 DEF digestVars
  <2>2. QED
    BY <1>1, <1>8, <2>1, QuietStep DEF DigestTypeOK
<1>9. CASE DigestNext
  BY <1>2, <1>3, <1>4, <1>5, <1>6, <1>7, <1>9, Zenon DEF DigestNext
<1>10. QED
  BY <1>8, <1>9

LEMMA DigestStarts == DigestInit => DigestInv
<1> SUFFICES ASSUME DigestInit PROVE DigestInv
  OBVIOUS
<1>1. PICK chat \in [Eaters -> BOOLEAN] :
       /\ eater = [u \in Eaters |->
            [active |-> TRUE, chat |-> chat[u], linked |-> ~chat[u],
             hour |-> LastHour, last |-> Never,
             to |-> [legacy |-> "none", other |-> IF chat[u] THEN "none" ELSE "off"]]]
       /\ job = [u \in Eaters |-> IF chat[u] THEN LastHour ELSE Never]
  BY Zenon DEF DigestInit
<1>2. /\ clock = [date |-> 1, hour |-> 0] /\ ringing = {} /\ sending = NotSending
      /\ line = [catchup |-> {}, relay |-> {}] /\ verified = TRUE /\ digestRun = {}
      /\ silent = {} /\ excuse = {} /\ digests = [u \in Eaters |-> 0]
  BY DEF DigestInit
<1>3. /\ LastHour \in DayHours /\ 0 \in DayHours /\ 1 \in Dates /\ Never \notin Dates
  BY DigestAssumption DEF DayHours, Dates
<1>4. ASSUME NEW u \in Eaters
      PROVE  /\ eater[u] \in Member /\ job[u] \in Hour
             /\ eater[u].chat = chat[u] /\ eater[u].hour = LastHour /\ eater[u].last = Never
             /\ eater[u].to["legacy"] = "none" /\ (chat[u] => eater[u].to["other"] = "none")
             /\ job[u] = IF chat[u] THEN LastHour ELSE Never
  BY <1>1, <1>3 DEF LastDates, Member, Sources, Hour
<1>5. DigestTypeOK
  <2>1. eater \in [Eaters -> Member] /\ job \in [Eaters -> Hour]
    BY <1>1, <1>4
  <2>2. sending \in [Eaters -> [Senders -> Attempt \cup {Never}]]
    BY <1>2 DEF NotSending
  <2>3. QED
    BY <1>2, <1>3, <2>1, <2>2 DEF DigestTypeOK, Member
<1>6. ASSUME NEW u \in Eaters PROVE Steady(u) /\ Orderly(u)
  <2>1. /\ \A s \in Senders : NoAttempt(u, s) /\ \A at : ~At(u, s, at)
        /\ digests[u] = 0 /\ Today \in Dates
    BY <1>2, <1>3, NobodySends DEF Today
  <2>2. Steady(u)
    BY <1>2, <1>3, <1>4, <2>1 DEF Steady, Senders
  <2>3. Orderly(u)
    BY <1>2, <2>1 DEF Orderly, Relayed, Senders
  <2>4. QED
    BY <2>2, <2>3
<1>7. QED
  BY <1>5, <1>6 DEF DigestInv

\* A second digest of a date has a cause, two destinations that are on among them, a
\* date that is recorded was served, a job is for its member's hour, and no digest is
\* begun for someone who is not a member, however the job, its retry, the catch-up, the
\* relay and the commands interleave (send_digest, catch_up_digests, prepare_digests,
\* schedule_user_digest).
THEOREM DigestsAreSound == DigestSpec => DigestsHold
<1>1. DigestInv => SecondDigestHasACause /\ RecordedWasServed /\ JobAtTheMembersHour
  <2> SUFFICES ASSUME DigestInv
               PROVE  SecondDigestHasACause /\ RecordedWasServed /\ JobAtTheMembersHour
    OBVIOUS
  <2>1. SecondDigestHasACause
    BY DEF DigestInv, Orderly, Calm, SecondDigestHasACause
  <2>2. RecordedWasServed /\ JobAtTheMembersHour
    BY DEF DigestInv, Steady, RecordedWasServed, JobAtTheMembersHour
  <2>3. QED
    BY <2>1, <2>2
<1>2. QED
  BY <1>1, DigestStarts, DigestSteps, PTL DEF DigestSpec, DigestsHold

\* The clock, the rows of the members and the attempts stay of their kind.
THEOREM DigestTypeCorrect == DigestSpec => []DigestTypeOK
<1>1. DigestInv => DigestTypeOK
  BY DEF DigestInv
<1>2. QED
  BY <1>1, DigestStarts, DigestSteps, PTL DEF DigestSpec
=============================================================================
