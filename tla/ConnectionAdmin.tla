---------------------------- MODULE ConnectionAdmin ----------------------------
(***************************************************************************)
(* Setting up a messaging connection: the owner enters credentials, a check *)
(* asks the provider whose they are, a message of the owner shows that      *)
(* events arrive, and then the connection may be enabled.  Every edit        *)
(* carries the revision it was made on and raises it.                       *)
(*                                                                         *)
(* A request reads the row, awaits (its own body, the provider) and goes on *)
(* with what it read: an edit writes the attributes that differ from what   *)
(* it read, a check and an installation read the revision again, and a      *)
(* delivery that the provider refuses marks the row it was sent through.    *)
(* The Telegram bot of the environment has a row too, verified at every     *)
(* start.                                                                   *)
(***************************************************************************)
EXTENDS Integers

CONSTANTS Conns,        \* rows of table messagingconnection, all of one kind
          Kinds,        \* of "telegram", "slack", "whatsapp", "environment": those tried
          Accounts,     \* accounts at the provider
          Prints,       \* an account has several sets of credentials
          Typed,        \* Slack workspaces whose bot token the owner may type in
          Asks,         \* requests of the owner and deliveries under way
          Arrivals,     \* polls and webhook requests under way
          MaxRevision,  \* bound: edits of one row
          Missing

\* Credentials, and the account the provider knows them by.
Keys == Accounts \X Prints
AccountOf(key) == key[1]

\* What secret_ciphertext holds: the credentials, and for Slack the workspace of the
\* bot token, which comes from an installation or is typed in.
Secret(row) == <<row.key, row.token>>

Row == [key : Keys \cup {Missing}, token : Accounts \cup {Missing},
        account : Accounts \cup {Missing},  \* external_account
        enabled : BOOLEAN, inbound : BOOLEAN,
        state : {"unconfigured", "awaiting_installation", "awaiting_inbound_verification",
                 "ready", "degraded"},
        revision : 1..MaxRevision,
        dated : BOOLEAN]                    \* last_checked_at is set

ASSUME ConnAssumption ==
  /\ Kinds \subseteq {"telegram", "slack", "whatsapp", "environment"}
  /\ Typed \subseteq Accounts
  /\ MaxRevision \in Nat \ {0} /\ Missing \notin Accounts \cup Keys \cup Row

VARIABLES kind,    \* the provider; "environment" is Telegram with the bot of the environment
          conn,    \* [Conns -> a row, or Missing]
          ask,     \* [Asks -> a request with the row it read, or Missing]
          arrival, \* [Arrivals -> the connection that is listened to, or Missing]
          install, \* [Conns -> the revision an unused OAuth state was made on, or Missing]
          env,     \* the bot token of the environment, Missing while the process is down
          lapped   \* history: [Conns -> an edit has been written over a row it had not read]

connVars == <<kind, conn, ask, arrival, install, env, lapped>>

Ask == [op : {"rotate", "enable", "disable", "check", "install", "send"}, conn : Conns,
        key : Keys \cup {Missing}, token : Accounts \cup {Missing}, read : Row]

ConnTypeOK ==
  /\ kind \in Kinds
  /\ conn \in [Conns -> Row \cup {Missing}] /\ ask \in [Asks -> Ask \cup {Missing}]
  /\ arrival \in [Arrivals -> Conns \cup {Missing}]
  /\ install \in [Conns -> 1..MaxRevision \cup {Missing}]
  /\ env \in Keys \cup {Missing}
  /\ lapped \in [Conns -> BOOLEAN]

ConnInit ==
  /\ kind \in Kinds
  /\ conn = [c \in Conns |-> Missing] /\ ask = [q \in Asks |-> Missing]
  /\ arrival = [f \in Arrivals |-> Missing] /\ install = [c \in Conns |-> Missing]
  /\ env = Missing
  /\ lapped = [c \in Conns |-> FALSE]

Known == {c \in Conns : conn[c] # Missing}
Store(c, row) == conn' = [conn EXCEPT ![c] = row]

NewRow(key, token, state) ==
  [key |-> key, token |-> token, account |-> Missing, enabled |-> FALSE, inbound |-> FALSE,
   state |-> state, revision |-> 1, dated |-> FALSE]

\* Only Slack has a bot token beside its credentials, and may go without.
Tokens == IF kind = "slack" THEN Typed \cup {Missing} ELSE {Missing}

\* create_connection
Create(c, key, token) ==
  /\ env # Missing /\ kind # "environment" /\ conn[c] = Missing
  /\ Store(c, NewRow(key, token, IF kind = "slack" THEN "awaiting_installation" ELSE "unconfigured"))
  /\ UNCHANGED <<kind, ask, arrival, install, env, lapped>>

\* credentials(): what a call to the provider is made with.
KeyInUse(row) == IF kind = "environment" THEN env ELSE row.key

-----------------------------------------------------------------------------
(* Edits.                                                                   *)

\* A rotation must stay with the same Slack app and the same WhatsApp number;
\* which bot a Telegram token belongs to only its check tells.
MayRotate(row, key) ==
  /\ kind # "environment"
  /\ (row.account # Missing /\ kind \in {"slack", "whatsapp"}) => AccountOf(key) = AccountOf(row.key)

MayEnable(row) == row.state = "ready" /\ row.inbound /\ row.account # Missing

\* Credentials that are not given stay as they were read.
Rotated(row, key, token) ==
  [row EXCEPT !.key = key, !.token = IF token = Missing THEN @ ELSE token,
              !.enabled = FALSE, !.inbound = FALSE, !.state = "unconfigured"]

Edited(a) ==
  LET row == [a.read EXCEPT !.revision = @ + 1] IN
  IF a.op = "rotate" THEN Rotated(row, a.key, a.token) ELSE [row EXCEPT !.enabled = a.op = "enable"]

\* An UPDATE names the attributes that the request changed; a ciphertext is
\* never the same twice.
Updated(row, a, new) ==
  [f \in DOMAIN row |->
     IF new[f] # a.read[f] \/ (a.op = "rotate" /\ f \in {"key", "token"}) THEN new[f] ELSE row[f]]

\* authenticate, require_connection, If-Match; then the body is awaited.
AskFor(q, c, op, key, token) ==
  /\ env # Missing /\ c \in Known /\ ask[q] = Missing
  /\ op \notin {"check", "send"} => conn[c].revision < MaxRevision  \* these two raise no revision
  /\ ask' = [ask EXCEPT ![q] = [op |-> op, conn |-> c, key |-> key, token |-> token, read |-> conn[c]]]
  /\ UNCHANGED <<kind, conn, arrival, env, lapped>>

PatchBegins(q, c) ==
  /\ UNCHANGED install
  /\ \/ \E key \in Keys, token \in Tokens : AskFor(q, c, "rotate", key, token)
     \/ \E op \in {"enable", "disable"} : AskFor(q, c, op, Missing, Missing)

Answered(q) == ask' = [ask EXCEPT ![q] = Missing]

Patch(q) ==
  /\ ask[q] # Missing /\ ask[q].op \in {"rotate", "enable", "disable"} /\ Answered(q)
  /\ LET a == ask[q] IN
     IF \/ a.op = "rotate" /\ ~MayRotate(a.read, a.key)
        \/ a.op = "enable" /\ ~MayEnable(a.read)
     THEN UNCHANGED <<conn, lapped>>
     ELSE /\ Store(a.conn, Updated(conn[a.conn], a, Edited(a)))
          /\ lapped' = [lapped EXCEPT ![a.conn] = @ \/ conn[a.conn].revision # a.read.revision]
  /\ UNCHANGED <<kind, arrival, install, env>>

-----------------------------------------------------------------------------
(* Checks and installations.                                                *)

\* set_verified_account
Belongs(c, account) ==
  /\ conn[c].account \in {Missing, account}
  /\ \A d \in Known \ {c} : conn[d].account # account

VerifiedRow(row, account) ==
  [row EXCEPT !.account = account, !.dated = TRUE,
              !.state = IF row.inbound THEN "ready" ELSE "awaiting_inbound_verification"]

\* Mutant: a check marks whatever it finds when the provider has answered.
UnchangedSinceNever(row, read) == TRUE

UnchangedSince(row, read) == row.revision = read.revision

\* The account that the provider names for these credentials, none if it refuses them.
Identity(row) ==
  IF kind = "slack" THEN {row.token} \ {Missing} ELSE {AccountOf(KeyInUse(row))}

CheckBegins(q, c) == AskFor(q, c, "check", Missing, Missing) /\ UNCHANGED install

\* check_connection, when identity() answers; the adapter of an environment or
\* Telegram connection has compared the account before.
Check(q) ==
  /\ ask[q] # Missing /\ ask[q].op = "check" /\ Answered(q)
  /\ LET c == ask[q].conn
         read == ask[q].read
     IN \/ /\ UnchangedSince(conn[c], read)
           /\ \E account \in Identity(read) :
                /\ Belongs(c, account)
                /\ Store(c, VerifiedRow(conn[c], account))
        \/ UNCHANGED conn
  /\ UNCHANGED <<kind, arrival, install, env, lapped>>

\* oauth_start
InstallOffered(c) ==
  /\ env # Missing /\ kind = "slack" /\ c \in Known /\ install[c] = Missing
  /\ install' = [install EXCEPT ![c] = conn[c].revision]
  /\ UNCHANGED <<kind, conn, ask, arrival, env, lapped>>

\* oauth_callback: the state is used up in any case.
InstallBegins(q, c) ==
  /\ install[c] # Missing /\ install' = [install EXCEPT ![c] = Missing]
  /\ \/ install[c] = conn[c].revision /\ AskFor(q, c, "install", Missing, Missing)
     \/ UNCHANGED <<kind, conn, ask, arrival, env, lapped>>

\* The workspace has been installed by whoever followed the link; the
\* credentials written back are those read before the exchange.
Install(q) ==
  /\ ask[q] # Missing /\ ask[q].op = "install" /\ Answered(q)
  /\ LET c == ask[q].conn
         read == ask[q].read
     IN \/ /\ UnchangedSince(conn[c], read)
           /\ \E account \in Accounts :
                /\ Belongs(c, account)
                /\ Store(c, [VerifiedRow(conn[c], account) EXCEPT
                               !.key = read.key, !.token = account, !.enabled = FALSE,
                               !.revision = @ + 1])
        \/ UNCHANGED conn
  /\ UNCHANGED <<kind, arrival, install, env, lapped>>

-----------------------------------------------------------------------------
(* Messages to a connection and from its owner, and the process.            *)

\* send_one, with the row as it is read again just before the delivery: through an
\* enabled connection, or a test message once the owner has been heard on it.
DeliveryBegins(q, c) ==
  /\ \A r \in Asks : ask[r] # Missing => ask[r].op # "send"
  /\ AskFor(q, c, "send", Missing, Missing) /\ UNCHANGED install
  /\ conn[c].enabled \/ conn[c].inbound

\* AUTH_FAILED marks the row, which stays enabled; nothing else does.
Degraded(row, read) == IF read.state = "degraded" THEN row ELSE [row EXCEPT !.state = "degraded"]

DeliveryEnds(q) ==
  /\ ask[q] # Missing /\ ask[q].op = "send" /\ Answered(q)
  /\ \/ Store(ask[q].conn, Degraded(conn[ask[q].conn], ask[q].read))
     \/ UNCHANGED conn
  /\ UNCHANGED <<kind, arrival, install, env, lapped>>

\* supervise polls a Telegram connection, a webhook is served for any row.
ListensTo(row) ==
  CASE kind = "telegram"    -> row.enabled \/ row.state = "awaiting_inbound_verification"
    [] kind = "slack"       -> row.account # Missing
    [] kind = "whatsapp"    -> TRUE
    [] kind = "environment" -> row.dated

Listen(f, c) ==
  /\ env # Missing /\ c \in Known /\ arrival[f] = Missing /\ ListensTo(conn[c])
  /\ arrival' = [arrival EXCEPT ![f] = c]
  /\ UNCHANGED <<kind, conn, ask, install, env, lapped>>

Heard(row) ==
  [row EXCEPT !.inbound = TRUE, !.state = IF row.account # Missing THEN "ready" ELSE @]

\* admit, for a direct message of the bootstrap user; others change no row.
AdmitArrival(f) ==
  /\ arrival[f] # Missing /\ arrival' = [arrival EXCEPT ![f] = Missing]
  /\ Store(arrival[f], Heard(conn[arrival[f]]))
  /\ UNCHANGED <<kind, ask, install, env, lapped>>

\* import_legacy
Start(key) ==
  /\ env = Missing /\ env' = key
  /\ kind = "environment" \/ key = CHOOSE k \in Keys : TRUE
  /\ IF kind = "environment" /\ Known = {}
     THEN Store(CHOOSE c \in Conns : TRUE, NewRow(Missing, Missing, "unconfigured"))
     ELSE UNCHANGED conn
  /\ UNCHANGED <<kind, ask, arrival, install, lapped>>

EnabledAfter(row) == row.enabled \/ ~row.dated

\* verify_legacy, whenever polling begins; a bot of another account ends the
\* start or is tried again.
VerifyLegacy(c) ==
  /\ env # Missing /\ kind = "environment" /\ c \in Known /\ Belongs(c, AccountOf(env))
  /\ Store(c, [VerifiedRow(conn[c], AccountOf(env)) EXCEPT
                 !.enabled = EnabledAfter(conn[c]), !.state = "ready", !.inbound = TRUE])
  /\ UNCHANGED <<kind, ask, arrival, install, env, lapped>>

Stop ==
  /\ env # Missing /\ env' = Missing
  /\ ask' = [q \in Asks |-> Missing] /\ arrival' = [f \in Arrivals |-> Missing]
  /\ UNCHANGED <<kind, conn, install, lapped>>

ConnNext ==
  \/ \E c \in Conns : \/ \E key \in Keys, token \in Tokens : Create(c, key, token)
                       \/ InstallOffered(c) \/ VerifyLegacy(c)
                       \/ \E q \in Asks : PatchBegins(q, c) \/ CheckBegins(q, c) \/ InstallBegins(q, c)
                                         \/ DeliveryBegins(q, c)
                       \/ \E f \in Arrivals : Listen(f, c)
  \/ \E q \in Asks : Patch(q) \/ Check(q) \/ Install(q) \/ DeliveryEnds(q)
  \/ \E f \in Arrivals : AdmitArrival(f)
  \/ \E key \in Keys : Start(key)
  \/ Stop

ConnSpec == ConnInit /\ [][ConnNext]_connVars

-----------------------------------------------------------------------------
(* Properties.                                                              *)

\* "Use a new connection for a different bot": the account a row was verified for is
\* never replaced, so that no check, installation or start finds good the credentials
\* of another one that a rotation has put there.
AccountFixed ==
  [][conn' # conn => \A c \in Known : conn[c].account # Missing => conn'[c].account = conn[c].account]_connVars

\* What is enabled is known to belong to an account, however edits overlap.
EnabledHasAccount == \A c \in Known : conn[c].enabled => conn[c].account # Missing

\* As long as no edit was written over another, an enabled connection has received a
\* message of its owner, and is ready unless a delivery through it was refused.
EnabledIsReady ==
  \A c \in Known : ~lapped[c] /\ conn[c].enabled =>
    conn[c].inbound /\ conn[c].state \in {"ready", "degraded"}

\* As long as no edit was written over another, what the provider answers to a check
\* or an installation is recorded only while the row has the credentials it was asked
\* with, so that nobody finds good, or replaces, what an edit has put there meanwhile.
AnswerIsForItsKey ==
  [][conn' # conn => \A q \in Asks :
       /\ ask[q] # Missing /\ ask[q].op \in {"check", "install"} /\ ask'[q] = Missing
       /\ kind # "environment" /\ ~lapped[ask[q].conn]
       => Secret(conn[ask[q].conn]) = Secret(ask[q].read)]_connVars

\* "The owner console can disable this connection too; the setting survives
\* restarts": past its first verification only an edit enables a connection.
OwnersChoiceStays ==
  [][conn' # conn => \A c \in Known : conn[c].dated /\ ~conn[c].enabled /\ conn'[c].enabled =>
       \E q \in Asks : ask[q] # Missing /\ ask[q].op = "enable" /\ ask'[q] = Missing]_connVars

\* A connection, however edits, checks, deliveries and arrivals overlap.
ConnectionsSound ==
  [](ConnTypeOK /\ EnabledHasAccount /\ EnabledIsReady) /\ AccountFixed /\ AnswerIsForItsKey /\ OwnersChoiceStays
=============================================================================
