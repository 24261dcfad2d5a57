------------------------------- MODULE Outbox -------------------------------
(***************************************************************************)
(* The durable outbox of app/messaging: rows queued by commands, notices,  *)
(* digests and connection tests; the single sender task that hands them to *)
(* a provider in chunks; delivery receipts; membership revocation and      *)
(* connection changes that overtake a queued or in-flight row; a crash at  *)
(* any point and the recovery that follows it.                             *)
(*                                                                         *)
(* Durable (SQLite): member, optedIn, connection, job, status, attempts,   *)
(* backoff, run.  Volatile (the asyncio process): sender, draft.           *)
(* External: wire and accepted, the provider's side of the HTTP calls.     *)
(* An action is what the process does between two awaits, which nothing    *)
(* interleaves with: there is one process and one event loop.              *)
(***************************************************************************)
EXTENDS Naturals

CONSTANTS
    Users,           \* accounts
    Households,      \* households a user can belong to
    None,            \* owner and household of a row enqueued with user=None
    Connections,     \* provider connections
    MaxDeliveries,   \* bound: outbox rows
    Parts,           \* chunks a delivery is split into by its adapter
    MaxAttempts,     \* attempts before RATE_LIMITED becomes final (4)
    MaxGeneration,   \* bound: membership revocations of a user
    MaxRevision,     \* bound: edits of a connection
    MaxCrashes,      \* bound: crashes
    MaxLockFailures  \* bound: outcome commits lost to a locked database

ASSUME NoneAssumption == None \notin Users \cup Households
ASSUME HouseholdsAssumption == Households # {}
ASSUME ConnectionsAssumption == Connections # {}
ASSUME BoundsAssumption ==
    /\ MaxDeliveries \in Nat
    /\ Parts \in Nat \ {0}
    /\ MaxAttempts \in Nat \ {0}
    /\ MaxGeneration \in Nat
    /\ MaxRevision \in Nat
    /\ MaxCrashes \in Nat
    /\ MaxLockFailures \in Nat

VARIABLES
    up,            \* the process runs
    crashes,       \* crashes so far
    lockFailures,  \* outcome commits lost so far
    member,        \* user -> [active, banned, household, generation]
    optedIn,       \* user -> connections whose direct chat has reminders on
    connection,    \* connection -> [enabled, ready, revision]
    created,       \* rows inserted so far; row ids follow created_at
    job,           \* row -> what it carries and for whom
    status,        \* row -> MessagingOutbox.status, "absent" before insertion
    attempts,      \* row -> MessagingOutbox.attempts
    backoff,       \* retry rows whose next_attempt_at is in the future
    run,           \* row -> DigestRun.status, "none" without a DigestRun
    sender,        \* what the sender task awaits
    draft,         \* a digest being composed by prepare_digests, or NoDraft
    wire,          \* requests the provider has not processed
    accepted       \* requests the provider has accepted

queueVars == <<created, job, attempts, backoff>>
worldVars == <<member, optedIn, connection>>
faultVars == <<crashes, lockFailures>>
vars == <<up, faultVars, worldVars, queueVars, status, run, sender, draft,
          wire, accepted>>

Deliveries == 1..MaxDeliveries

\* What a row carries: its content, target and authorisation stamp.
Jobs == [kind : {"reply", "digest", "notice", "test"},
         connection : Connections,
         user : Users \cup {None},
         household : Households \cup {None},
         generation : 0..MaxGeneration]

Queued == {"pending", "retry"}
Confirmed == {"accepted", "delivered", "read"}
Final == {"failed", "unknown", "suppressed"}
Statuses == {"absent", "sending"} \cup Queued \cup Confirmed \cup Final
RunStatuses == {"none", "prepared", "retry"} \cup Confirmed \cup Final

Unstamped(kind, c) == [kind |-> kind, connection |-> c, user |-> None,
                       household |-> None, generation |-> 0]
Stamped(kind, c, u) == [kind |-> kind, connection |-> c, user |-> u,
                        household |-> member[u].household,
                        generation |-> member[u].generation]

Request(d, a, p) == [delivery |-> d, attempt |-> a, part |-> p]
Requests == [delivery : Deliveries, attempt : 1..MaxAttempts, part : 1..Parts]

Replies == {"none", "ok", "rate_limited", "auth_failed", "rejected"}
Idle == [pc |-> "idle", row |-> 0, part |-> 0, reply |-> "none", revision |-> 0]
NoDraft == [user |-> None]
Drafts == [user : Users, connection : Connections]

Members == [active : BOOLEAN, banned : BOOLEAN, household : Households,
            generation : 0..MaxGeneration]
ConnectionStates == [enabled : BOOLEAN, ready : BOOLEAN,
                     revision : 0..MaxRevision]
SenderStates == [pc : {"idle", "adapter", "wait"}, row : 0..MaxDeliveries,
                 part : 0..Parts, reply : Replies, revision : 0..MaxRevision]

TypeOK ==
    /\ up \in BOOLEAN
    /\ crashes \in 0..MaxCrashes
    /\ lockFailures \in 0..MaxLockFailures
    /\ member \in [Users -> Members]
    /\ optedIn \in [Users -> SUBSET Connections]
    /\ connection \in [Connections -> ConnectionStates]
    /\ created \in 0..MaxDeliveries
    /\ job \in [Deliveries -> Jobs]
    /\ status \in [Deliveries -> Statuses]
    /\ attempts \in [Deliveries -> 0..MaxAttempts]
    /\ backoff \in SUBSET Deliveries
    /\ run \in [Deliveries -> RunStatuses]
    /\ sender \in SenderStates
    /\ draft \in Drafts \cup {NoDraft}
    /\ wire \in SUBSET Requests
    /\ accepted \in SUBSET Requests

Init ==
    /\ up = TRUE
    /\ crashes = 0
    /\ lockFailures = 0
    /\ member \in [Users -> {m \in Members :
                              m.active /\ ~m.banned /\ m.generation = 0}]
    /\ optedIn = [u \in Users |-> {}]
    /\ connection = [c \in Connections |->
                       [enabled |-> TRUE, ready |-> TRUE, revision |-> 0]]
    /\ created = 0
    /\ job = [d \in Deliveries |->
                Unstamped("notice", CHOOSE c \in Connections : TRUE)]
    /\ status = [d \in Deliveries |-> "absent"]
    /\ attempts = [d \in Deliveries |-> 0]
    /\ backoff = {}
    /\ run = [d \in Deliveries |-> "none"]
    /\ sender = Idle
    /\ draft = NoDraft
    /\ wire = {}
    /\ accepted = {}

-----------------------------------------------------------------------------
(* Producers.                                                              *)

Serves(u) == member[u].active /\ ~member[u].banned

\* enqueue(): a new row in "pending", stamped with the owner's generation.
Enqueue(j, digestStatus) ==
    /\ up
    /\ created < MaxDeliveries
    /\ created' = created + 1
    /\ job' = [job EXCEPT ![created + 1] = j]
    /\ status' = [status EXCEPT ![created + 1] = "pending"]
    /\ run' = [run EXCEPT ![created + 1] = digestStatus]
    /\ UNCHANGED <<up, faultVars, worldVars, attempts, backoff, sender, wire,
                   accepted>>

\* OutboxMessenger.send_text; verify_commit lets it commit only while the
\* authorisation stamp of the running command is still the user's.
SendText(u, c) ==
    /\ Serves(u)
    /\ Enqueue(Stamped("reply", c, u), "none")
    /\ UNCHANGED draft

\* Denials, setup notices and identity errors carry no user.
SendNotice(c) ==
    /\ Enqueue(Unstamped("notice", c), "none")
    /\ UNCHANGED draft

\* The owner's connection test, admitted with the connection disabled too.
SendTest(c) ==
    /\ Enqueue(Unstamped("test", c), "none")
    /\ UNCHANGED draft

\* prepare_digests checks the user and the destination and may await the
\* translation of item names ...
ComposeDigest(u, c) ==
    /\ up
    /\ draft = NoDraft
    /\ created < MaxDeliveries
    /\ Serves(u)
    /\ c \in optedIn[u]
    /\ draft' = [user |-> u, connection |-> c]
    /\ UNCHANGED <<up, faultVars, worldVars, queueVars, status, run, sender,
                   wire, accepted>>

\* ... whose commit or rollback expires the user row, so that the stamp is the
\* user's at this moment: active or not, and whatever the household is by now.
QueueDigest ==
    /\ draft # NoDraft
    /\ Enqueue(Stamped("digest", draft.connection, draft.user), "prepared")
    /\ draft' = NoDraft

\* OutboxMessenger.remove_message withdraws a row that was never tried.
RemoveMessage(d) ==
    /\ up
    /\ job[d].kind = "reply"
    /\ status[d] = "pending"
    /\ status' = [status EXCEPT ![d] = "suppressed"]
    /\ UNCHANGED <<up, faultVars, worldVars, queueVars, run, sender, draft,
                   wire, accepted>>

-----------------------------------------------------------------------------
(* Accounts and connections change under the queue.                        *)

\* Slips: a row being sent is withdrawn too; the generation is not bumped.
RevokeSending(u) ==
    /\ up
    /\ member[u].active
    /\ member[u].generation < MaxGeneration
    /\ member' = [member EXCEPT ![u].active = FALSE,
                                ![u].generation = @ + 1]
    /\ optedIn' = [optedIn EXCEPT ![u] = {}]
    /\ status' = [d \in Deliveries |->
                    IF job[d].user = u /\ status[d] \in Queued \cup {"sending"}
                    THEN "suppressed" ELSE status[d]]
    /\ UNCHANGED <<up, faultVars, connection, queueVars, run, sender, draft,
                   wire, accepted>>

RevokeSameGeneration(u) ==
    /\ up
    /\ member[u].active
    /\ member' = [member EXCEPT ![u].active = FALSE]
    /\ optedIn' = [optedIn EXCEPT ![u] = {}]
    /\ status' = [d \in Deliveries |->
                    IF job[d].user = u /\ status[d] \in Queued
                    THEN "suppressed" ELSE status[d]]
    /\ UNCHANGED <<up, faultVars, connection, queueVars, run, sender, draft,
                   wire, accepted>>

\* revoke_membership: leaving or being removed.
Revoke(u) ==
    /\ up
    /\ member[u].active
    /\ member[u].generation < MaxGeneration
    /\ member' = [member EXCEPT ![u].active = FALSE,
                                ![u].generation = @ + 1]
    /\ optedIn' = [optedIn EXCEPT ![u] = {}]
    /\ status' = [d \in Deliveries |->
                    IF job[d].user = u /\ status[d] \in Queued
                    THEN "suppressed" ELSE status[d]]
    /\ UNCHANGED <<up, faultVars, connection, queueVars, run, sender, draft,
                   wire, accepted>>

\* join(): an invitation admits an inactive identity again.
Join(u, h) ==
    /\ up
    /\ ~member[u].active
    /\ ~member[u].banned
    /\ member' = [member EXCEPT ![u].active = TRUE, ![u].household = h]
    /\ UNCHANGED <<up, faultVars, optedIn, connection, queueVars, status, run,
                   sender, draft, wire, accepted>>

\* The operator's ban and unban touch the account only.
SetBanned(u, banned) ==
    /\ up
    /\ member[u].banned # banned
    /\ member' = [member EXCEPT ![u].banned = banned]
    /\ UNCHANGED <<up, faultVars, optedIn, connection, queueVars, status, run,
                   sender, draft, wire, accepted>>

\* select_destination: "reminders on" replaces every other destination.
SelectDestination(u, c, enabled) ==
    /\ up
    /\ Serves(u)
    /\ optedIn' = [optedIn EXCEPT ![u] = IF enabled THEN {c} ELSE @ \ {c}]
    /\ UNCHANGED <<up, faultVars, member, connection, queueVars, status, run,
                   sender, draft, wire, accepted>>

\* patch(): a revision-checked edit; only a ready connection is enabled.
PatchConnection(c, enabled) ==
    /\ up
    /\ connection[c].revision < MaxRevision
    /\ enabled => connection[c].ready
    /\ connection' = [connection EXCEPT ![c].enabled = enabled,
                                        ![c].revision = @ + 1]
    /\ UNCHANGED <<up, faultVars, member, optedIn, queueVars, status, run,
                   sender, draft, wire, accepted>>

\* patch() with credentials or settings: disabled until validated again.
RotateCredentials(c) ==
    /\ up
    /\ connection[c].revision < MaxRevision
    /\ connection' = [connection EXCEPT ![c].enabled = FALSE,
                                        ![c].ready = FALSE,
                                        ![c].revision = @ + 1]
    /\ UNCHANGED <<up, faultVars, member, optedIn, queueVars, status, run,
                   sender, draft, wire, accepted>>

\* check_connection: credentials that validate make a connection ready.
CheckConnection(c) ==
    /\ up
    /\ ~connection[c].ready
    /\ connection' = [connection EXCEPT ![c].ready = TRUE]
    /\ UNCHANGED <<up, faultVars, member, optedIn, queueVars, status, run,
                   sender, draft, wire, accepted>>

-----------------------------------------------------------------------------
(* The sender task: send_one, cut at its awaits.                           *)

\* stamped_user of the row; rows without a user are always authorised.
StampLive(d) ==
    LET j == job[d]
    IN  j.user # None =>
          /\ member[j.user].active
          /\ member[j.user].household = j.household
          /\ member[j.user].generation = j.generation

Authorized(d) ==
    StampLive(d) /\ (job[d].user # None => ~member[job[d].user].banned)

Reachable(d) ==
    \/ connection[job[d].connection].enabled
    \/ job[d].kind = "test"

DigestWanted(d) ==
    job[d].kind = "digest" => job[d].connection \in optedIn[job[d].user]

Eligible(d) == status[d] = "pending" \/ (status[d] = "retry" /\ d \notin backoff)

\* The row sender() picks: the oldest one that is due.
Oldest(d) ==
    /\ up
    /\ sender.pc = "idle"
    /\ Eligible(d)
    /\ \A e \in Deliveries : Eligible(e) => d <= e

\* An early return of send_one: the DigestRun is left as it was.
SuppressOldest(d) ==
    /\ Oldest(d)
    /\ ~(Reachable(d) /\ Authorized(d) /\ DigestWanted(d))
    /\ status' = [status EXCEPT ![d] = "suppressed"]
    /\ UNCHANGED <<up, faultVars, worldVars, queueVars, run, sender, draft,
                   wire, accepted>>

\* The row is committed as "sending" before the adapter is awaited.
ClaimOldest(d) ==
    /\ Oldest(d)
    /\ Reachable(d) /\ Authorized(d) /\ DigestWanted(d)
    /\ status' = [status EXCEPT ![d] = "sending"]
    /\ attempts' = [attempts EXCEPT ![d] = @ + 1]
    /\ sender' = [Idle EXCEPT !.pc = "adapter", !.row = d,
                      !.revision = connection[job[d].connection].revision]
    /\ UNCHANGED <<up, faultVars, worldVars, created, job, backoff, run, draft,
                   wire, accepted>>

\* The last commit of send_one: row, DigestRun mirror, back to idle.
Finish(d, st) ==
    /\ status' = [status EXCEPT ![d] = st]
    /\ run' = [run EXCEPT ![d] = IF @ = "none" THEN @ ELSE st]
    /\ backoff' = IF st = "retry" THEN backoff \cup {d} ELSE backoff
    /\ sender' = Idle

\* Slip: one attempt too many.
VerdictOffByOne(code, attempt) ==
    CASE code = "RATE_LIMITED" /\ attempt <= MaxAttempts -> "retry"
      [] code \in {"DELIVERY_UNKNOWN", "exception"}      -> "unknown"
      [] OTHER                                           -> "failed"

\* The status the except clauses of send_one give to an error.
Verdict(code, attempt) ==
    CASE code = "RATE_LIMITED" /\ attempt < MaxAttempts -> "retry"
      [] code \in {"DELIVERY_UNKNOWN", "exception"}     -> "unknown"
      [] OTHER                                          -> "failed"

Raise(d, code) ==
    /\ Finish(d, Verdict(code, attempts[d]))
    /\ connection' = IF code = "AUTH_FAILED"
                     THEN [connection EXCEPT ![job[d].connection].ready = FALSE]
                     ELSE connection
    /\ UNCHANGED <<up, faultVars, member, optedIn, created, job, attempts,
                   draft, wire, accepted>>

\* adapter() itself fails: credentials, another bot's token, a network error.
AdapterFails ==
    /\ sender.pc = "adapter"
    /\ \E code \in {"AUTH_FAILED", "CONFLICT", "exception"} :
         Raise(sender.row, code)

\* Slip: the owner's stamp is not read again.
StillAllowedUnstamped(d) ==
    /\ connection[job[d].connection].revision = sender.revision
    /\ Reachable(d)

\* What is read again once the adapter is there.
StillAllowed(d) ==
    /\ connection[job[d].connection].revision = sender.revision
    /\ Reachable(d)
    /\ Authorized(d)

RecheckFails ==
    /\ sender.pc = "adapter"
    /\ ~StillAllowed(sender.row)
    /\ Raise(sender.row, "FORBIDDEN")

\* WhatsApp outside the service window without an approved template.
AdapterSuppresses ==
    /\ sender.pc = "adapter"
    /\ StillAllowed(sender.row)
    /\ Finish(sender.row, "suppressed")
    /\ UNCHANGED <<up, faultVars, worldVars, created, job, attempts, draft,
                   wire, accepted>>

Issue(d, p) ==
    /\ wire' = wire \cup {Request(d, attempts[d], p)}
    /\ sender' = [sender EXCEPT !.pc = "wait", !.part = p, !.reply = "none"]
    /\ UNCHANGED <<up, faultVars, worldVars, queueVars, status, run, draft,
                   accepted>>

\* adapter.deliver runs up to its first request without yielding.
CallProvider ==
    /\ sender.pc = "adapter"
    /\ StillAllowed(sender.row)
    /\ Issue(sender.row, 1)

NextPart ==
    /\ sender.pc = "wait"
    /\ sender.reply = "ok"
    /\ sender.part < Parts
    /\ Issue(sender.row, sender.part + 1)

\* Slip: the first chunk counts for the whole.
CompleteEarly ==
    /\ sender.pc = "wait"
    /\ sender.reply = "ok"
    /\ Finish(sender.row, "accepted")
    /\ UNCHANGED <<up, faultVars, worldVars, created, job, attempts, draft,
                   wire, accepted>>

Complete ==
    /\ sender.pc = "wait"
    /\ sender.reply = "ok"
    /\ sender.part = Parts
    /\ Finish(sender.row, "accepted")
    /\ UNCHANGED <<up, faultVars, worldVars, created, job, attempts, draft,
                   wire, accepted>>

\* Slip: a rate limit after an accepted part is still definite.
RaisedDefinite(reply, p) ==
    CASE reply = "rate_limited" -> {"RATE_LIMITED"}
      [] reply = "auth_failed"  -> {"AUTH_FAILED", "exception"}
      [] reply = "rejected"     -> {"FORBIDDEN"}
      [] reply = "none"         -> {"DELIVERY_UNKNOWN"}
      [] OTHER                  -> {}

\* What the adapters raise for a reply to part p; "none" is a timeout.  Once a
\* part was accepted (refs is not empty) a refusal is no longer definite, except
\* that Telegram's Forbidden and BadRequest are reported as they are.
Raised(reply, p) ==
    CASE reply = "rate_limited" ->
            {IF p > 1 THEN "DELIVERY_UNKNOWN" ELSE "RATE_LIMITED"}
      [] reply = "auth_failed" ->
            IF p > 1 THEN {"DELIVERY_UNKNOWN", "exception"}
                     ELSE {"AUTH_FAILED", "exception"}
      [] reply = "rejected" ->
            {"FORBIDDEN"} \cup (IF p > 1 THEN {"DELIVERY_UNKNOWN"} ELSE {})
      [] reply = "none" -> {"DELIVERY_UNKNOWN"}
      [] OTHER -> {}

DeliverFails ==
    /\ sender.pc = "wait"
    /\ \E code \in Raised(sender.reply, sender.part) : Raise(sender.row, code)

\* The last commit meets a locked database: the session rolls back, sender()
\* logs and moves on, and the row stays "sending".
OutcomeLost ==
    /\ sender.pc \in {"adapter", "wait"}
    /\ ~(sender.reply = "ok" /\ sender.part < Parts)
    /\ lockFailures < MaxLockFailures
    /\ lockFailures' = lockFailures + 1
    /\ sender' = Idle
    /\ UNCHANGED <<up, crashes, worldVars, queueVars, status, run, draft, wire,
                   accepted>>

-----------------------------------------------------------------------------
(* The provider, and what it says later.                                   *)

Awaited(r) ==
    /\ sender.pc = "wait"
    /\ r = Request(sender.row, attempts[sender.row], sender.part)

\* The reply reaches the sender if it still waits for it, or is lost.
Answer(r, reply) ==
    \/ sender' = IF Awaited(r) THEN [sender EXCEPT !.reply = reply] ELSE sender
    \/ UNCHANGED sender

ProviderAccepts(r) ==
    /\ wire' = wire \ {r}
    /\ accepted' = accepted \cup {r}
    /\ Answer(r, "ok")
    /\ UNCHANGED <<up, faultVars, worldVars, queueVars, status, run, draft>>

ProviderRefuses(r, reply) ==
    /\ wire' = wire \ {r}
    /\ Answer(r, reply)
    /\ UNCHANGED <<up, faultVars, worldVars, queueVars, status, run, draft,
                   accepted>>

RequestLost(r) ==
    /\ wire' = wire \ {r}
    /\ UNCHANGED <<up, faultVars, worldVars, queueVars, status, run, sender,
                   draft, accepted>>

\* rank of delivery_statuses.
Rank(st) ==
    CASE st = "read" -> 3 [] st = "delivered" -> 2 [] st = "failed" -> 1 [] OTHER -> 0

\* Slips: the DigestRun is not told; an older receipt overwrites a newer one.
ReceiptUnmirrored(d, st) ==
    /\ up
    /\ \E r \in accepted : r.delivery = d
    /\ status[d] \in Confirmed
    /\ Rank(st) > Rank(status[d])
    /\ status' = [status EXCEPT ![d] = st]
    /\ UNCHANGED <<up, faultVars, worldVars, queueVars, run, sender, draft, wire,
                   accepted>>

ReceiptUnordered(d, st) ==
    /\ up
    /\ \E r \in accepted : r.delivery = d
    /\ status[d] \in Confirmed
    /\ status' = [status EXCEPT ![d] = st]
    /\ run' = [run EXCEPT ![d] = IF @ = "none" THEN @ ELSE st]
    /\ UNCHANGED <<up, faultVars, worldVars, queueVars, sender, draft, wire,
                   accepted>>

\* delivery_statuses: a receipt for a message of d, in any order, repeated or
\* late.  Only rows in the selected statuses know their message references.
Receipt(d, st) ==
    /\ up
    /\ \E r \in accepted : r.delivery = d
    /\ status[d] \in Confirmed
    /\ Rank(st) > Rank(status[d])
    /\ status' = [status EXCEPT ![d] = st]
    /\ run' = [run EXCEPT ![d] = IF @ = "none" THEN @ ELSE st]
    /\ UNCHANGED <<up, faultVars, worldVars, queueVars, sender, draft, wire,
                   accepted>>

-----------------------------------------------------------------------------
(* Time, crash and restart.                                                *)

BackoffElapses(d) ==
    /\ d \in backoff
    /\ backoff' = backoff \ {d}
    /\ UNCHANGED <<up, faultVars, worldVars, created, job, attempts, status,
                   run, sender, draft, wire, accepted>>

\* A crash, or close(): cancelled tasks write nothing.
Crash ==
    /\ up
    /\ crashes < MaxCrashes
    /\ crashes' = crashes + 1
    /\ up' = FALSE
    /\ sender' = Idle
    /\ draft' = NoDraft
    /\ UNCHANGED <<lockFailures, worldVars, queueVars, status, run, wire,
                   accepted>>

\* Slips: an interrupted row is sent again; recovery is forgotten.
StartRequeues ==
    /\ ~up
    /\ up' = TRUE
    /\ status' = [d \in Deliveries |->
                    IF status[d] = "sending" THEN "pending" ELSE status[d]]
    /\ UNCHANGED <<faultVars, worldVars, queueVars, run, sender, draft, wire,
                   accepted>>

StartUnrecovered ==
    /\ ~up
    /\ up' = TRUE
    /\ UNCHANGED <<faultVars, worldVars, queueVars, status, run, sender, draft,
                   wire, accepted>>

\* start(): recover_interrupted commits before any task is created.
Start ==
    /\ ~up
    /\ up' = TRUE
    /\ status' = [d \in Deliveries |->
                    IF status[d] = "sending" THEN "unknown" ELSE status[d]]
    /\ UNCHANGED <<faultVars, worldVars, queueVars, run, sender, draft, wire,
                   accepted>>

-----------------------------------------------------------------------------
(* The specification.                                                      *)

Producers ==
    \/ \E u \in Users, c \in Connections : SendText(u, c) \/ ComposeDigest(u, c)
    \/ \E c \in Connections : SendNotice(c) \/ SendTest(c)
    \/ QueueDigest
    \/ \E d \in Deliveries : RemoveMessage(d)

Administration ==
    \/ \E u \in Users : Revoke(u)
    \/ \E u \in Users, h \in Households : Join(u, h)
    \/ \E u \in Users, b \in BOOLEAN : SetBanned(u, b)
    \/ \E u \in Users, c \in Connections, b \in BOOLEAN : SelectDestination(u, c, b)
    \/ \E c \in Connections, b \in BOOLEAN : PatchConnection(c, b)
    \/ \E c \in Connections : RotateCredentials(c) \/ CheckConnection(c)

SenderStep ==
    \/ \E d \in Deliveries : SuppressOldest(d) \/ ClaimOldest(d)
    \/ AdapterFails
    \/ RecheckFails
    \/ AdapterSuppresses
    \/ CallProvider
    \/ NextPart
    \/ Complete
    \/ DeliverFails

Provider ==
    \/ \E r \in wire : ProviderAccepts(r) \/ RequestLost(r)
    \/ \E r \in wire, reply \in Replies \ {"none", "ok"} : ProviderRefuses(r, reply)
    \/ \E d \in Deliveries, st \in {"delivered", "read", "failed"} : Receipt(d, st)

Environment ==
    \/ OutcomeLost
    \/ Crash
    \/ Start
    \/ \E d \in Deliveries : BackoffElapses(d)

Next == Producers \/ Administration \/ SenderStep \/ Provider \/ Environment

Spec == Init /\ [][Next]_vars

\* The sender task runs whenever it can, time passes and the process is
\* restarted after a crash.  Nothing is assumed of the provider: an unanswered
\* call times out in the adapter.
Fairness ==
    /\ WF_vars(SenderStep)
    /\ WF_vars(Start)
    /\ \A d \in Deliveries : WF_vars(BackoffElapses(d))

FairSpec == Spec /\ Fairness

-----------------------------------------------------------------------------
(* Safety.                                                                 *)

\* No chunk of a delivery is accepted by the provider twice or offered again
\* once accepted, whatever is retried, timed out, lost or cut short by a crash:
\* a row goes back to "retry" only after a refusal that left nothing behind, and
\* "sending" is never resumed.
NoPartSentTwice ==
    \A r \in accepted, s \in accepted \cup wire :
        r.delivery = s.delivery /\ r.part = s.part => r = s /\ s \notin wire

\* A row that is queued or was suppressed has left no trace at the provider:
\* withdrawing it (revocation, opt-out, a disabled connection, remove_message)
\* is honest, nobody has seen or will see any chunk of it.
WithheldMeansUnsent ==
    \A r \in wire \cup accepted :
        status[r.delivery] \notin Queued \cup {"absent", "suppressed"}

\* "accepted", and every status a receipt builds on it, is claimed only when
\* the provider took every chunk.
ConfirmedMeansComplete ==
    \A d \in Deliveries : status[d] \in Confirmed =>
        \A p \in 1..Parts : Request(d, attempts[d], p) \in accepted

\* The DigestRun of a digest and its outbox row are mirrored in two handlers
\* and neither is told of a confirmation without the other.
RunMirrorsConfirmation ==
    \A d \in Deliveries :
        run[d] # "none" /\ (status[d] \in Confirmed \/ run[d] \in Confirmed)
            => run[d] = status[d]

\* Once settled, a row changes only by receipts, and receipts that arrive late,
\* repeated or out of order never take it back.
SettledOnlyAdvances ==
    [][\A d \in Deliveries :
         status[d] \in Confirmed \cup Final /\ status'[d] # status[d]
            => status[d] \in Confirmed /\ Rank(status'[d]) > Rank(status[d])]_vars

\* No delivery starts at a provider unless, at that moment, its connection may
\* be used and its owner is a member under the very stamp it was queued with:
\* the check is repeated after the adapter is awaited.
NothingStartsUnauthorized ==
    [][\A r \in wire' \ wire : r.part = 1 =>
         Authorized(r.delivery) /\ Reachable(r.delivery)]_vars

\* A reply queued before its owner left stays undeliverable when the owner is
\* invited back, to the same household or to another.
RevokedReplyNeverRevives ==
    [][\A d \in Deliveries :
         job[d].kind = "reply" /\ ~StampLive(d) => ~StampLive(d)']_vars

-----------------------------------------------------------------------------
(* Refinement: the outbox keeps the promise of DeliveryPromise.            *)

Phase(st) ==
    CASE st = "absent"      -> "absent"
      [] st = "suppressed"  -> "withheld"
      [] st \in Confirmed   -> "confirmed"
      [] st \in {"failed", "unknown"} -> "unconfirmed"
      [] OTHER              -> "open"

Promise == INSTANCE DeliveryPromise WITH
    Attempts <- 1..MaxAttempts,
    phase <- [d \in Deliveries |-> Phase(status[d])],
    taken <- accepted

\* Every behaviour of the queue, the sender and the provider is a behaviour of
\* the promise: each step maps to one of its steps or to a stutter.
KeepsPromise == Promise!Spec

-----------------------------------------------------------------------------
(* Liveness.                                                               *)

\* Every queued row is settled: sent, refused for good, withheld or marked
\* unknown after a crash.  It needs the outcome commits not to be lost.
EveryDeliverySettles ==
    \A d \in Deliveries :
        status[d] = "pending" ~> status[d] \in Confirmed \cup Final
=============================================================================
