---------------------------- MODULE OutboxProofs ----------------------------
(***************************************************************************)
(* Safety of Outbox for any number of users, rows, parts, attempts and     *)
(* crashes.  IInv is the inductive invariant.  Its heart is that all that  *)
(* the provider ever saw of a row belongs to the row's current attempt     *)
(* (LastAttemptOnly): a new attempt starts from nothing.                   *)
(***************************************************************************)
EXTENDS Outbox, TLAPS

\* Rows not inserted yet are blank; a queued row has an attempt left.
Rows ==
    /\ \A d \in Deliveries : d > created => status[d] = "absent"
    /\ \A d \in Deliveries : status[d] = "absent" => attempts[d] = 0
    /\ \A d \in Deliveries : status[d] \in Queued => attempts[d] < MaxAttempts

LastAttemptOnly ==
    \A r \in wire \cup accepted : r.attempt = attempts[r.delivery]

OfferedOnce == wire \cap accepted = {}

InOrder ==
    \A r \in wire \cup accepted, q \in 1..Parts :
        q < r.part => Request(r.delivery, r.attempt, q) \in accepted

\* What the sender knows of the row it holds.
SenderHolds ==
    LET d == sender.row
        current == Request(d, attempts[d], sender.part)
    IN  /\ sender.pc # "idle" =>
             /\ d \in Deliveries
             /\ status[d] = "sending"
             /\ attempts[d] \in 1..MaxAttempts
        /\ sender.pc = "adapter" =>
             /\ sender.reply = "none"
             /\ \A r \in wire \cup accepted : r.delivery # d
        /\ sender.pc = "wait" =>
             /\ sender.part \in 1..Parts
             /\ \A r \in wire \cup accepted : r.delivery = d => r.part <= sender.part
             /\ \A p \in 1..Parts : p < sender.part => Request(d, attempts[d], p) \in accepted
             /\ sender.reply = "ok" => current \in accepted
             /\ sender.reply \notin {"none", "ok"} => current \notin wire \cup accepted

Core ==
    /\ Rows
    /\ WithheldMeansUnsent
    /\ LastAttemptOnly
    /\ OfferedOnce
    /\ InOrder
    /\ SenderHolds
    /\ ConfirmedMeansComplete
    /\ RunMirrorsConfirmation

DownMeansIdle == ~up => sender.pc = "idle"

IInv == TypeOK /\ Core /\ DownMeansIdle
-----------------------------------------------------------------------------
(* Operators.                                                              *)

LEMMA VerdictType ==
    ASSUME NEW code, NEW a \in 0..MaxAttempts
    PROVE  /\ Verdict(code, a) \in {"retry", "unknown", "failed"}
           /\ Verdict(code, a) = "retry" => code = "RATE_LIMITED" /\ a < MaxAttempts
BY DEF Verdict

\* A rate limit is raised as such only for the first part.
LEMMA RaisedRateLimit ==
    ASSUME NEW reply \in Replies, NEW p \in 1..Parts,
           "RATE_LIMITED" \in Raised(reply, p)
    PROVE  reply = "rate_limited" /\ p = 1
BY BoundsAssumption DEF Raised, Replies

-----------------------------------------------------------------------------
(* Types.                                                                  *)

LEMMA TypeInit == Init => TypeOK
<1> SUFFICES ASSUME Init PROVE TypeOK
  OBVIOUS
<1> USE NoneAssumption, HouseholdsAssumption, ConnectionsAssumption, BoundsAssumption
<1>1. job \in [Deliveries -> Jobs]
  <2>1. PICK c \in Connections : c = CHOOSE e \in Connections : TRUE
    OBVIOUS
  <2>2. Unstamped("notice", c) \in Jobs
    BY DEF Unstamped, Jobs
  <2>3. QED
    BY <2>1, <2>2 DEF Init
<1>2. member \in [Users -> Members]
  BY DEF Init
<1>3. connection \in [Connections -> ConnectionStates]
  BY DEF Init, ConnectionStates
<1>4. sender \in SenderStates
  BY DEF Init, Idle, SenderStates, Replies
<1>5. status \in [Deliveries -> Statuses] /\ run \in [Deliveries -> RunStatuses]
  BY DEF Init, Statuses, RunStatuses
<1>6. QED
  BY <1>1, <1>2, <1>3, <1>4, <1>5 DEF Init, TypeOK

LEMMA EnqueueType ==
    ASSUME TypeOK, NEW j \in Jobs, NEW st \in {"none", "prepared"}, Enqueue(j, st),
           draft' \in Drafts \cup {NoDraft}
    PROVE  TypeOK'
<1>1. created + 1 \in Deliveries /\ created + 1 \in 0..MaxDeliveries
  BY BoundsAssumption DEF Enqueue, TypeOK, Deliveries
<1>2. job' \in [Deliveries -> Jobs]
  BY DEF Enqueue, TypeOK
<1>3. status' \in [Deliveries -> Statuses]
  BY DEF Enqueue, TypeOK, Statuses, Queued
<1>4. run' \in [Deliveries -> RunStatuses]
  BY DEF Enqueue, TypeOK, RunStatuses
<1>5. created' \in 0..MaxDeliveries
  BY <1>1 DEF Enqueue
<1>6. QED
  BY <1>2, <1>3, <1>4, <1>5 DEF Enqueue, TypeOK, faultVars, worldVars

LEMMA StampedType ==
    ASSUME TypeOK, NEW u \in Users, NEW c \in Connections, NEW k \in {"reply", "digest"}
    PROVE  Stamped(k, c, u) \in Jobs
BY DEF TypeOK, Members, Stamped, Jobs

\* A row that is settled or sent back to the queue keeps the types.
LEMMA FinishType ==
    ASSUME TypeOK, NEW d \in Deliveries,
           NEW st \in {"retry", "unknown", "failed", "accepted", "suppressed"},
           Finish(d, st), connection' \in [Connections -> ConnectionStates],
           UNCHANGED <<up, faultVars, member, optedIn, created, job, attempts, draft,
                       wire, accepted>>
    PROVE  TypeOK'
<1>1. status' \in [Deliveries -> Statuses]
  BY DEF Finish, TypeOK, Statuses, Queued, Confirmed, Final
<1>2. run' \in [Deliveries -> RunStatuses]
  BY DEF Finish, TypeOK, RunStatuses, Confirmed, Final
<1>3. sender' \in SenderStates
  BY BoundsAssumption DEF Finish, SenderStates, Idle, Replies
<1>4. backoff' \in SUBSET Deliveries
  BY DEF Finish, TypeOK
<1>5. QED
  BY <1>1, <1>2, <1>3, <1>4 DEF TypeOK, faultVars

LEMMA IssueType ==
    ASSUME TypeOK, NEW d \in Deliveries, NEW p \in 1..Parts,
           attempts[d] \in 1..MaxAttempts, Issue(d, p)
    PROVE  TypeOK'
<1>1. wire' \in SUBSET Requests
  BY DEF Issue, TypeOK, Request, Requests
<1>2. sender' \in SenderStates
  <2>1. sender \in SenderStates
    BY DEF TypeOK
  <2>2. p \in 0..Parts
    BY BoundsAssumption
  <2>3. sender' = [sender EXCEPT !.pc = "wait", !.part = p, !.reply = "none"]
    BY DEF Issue
  <2>4. QED
    BY <2>1, <2>2, <2>3 DEF SenderStates, Replies
<1>3. QED
  BY <1>1, <1>2 DEF Issue, TypeOK, faultVars, worldVars, queueVars

LEMMA TypeStep == IInv /\ [Next]_vars => TypeOK'
<1> SUFFICES ASSUME IInv, [Next]_vars PROVE TypeOK'
  OBVIOUS
<1> USE BoundsAssumption
<1>t. TypeOK
  BY DEF IInv
<1>1. ASSUME NEW u \in Users, NEW c \in Connections, SendText(u, c)
      PROVE  TypeOK'
  BY <1>t, <1>1, StampedType, EnqueueType DEF SendText, TypeOK
<1>2. ASSUME NEW u \in Users, NEW c \in Connections, ComposeDigest(u, c)
      PROVE  TypeOK'
  BY <1>t, <1>2 DEF ComposeDigest, TypeOK, Drafts, faultVars, worldVars, queueVars
<1>3. ASSUME NEW c \in Connections, SendNotice(c) \/ SendTest(c)
      PROVE  TypeOK'
  <2>1. Unstamped("notice", c) \in Jobs /\ Unstamped("test", c) \in Jobs
    BY DEF Unstamped, Jobs
  <2>2. draft' \in Drafts \cup {NoDraft}
    BY <1>t, <1>3 DEF SendNotice, SendTest, TypeOK
  <2>3. QED
    BY <1>t, <1>3, <2>1, <2>2, EnqueueType DEF SendNotice, SendTest
<1>4. ASSUME QueueDigest
      PROVE  TypeOK'
  <2>1. draft.user \in Users /\ draft.connection \in Connections
    BY <1>t, <1>4 DEF QueueDigest, TypeOK, Drafts
  <2>2. Stamped("digest", draft.connection, draft.user) \in Jobs
    BY <1>t, <2>1, StampedType
  <2>3. QED
    BY <1>t, <1>4, <2>2, EnqueueType DEF QueueDigest
<1>5. ASSUME NEW d \in Deliveries, RemoveMessage(d)
      PROVE  TypeOK'
  BY <1>t, <1>5 DEF RemoveMessage, TypeOK, Statuses, Final, faultVars, worldVars, queueVars
<1>6. ASSUME NEW u \in Users, Revoke(u)
      PROVE  TypeOK'
  <2>1. member' \in [Users -> Members]
    BY <1>t, <1>6 DEF Revoke, TypeOK, Members
  <2>2. status' \in [Deliveries -> Statuses]
    BY <1>t, <1>6 DEF Revoke, TypeOK, Statuses, Final
  <2>3. QED
    BY <1>t, <1>6, <2>1, <2>2 DEF Revoke, TypeOK, faultVars, queueVars
<1>7. ASSUME NEW u \in Users, NEW h \in Households, NEW b \in BOOLEAN,
             Join(u, h) \/ SetBanned(u, b)
      PROVE  TypeOK'
  <2>1. member' \in [Users -> Members]
    <3>1. member \in [Users -> Members] /\ member[u] \in Members
      BY <1>t DEF TypeOK
    <3>2. [member[u] EXCEPT !.active = TRUE, !.household = h] \in Members
      BY <3>1 DEF Members
    <3>3. [member[u] EXCEPT !.banned = b] \in Members
      BY <3>1 DEF Members
    <3>4. CASE Join(u, h)
      BY <3>1, <3>2, <3>4 DEF Join
    <3>5. CASE SetBanned(u, b)
      BY <3>1, <3>3, <3>5 DEF SetBanned
    <3>6. QED
      BY <1>7, <3>4, <3>5
  <2>2. QED
    BY <1>t, <1>7, <2>1 DEF Join, SetBanned, TypeOK, faultVars, queueVars
<1>8. ASSUME NEW u \in Users, NEW c \in Connections, NEW b \in BOOLEAN,
             SelectDestination(u, c, b)
      PROVE  TypeOK'
  BY <1>t, <1>8 DEF SelectDestination, TypeOK, faultVars, worldVars, queueVars
<1>9. ASSUME NEW c \in Connections, NEW b \in BOOLEAN,
             PatchConnection(c, b) \/ RotateCredentials(c) \/ CheckConnection(c)
      PROVE  TypeOK'
  <2>1. connection' \in [Connections -> ConnectionStates]
    <3>1. connection \in [Connections -> ConnectionStates]
          /\ connection[c] \in ConnectionStates
      BY <1>t DEF TypeOK
    <3>2. CASE PatchConnection(c, b)
      BY <3>1, <3>2 DEF PatchConnection, ConnectionStates
    <3>3. CASE RotateCredentials(c)
      BY <3>1, <3>3 DEF RotateCredentials, ConnectionStates
    <3>4. CASE CheckConnection(c)
      BY <3>1, <3>4 DEF CheckConnection, ConnectionStates
    <3>5. QED
      BY <1>9, <3>2, <3>3, <3>4
  <2>2. QED
    BY <1>t, <1>9, <2>1 DEF PatchConnection, RotateCredentials, CheckConnection,
                            TypeOK, faultVars, queueVars
<1>10. ASSUME NEW d \in Deliveries, SuppressOldest(d)
       PROVE  TypeOK'
  BY <1>t, <1>10 DEF SuppressOldest, TypeOK, Statuses, Final, faultVars, worldVars, queueVars
<1>11. ASSUME NEW d \in Deliveries, ClaimOldest(d)
       PROVE  TypeOK'
  <2>1. attempts' \in [Deliveries -> 0..MaxAttempts]
    BY <1>t, <1>11 DEF ClaimOldest, TypeOK, Oldest, Eligible, IInv, Core, Rows, Queued
  <2>2. connection[job[d].connection].revision \in 0..MaxRevision
    BY <1>t DEF TypeOK, Jobs, ConnectionStates
  <2>3. sender' \in SenderStates
    <3>1. sender' = [pc |-> "adapter", row |-> d, part |-> 0, reply |-> "none",
                     revision |-> connection[job[d].connection].revision]
      BY <1>11 DEF ClaimOldest, Idle
    <3>2. d \in 0..MaxDeliveries /\ 0 \in 0..Parts
      BY DEF Deliveries
    <3>3. QED
      BY <2>2, <3>1, <3>2 DEF SenderStates, Replies
  <2>4. status' \in [Deliveries -> Statuses]
    BY <1>t, <1>11 DEF ClaimOldest, TypeOK, Statuses
  <2>5. QED
    BY <1>t, <1>11, <2>1, <2>3, <2>4 DEF ClaimOldest, TypeOK, faultVars, worldVars
<1>12. ASSUME NEW d \in Deliveries, NEW code, Raise(d, code)
       PROVE  TypeOK'
  <2>1. Verdict(code, attempts[d]) \in {"retry", "unknown", "failed"}
    BY <1>t, VerdictType DEF TypeOK
  <2>2. connection' \in [Connections -> ConnectionStates]
    BY <1>t, <1>12 DEF Raise, TypeOK, ConnectionStates
  <2>3. QED
    BY <1>t, <1>12, <2>1, <2>2, FinishType DEF Raise
<1>13. ASSUME NEW r \in wire, NEW reply \in Replies,
              ProviderAccepts(r) \/ RequestLost(r) \/ ProviderRefuses(r, reply)
       PROVE  TypeOK'
  <2>1. sender' \in SenderStates
    BY <1>t, <1>13 DEF ProviderAccepts, RequestLost, ProviderRefuses, Answer, TypeOK,
                       SenderStates, Replies
  <2>2. QED
    BY <1>t, <1>13, <2>1 DEF ProviderAccepts, RequestLost, ProviderRefuses, TypeOK,
                             faultVars, worldVars, queueVars
<1>14. ASSUME NEW d \in Deliveries, NEW st \in {"delivered", "read", "failed"},
              Receipt(d, st)
       PROVE  TypeOK'
  BY <1>t, <1>14 DEF Receipt, TypeOK, Statuses, RunStatuses, Confirmed, Final, faultVars,
                     worldVars, queueVars
<1>15. ASSUME OutcomeLost \/ Crash
       PROVE  TypeOK'
  <2>1. sender' \in SenderStates
    BY <1>15 DEF OutcomeLost, Crash, Idle, SenderStates, Replies
  <2>2. crashes' \in 0..MaxCrashes /\ lockFailures' \in 0..MaxLockFailures
    BY <1>t, <1>15 DEF OutcomeLost, Crash, TypeOK
  <2>3. QED
    BY <1>t, <1>15, <2>1, <2>2 DEF OutcomeLost, Crash, TypeOK, worldVars, queueVars
<1>16. ASSUME Start
       PROVE  TypeOK'
  BY <1>t, <1>16 DEF Start, TypeOK, Statuses, Final, faultVars, worldVars, queueVars
<1>17. ASSUME NEW d \in Deliveries, BackoffElapses(d)
       PROVE  TypeOK'
  BY <1>t, <1>17 DEF BackoffElapses, TypeOK, faultVars, worldVars
<1>18. CASE Producers
  BY <1>18, <1>1, <1>2, <1>3, <1>4, <1>5 DEF Producers
<1>19. CASE Administration
  <2>1. CASE \E u \in Users : Revoke(u)
    BY <2>1, <1>6
  <2>2. CASE \/ \E u \in Users, h \in Households : Join(u, h)
             \/ \E u \in Users, b \in BOOLEAN : SetBanned(u, b)
    BY <2>2, <1>7, HouseholdsAssumption
  <2>3. CASE \E u \in Users, c \in Connections, b \in BOOLEAN : SelectDestination(u, c, b)
    BY <2>3, <1>8
  <2>4. CASE \/ \E c \in Connections, b \in BOOLEAN : PatchConnection(c, b)
             \/ \E c \in Connections : RotateCredentials(c) \/ CheckConnection(c)
    BY <2>4, <1>9
  <2>5. QED
    BY <1>19, <2>1, <2>2, <2>3, <2>4 DEF Administration
<1>20. CASE SenderStep
  <2>1. ASSUME sender.pc # "idle"
        PROVE  sender.row \in Deliveries /\ attempts[sender.row] \in 1..MaxAttempts
    BY <2>1 DEF IInv, Core, SenderHolds
  <2>2. CASE CallProvider
    BY <1>t, <2>1, <2>2, IssueType DEF CallProvider
  <2>3. CASE NextPart
    <3>1. sender.part + 1 \in 1..Parts
      BY <1>t, <2>3 DEF NextPart, IInv, Core, SenderHolds, TypeOK, SenderStates
    <3>2. QED
      BY <1>t, <2>1, <2>3, <3>1, IssueType DEF NextPart
  <2>4. CASE Complete \/ AdapterSuppresses
    BY <1>t, <2>1, <2>4, FinishType DEF Complete, AdapterSuppresses, worldVars, TypeOK
  <2>5. CASE AdapterFails \/ RecheckFails \/ DeliverFails
    BY <2>1, <2>5, <1>12 DEF AdapterFails, RecheckFails, DeliverFails
  <2>6. QED
    BY <1>20, <2>2, <2>3, <2>4, <2>5, <1>10, <1>11 DEF SenderStep
<1>21. CASE Provider
  BY <1>21, <1>13, <1>14 DEF Provider, Replies
<1>22. CASE Environment
  BY <1>22, <1>15, <1>16, <1>17 DEF Environment
<1>23. CASE UNCHANGED vars
  BY <1>t, <1>23 DEF TypeOK, vars, faultVars, worldVars, queueVars
<1>24. QED
  BY <1>18, <1>19, <1>20, <1>21, <1>22, <1>23 DEF Next

-----------------------------------------------------------------------------
(* The inductive step, by what a group of actions does to the rows.        *)

LEMMA RequestRecord ==
    ASSUME NEW r \in Requests
    PROVE  r = Request(r.delivery, r.attempt, r.part)
BY DEF Requests, Request

LEMMA RequestFields ==
    ASSUME NEW d, NEW a, NEW p
    PROVE  /\ Request(d, a, p).delivery = d
           /\ Request(d, a, p).attempt = a
           /\ Request(d, a, p).part = p
BY DEF Request

LEMMA CoreInit == Init => Core
<1> SUFFICES ASSUME Init PROVE Core
  OBVIOUS
<1> USE BoundsAssumption
<1>1. Rows
  BY DEF Init, Rows, Queued
<1>2. SenderHolds
  BY DEF Init, SenderHolds, Idle
<1>3. ConfirmedMeansComplete /\ RunMirrorsConfirmation
  BY DEF Init, ConfirmedMeansComplete, RunMirrorsConfirmation, Confirmed
<1>4. WithheldMeansUnsent /\ LastAttemptOnly /\ OfferedOnce /\ InOrder
  BY DEF Init, WithheldMeansUnsent, LastAttemptOnly, OfferedOnce, InOrder
<1>5. QED
  BY <1>1, <1>2, <1>3, <1>4 DEF Core

\* Actions on accounts, connections, drafts and timers.
LEMMA CoreUnchanged ==
    ASSUME Core, UNCHANGED <<created, status, attempts, run, sender, wire, accepted>>
    PROVE  Core'
BY DEF Core, Rows, WithheldMeansUnsent, LastAttemptOnly, OfferedOnce, InOrder, SenderHolds,
       ConfirmedMeansComplete, RunMirrorsConfirmation

\* A new row starts where nothing was.
LEMMA EnqueueCore ==
    ASSUME IInv, NEW j, NEW st \in {"none", "prepared"}, Enqueue(j, st)
    PROVE  Core'
<1> USE BoundsAssumption
<1> DEFINE n == created + 1
<1>1. TypeOK /\ Core
  BY DEF IInv
<1>2. /\ created \in Nat /\ n \in Deliveries
      /\ status' = [status EXCEPT ![n] = "pending"]
      /\ run' = [run EXCEPT ![n] = st]
      /\ created' = n
      /\ UNCHANGED <<attempts, sender, wire, accepted>>
  BY <1>1 DEF Enqueue, TypeOK, Deliveries
<1>3. status \in [Deliveries -> Statuses] /\ run \in [Deliveries -> RunStatuses]
  BY <1>1 DEF TypeOK
<1>4. status[n] = "absent" /\ attempts[n] = 0
  BY <1>1, <1>2 DEF Core, Rows
<1>5. Rows'
  BY <1>1, <1>2, <1>3, <1>4 DEF Core, Rows, Queued, Deliveries
<1>6. WithheldMeansUnsent'
  <2>1. ASSUME NEW r \in wire \cup accepted PROVE r.delivery # n
    BY <2>1, <1>1, <1>4 DEF Core, WithheldMeansUnsent
  <2>2. QED
    BY <2>1, <1>1, <1>2, <1>3 DEF Core, WithheldMeansUnsent
<1>7. (LastAttemptOnly /\ OfferedOnce /\ InOrder)'
  BY <1>1, <1>2 DEF Core, LastAttemptOnly, OfferedOnce, InOrder
<1>8. SenderHolds'
  BY <1>1, <1>2, <1>3, <1>4 DEF Core, SenderHolds
<1>9. ConfirmedMeansComplete'
  BY <1>1, <1>2, <1>3 DEF Core, ConfirmedMeansComplete, Confirmed
<1>10. RunMirrorsConfirmation'
  BY <1>1, <1>2, <1>3 DEF Core, RunMirrorsConfirmation, Confirmed
<1>11. QED
  BY <1>5, <1>6, <1>7, <1>8, <1>9, <1>10 DEF Core

\* Queued rows may be withdrawn.
LEMMA SuppressCore ==
    ASSUME IInv, status' \in [Deliveries -> Statuses],
           \A d \in Deliveries : \/ status'[d] = status[d]
                                 \/ status[d] \in Queued /\ status'[d] = "suppressed",
           UNCHANGED <<created, attempts, run, sender, wire, accepted>>
    PROVE  Core'
<1>1. TypeOK /\ Core
  BY DEF IInv
<1>2. Rows'
  BY <1>1 DEF Core, Rows, Queued
<1>3. WithheldMeansUnsent'
  <2>1. wire \cup accepted \subseteq Requests
    BY <1>1 DEF TypeOK
  <2>2. QED
    BY <1>1, <2>1 DEF Core, WithheldMeansUnsent, Requests
<1>4. (LastAttemptOnly /\ OfferedOnce /\ InOrder)'
  BY <1>1 DEF Core, LastAttemptOnly, OfferedOnce, InOrder
<1>5. SenderHolds'
  BY <1>1 DEF Core, SenderHolds, Queued
<1>6. ConfirmedMeansComplete'
  BY <1>1 DEF Core, ConfirmedMeansComplete, Confirmed
<1>7. RunMirrorsConfirmation'
  BY <1>1 DEF Core, RunMirrorsConfirmation, Confirmed, Queued
<1>8. QED
  BY <1>2, <1>3, <1>4, <1>5, <1>6, <1>7 DEF Core

LEMMA ClaimCore ==
    ASSUME IInv, NEW d \in Deliveries, ClaimOldest(d)
    PROVE  Core'
<1>1. TypeOK /\ Core
  BY DEF IInv
<1>2. /\ status[d] \in Queued
      /\ status' = [status EXCEPT ![d] = "sending"]
      /\ attempts' = [attempts EXCEPT ![d] = @ + 1]
      /\ sender'.pc = "adapter" /\ sender'.row = d /\ sender'.reply = "none"
      /\ UNCHANGED <<created, run, wire, accepted>>
  BY DEF ClaimOldest, Oldest, Eligible, Queued, Idle
<1>3. /\ status \in [Deliveries -> Statuses]
      /\ attempts \in [Deliveries -> 0..MaxAttempts]
      /\ wire \cup accepted \subseteq Requests
  BY <1>1 DEF TypeOK
<1>4. ASSUME NEW r \in wire \cup accepted
      PROVE  r.delivery # d /\ r.delivery \in Deliveries
  BY <1>1, <1>2, <1>3, <1>4 DEF Core, WithheldMeansUnsent, Requests
<1>5. Rows'
  BY <1>1, <1>2, <1>3 DEF Core, Rows, Queued
<1>6. WithheldMeansUnsent'
  BY <1>1, <1>2, <1>3, <1>4 DEF Core, WithheldMeansUnsent
<1>7. (LastAttemptOnly /\ OfferedOnce /\ InOrder)'
  <2>1. LastAttemptOnly'
    BY <1>1, <1>2, <1>3, <1>4 DEF Core, LastAttemptOnly
  <2>2. QED
    BY <1>1, <1>2, <2>1 DEF Core, OfferedOnce, InOrder
<1>8. SenderHolds'
  <2>1. attempts'[d] \in 1..MaxAttempts
    BY <1>1, <1>2, <1>3, BoundsAssumption DEF Core, Rows
  <2>2. QED
    BY <1>2, <1>3, <1>4, <2>1 DEF SenderHolds
<1>9. ConfirmedMeansComplete'
  BY <1>1, <1>2, <1>3 DEF Core, ConfirmedMeansComplete, Confirmed
<1>10. RunMirrorsConfirmation'
  BY <1>1, <1>2, <1>3 DEF Core, RunMirrorsConfirmation, Confirmed, Queued
<1>11. QED
  BY <1>5, <1>6, <1>7, <1>8, <1>9, <1>10 DEF Core

\* The sender settles its row or sends it back to the queue.
LEMMA FinishCore ==
    ASSUME IInv, NEW d \in Deliveries, d = sender.row, sender.pc # "idle",
           NEW st \in {"retry", "unknown", "failed", "accepted", "suppressed"},
           Finish(d, st), UNCHANGED <<created, attempts, wire, accepted>>,
           st \in {"retry", "suppressed"} => \A r \in wire \cup accepted : r.delivery # d,
           st = "retry" => attempts[d] < MaxAttempts,
           st = "accepted" => \A p \in 1..Parts : Request(d, attempts[d], p) \in accepted
    PROVE  Core'
<1>1. TypeOK /\ Core
  BY DEF IInv
<1>2. /\ status' = [status EXCEPT ![d] = st]
      /\ run' = [run EXCEPT ![d] = IF @ = "none" THEN @ ELSE st]
      /\ sender'.pc = "idle"
  BY DEF Finish, Idle
<1>3. /\ status \in [Deliveries -> Statuses] /\ run \in [Deliveries -> RunStatuses]
      /\ wire \cup accepted \subseteq Requests
      /\ status[d] = "sending"
  BY <1>1 DEF TypeOK, Core, SenderHolds
<1>4. Rows'
  BY <1>1, <1>2, <1>3 DEF Core, Rows, Queued
<1>5. WithheldMeansUnsent'
  BY <1>1, <1>2, <1>3 DEF Core, WithheldMeansUnsent, Queued, Requests
<1>6. (LastAttemptOnly /\ OfferedOnce /\ InOrder)'
  BY <1>1 DEF Core, LastAttemptOnly, OfferedOnce, InOrder
<1>7. SenderHolds'
  BY <1>2 DEF SenderHolds
<1>8. ConfirmedMeansComplete'
  BY <1>1, <1>2, <1>3 DEF Core, ConfirmedMeansComplete, Confirmed
<1>9. RunMirrorsConfirmation'
  BY <1>1, <1>2, <1>3 DEF Core, RunMirrorsConfirmation, Confirmed
<1>10. QED
  BY <1>4, <1>5, <1>6, <1>7, <1>8, <1>9 DEF Core

\* An error leaves the row retriable only when nothing of it was taken.
LEMMA RaiseCore ==
    ASSUME IInv, sender.pc # "idle", NEW code, Raise(sender.row, code),
           code = "RATE_LIMITED" =>
             \A r \in wire \cup accepted : r.delivery # sender.row
    PROVE  Core'
<1> DEFINE d == sender.row
           st == Verdict(code, attempts[d])
<1>1. d \in Deliveries /\ attempts[d] \in 0..MaxAttempts
  BY DEF IInv, Core, SenderHolds, TypeOK
<1>2. st \in {"retry", "unknown", "failed"}
      /\ (st = "retry" => code = "RATE_LIMITED" /\ attempts[d] < MaxAttempts)
  BY <1>1, VerdictType
<1>3. Finish(d, st) /\ UNCHANGED <<created, attempts, wire, accepted>>
  BY DEF Raise
<1> HIDE DEF st, d
<1>4. QED
  BY <1>1, <1>2, <1>3, FinishCore DEF d

LEMMA IssueCore ==
    ASSUME IInv, NEW p \in 1..Parts, Issue(sender.row, p),
           \/ sender.pc = "adapter" /\ p = 1
           \/ sender.pc = "wait" /\ sender.reply = "ok" /\ p = sender.part + 1
    PROVE  Core'
<1> DEFINE d == sender.row
           new == Request(d, attempts[d], p)
<1>1. TypeOK /\ Core
  BY DEF IInv
<1>2. /\ wire' = wire \cup {new}
      /\ sender' = [sender EXCEPT !.pc = "wait", !.part = p, !.reply = "none"]
      /\ UNCHANGED <<created, status, attempts, run, accepted>>
  BY DEF Issue, queueVars
<1>3. /\ sender \in SenderStates
      /\ wire \cup accepted \subseteq Requests
      /\ d \in Deliveries /\ status[d] = "sending" /\ attempts[d] \in 1..MaxAttempts
  BY <1>1 DEF TypeOK, Core, SenderHolds
<1>4. sender'.row = d /\ sender'.pc = "wait" /\ sender'.part = p /\ sender'.reply = "none"
  BY <1>2, <1>3 DEF SenderStates
<1>5. new.delivery = d /\ new.attempt = attempts[d] /\ new.part = p
  BY RequestFields
<1>6. ASSUME NEW r \in wire \cup accepted, r.delivery = d
      PROVE  r.part < p
  BY <1>6, <1>1, <1>3 DEF Core, SenderHolds, Requests
<1>7. ASSUME NEW q \in 1..Parts, q < p
      PROVE  Request(d, attempts[d], q) \in accepted
  BY <1>7, <1>1, <1>3, BoundsAssumption DEF Core, SenderHolds
<1> HIDE DEF new, d
<1>8. Rows' /\ ConfirmedMeansComplete' /\ RunMirrorsConfirmation'
  BY <1>1, <1>2 DEF Core, Rows, ConfirmedMeansComplete, RunMirrorsConfirmation
<1>9. WithheldMeansUnsent'
  BY <1>1, <1>2, <1>3, <1>5 DEF Core, WithheldMeansUnsent, Queued
<1>10. LastAttemptOnly'
  BY <1>1, <1>2, <1>5 DEF Core, LastAttemptOnly
<1>11. OfferedOnce'
  <2>1. new \notin accepted
    BY <1>5, <1>6
  <2>2. QED
    BY <1>1, <1>2, <2>1 DEF Core, OfferedOnce
<1>12. InOrder'
  BY <1>1, <1>2, <1>5, <1>7 DEF Core, InOrder
<1>13. SenderHolds'
  BY <1>1, <1>2, <1>3, <1>4, <1>5, <1>6, <1>7 DEF Core, SenderHolds, Requests
<1>14. QED
  BY <1>8, <1>9, <1>10, <1>11, <1>12, <1>13 DEF Core

\* The provider takes a request, refuses it or never gets it.
LEMMA ProviderCore ==
    ASSUME IInv, NEW r \in wire, NEW reply \in Replies \ {"none", "ok"},
           ProviderAccepts(r) \/ ProviderRefuses(r, reply) \/ RequestLost(r)
    PROVE  Core'
<1>1. TypeOK /\ Core
  BY DEF IInv
<1>2. /\ wire' = wire \ {r}
      /\ UNCHANGED <<created, status, attempts, run>>
      /\ \/ accepted' = accepted \cup {r} /\ Answer(r, "ok")
         \/ accepted' = accepted /\ Answer(r, reply)
         \/ accepted' = accepted /\ sender' = sender
  BY DEF ProviderAccepts, ProviderRefuses, RequestLost, queueVars
<1>3. /\ wire' \cup accepted' \subseteq wire \cup accepted
      /\ accepted \subseteq accepted'
      /\ wire \cup accepted \subseteq Requests
      /\ sender \in SenderStates
  BY <1>1, <1>2 DEF TypeOK
<1>4. Rows' /\ ConfirmedMeansComplete' /\ RunMirrorsConfirmation'
  BY <1>1, <1>2, <1>3 DEF Core, Rows, ConfirmedMeansComplete, RunMirrorsConfirmation
<1>5. WithheldMeansUnsent' /\ LastAttemptOnly'
  BY <1>1, <1>2, <1>3 DEF Core, WithheldMeansUnsent, LastAttemptOnly
<1>6. OfferedOnce'
  BY <1>1, <1>2 DEF Core, OfferedOnce
<1>7. InOrder'
  BY <1>1, <1>2, <1>3 DEF Core, InOrder
<1>8. SenderHolds'
  <2>1. /\ sender'.pc = sender.pc /\ sender'.row = sender.row /\ sender'.part = sender.part
        /\ sender'.reply # sender.reply => sender.pc = "wait"
    BY <1>2, <1>3 DEF Answer, Awaited, SenderStates
  <2>2. ASSUME sender.pc = "wait"
        PROVE  LET current == Request(sender.row, attempts[sender.row], sender.part)
               IN  /\ sender'.reply = "ok" => current \in accepted'
                   /\ sender'.reply \notin {"none", "ok"} =>
                        current \notin wire' \cup accepted'
    <3> DEFINE current == Request(sender.row, attempts[sender.row], sender.part)
    <3>1. CASE sender' = sender
      BY <3>1, <2>2, <1>1, <1>3 DEF Core, SenderHolds
    <3>2. CASE sender' # sender
      <4>1. r = current
        BY <3>2, <1>2 DEF Answer, Awaited
      <4>2. r \notin accepted
        BY <1>1 DEF Core, OfferedOnce
      <4>3. CASE accepted' = accepted \cup {r} /\ Answer(r, "ok")
        BY <4>1, <4>3, <3>2, <1>3 DEF Answer, SenderStates
      <4>4. CASE accepted' = accepted /\ Answer(r, reply)
        BY <4>1, <4>2, <4>4, <3>2, <1>2, <1>3 DEF Answer, SenderStates
      <4>5. QED
        BY <4>3, <4>4, <3>2, <1>2
    <3>3. QED
      BY <3>1, <3>2
  <2>3. QED
    BY <1>1, <1>2, <1>3, <2>1, <2>2 DEF Core, SenderHolds
<1>9. QED
  BY <1>4, <1>5, <1>6, <1>7, <1>8 DEF Core

LEMMA ReceiptCore ==
    ASSUME IInv, NEW d \in Deliveries, NEW st \in {"delivered", "read", "failed"},
           Receipt(d, st)
    PROVE  Core'
<1>1. TypeOK /\ Core
  BY DEF IInv
<1>2. /\ status' = [status EXCEPT ![d] = st]
      /\ run' = [run EXCEPT ![d] = IF @ = "none" THEN @ ELSE st]
      /\ status[d] \in Confirmed
      /\ UNCHANGED <<created, attempts, sender, wire, accepted>>
  BY DEF Receipt, queueVars
<1>3. status \in [Deliveries -> Statuses] /\ run \in [Deliveries -> RunStatuses]
  BY <1>1 DEF TypeOK
<1>4. Rows'
  BY <1>1, <1>2, <1>3 DEF Core, Rows, Queued, Confirmed
<1>5. WithheldMeansUnsent'
  BY <1>1, <1>2, <1>3 DEF Core, WithheldMeansUnsent, Queued, TypeOK, Requests
<1>6. (LastAttemptOnly /\ OfferedOnce /\ InOrder)'
  BY <1>1, <1>2 DEF Core, LastAttemptOnly, OfferedOnce, InOrder
<1>7. SenderHolds'
  BY <1>1, <1>2, <1>3 DEF Core, SenderHolds, Confirmed
<1>8. ConfirmedMeansComplete'
  BY <1>1, <1>2, <1>3 DEF Core, ConfirmedMeansComplete, Confirmed
<1>9. RunMirrorsConfirmation'
  BY <1>1, <1>2, <1>3 DEF Core, RunMirrorsConfirmation
<1>10. QED
  BY <1>4, <1>5, <1>6, <1>7, <1>8, <1>9 DEF Core

\* The sender is cut short; whatever it had sent stays where it is.
LEMMA IdleCore ==
    ASSUME IInv, sender' = Idle \/ sender' = sender,
           sender.pc = "idle" \/ sender' = Idle,
           status' \in [Deliveries -> Statuses],
           \A d \in Deliveries : \/ status'[d] = status[d]
                                 \/ status[d] = "sending" /\ status'[d] = "unknown",
           UNCHANGED <<created, attempts, run, wire, accepted>>
    PROVE  Core'
<1>1. TypeOK /\ Core
  BY DEF IInv
<1>2. Rows'
  BY <1>1 DEF Core, Rows, Queued
<1>3. WithheldMeansUnsent'
  <2>1. wire \cup accepted \subseteq Requests
    BY <1>1 DEF TypeOK
  <2>2. QED
    BY <1>1, <2>1 DEF Core, WithheldMeansUnsent, Requests, Queued
<1>4. (LastAttemptOnly /\ OfferedOnce /\ InOrder)'
  BY <1>1 DEF Core, LastAttemptOnly, OfferedOnce, InOrder
<1>5. SenderHolds'
  BY DEF SenderHolds, Idle
<1>6. ConfirmedMeansComplete'
  BY <1>1 DEF Core, ConfirmedMeansComplete, Confirmed
<1>7. RunMirrorsConfirmation'
  BY <1>1 DEF Core, RunMirrorsConfirmation, Confirmed
<1>8. QED
  BY <1>2, <1>3, <1>4, <1>5, <1>6, <1>7 DEF Core

\* A process that is down has no sender.
LEMMA DownStep == IInv /\ [Next]_vars => DownMeansIdle'
<1> SUFFICES ASSUME IInv, [Next]_vars PROVE DownMeansIdle'
  OBVIOUS
<1>1. DownMeansIdle /\ sender \in SenderStates
  BY DEF IInv, TypeOK
<1>2. CASE Producers
  BY <1>1, <1>2 DEF Producers, SendText, SendNotice, SendTest, ComposeDigest, QueueDigest,
                    RemoveMessage, Enqueue, DownMeansIdle
<1>3. CASE Administration
  BY <1>1, <1>3 DEF Administration, Revoke, Join, SetBanned, SelectDestination,
                    PatchConnection, RotateCredentials, CheckConnection, DownMeansIdle
<1>4. CASE SenderStep
  <2>1. ASSUME NEW d, SuppressOldest(d) \/ ClaimOldest(d) PROVE DownMeansIdle'
    BY <1>1, <2>1 DEF SuppressOldest, ClaimOldest, Oldest, DownMeansIdle
  <2>2. CASE CallProvider \/ NextPart
    BY <1>1, <2>2 DEF CallProvider, NextPart, Issue, DownMeansIdle
  <2>3. CASE AdapterFails \/ RecheckFails \/ AdapterSuppresses \/ Complete \/ DeliverFails
    BY <2>3 DEF AdapterFails, RecheckFails, AdapterSuppresses, Complete, DeliverFails, Raise,
                Finish, Idle, DownMeansIdle
  <2>4. QED
    BY <1>4, <2>1, <2>2, <2>3 DEF SenderStep
<1>5. CASE Provider
  BY <1>1, <1>5 DEF Provider, ProviderAccepts, ProviderRefuses, RequestLost, Receipt, Answer,
                    SenderStates, DownMeansIdle
<1>6. CASE Environment
  BY <1>1, <1>6 DEF Environment, OutcomeLost, Crash, Start, BackoffElapses, Idle, DownMeansIdle
<1>7. CASE UNCHANGED vars
  BY <1>1, <1>7 DEF vars, DownMeansIdle
<1>8. QED
  BY <1>2, <1>3, <1>4, <1>5, <1>6, <1>7 DEF Next

LEMMA CoreStep == IInv /\ [Next]_vars => Core'
<1> SUFFICES ASSUME IInv, [Next]_vars PROVE Core'
  OBVIOUS
<1> USE BoundsAssumption
<1>1. TypeOK /\ Core /\ DownMeansIdle
  BY DEF IInv
<1>2. TypeOK'
  BY TypeStep
<1>3. status' \in [Deliveries -> Statuses]
  BY <1>2 DEF TypeOK
<1>4. CASE Producers
  <2>1. ASSUME NEW u \in Users, NEW c \in Connections, SendText(u, c) PROVE Core'
    BY <2>1, EnqueueCore DEF SendText
  <2>2. ASSUME NEW u \in Users, NEW c \in Connections, ComposeDigest(u, c) PROVE Core'
    BY <2>2, <1>1, CoreUnchanged DEF ComposeDigest, queueVars
  <2>3. ASSUME NEW c \in Connections, SendNotice(c) \/ SendTest(c) PROVE Core'
    BY <2>3, EnqueueCore DEF SendNotice, SendTest
  <2>4. CASE QueueDigest
    BY <2>4, EnqueueCore DEF QueueDigest
  <2>5. ASSUME NEW d \in Deliveries, RemoveMessage(d) PROVE Core'
    <3>1. \A e \in Deliveries : \/ status'[e] = status[e]
                                \/ status[e] \in Queued /\ status'[e] = "suppressed"
      BY <2>5, <1>1 DEF RemoveMessage, TypeOK, Queued
    <3>2. QED
      BY <2>5, <3>1, <1>3, SuppressCore DEF RemoveMessage, queueVars
  <2>6. QED
    BY <1>4, <2>1, <2>2, <2>3, <2>4, <2>5 DEF Producers
<1>5. CASE Administration
  <2>1. ASSUME NEW u \in Users, Revoke(u) PROVE Core'
    <3>1. \A e \in Deliveries : \/ status'[e] = status[e]
                                \/ status[e] \in Queued /\ status'[e] = "suppressed"
      BY <2>1 DEF Revoke
    <3>2. QED
      BY <2>1, <3>1, <1>3, SuppressCore DEF Revoke, queueVars
  <2>2. ASSUME ~\E u \in Users : Revoke(u) PROVE Core'
    <3>1. UNCHANGED <<created, status, attempts, run, sender, wire, accepted>>
      BY <1>5, <2>2 DEF Administration, Join, SetBanned, SelectDestination, PatchConnection,
                        RotateCredentials, CheckConnection, queueVars
    <3>2. QED
      BY <3>1, <1>1, CoreUnchanged
  <2>3. QED
    BY <2>1, <2>2
<1>6. CASE SenderStep
  <2>1. ASSUME NEW d \in Deliveries, SuppressOldest(d) PROVE Core'
    <3>1. \A e \in Deliveries : \/ status'[e] = status[e]
                                \/ status[e] \in Queued /\ status'[e] = "suppressed"
      BY <2>1, <1>1 DEF SuppressOldest, Oldest, Eligible, TypeOK, Queued
    <3>2. QED
      BY <2>1, <3>1, <1>3, SuppressCore DEF SuppressOldest, queueVars
  <2>2. ASSUME NEW d \in Deliveries, ClaimOldest(d) PROVE Core'
    BY <2>2, ClaimCore
  <2>3. ASSUME sender.pc = "adapter"
        PROVE  sender.row \in Deliveries /\ \A r \in wire \cup accepted : r.delivery # sender.row
    BY <1>1, <2>3 DEF Core, SenderHolds
  <2>4. CASE AdapterFails \/ RecheckFails
    BY <2>3, <2>4, RaiseCore DEF AdapterFails, RecheckFails
  <2>5. CASE AdapterSuppresses
    BY <2>3, <2>5, FinishCore DEF AdapterSuppresses
  <2>6. CASE CallProvider
    BY <2>6, IssueCore DEF CallProvider
  <2>7. ASSUME sender.pc = "wait"
        PROVE  /\ sender.row \in Deliveries /\ sender.part \in 1..Parts
               /\ sender.reply \in Replies
    BY <1>1, <2>7 DEF Core, SenderHolds, TypeOK, SenderStates
  <2>8. CASE NextPart
    <3>1. sender.part + 1 \in 1..Parts
      BY <2>7, <2>8 DEF NextPart
    <3>2. QED
      BY <2>8, <3>1, IssueCore DEF NextPart
  <2>9. CASE Complete
    <3>1. \A p \in 1..Parts : Request(sender.row, attempts[sender.row], p) \in accepted
      BY <1>1, <2>9 DEF Complete, Core, SenderHolds
    <3>2. QED
      BY <2>7, <2>9, <3>1, FinishCore DEF Complete
  <2>10. CASE DeliverFails
    <3>1. PICK code \in Raised(sender.reply, sender.part) : Raise(sender.row, code)
      BY <2>10 DEF DeliverFails
    <3>2. sender.pc = "wait"
      BY <2>10 DEF DeliverFails
    <3>3. ASSUME code = "RATE_LIMITED", NEW r \in wire \cup accepted, r.delivery = sender.row
          PROVE  FALSE
      <4>1. sender.reply = "rate_limited" /\ sender.part = 1
        BY <2>7, <3>1, <3>2, <3>3, RaisedRateLimit
      <4>2. r \in Requests /\ r.part <= 1
        BY <1>1, <3>2, <3>3, <4>1 DEF Core, SenderHolds, TypeOK
      <4>3. r.attempt = attempts[sender.row] /\ r.part = 1
        BY <1>1, <3>3, <4>2 DEF Core, LastAttemptOnly, Requests
      <4>4. r = Request(sender.row, attempts[sender.row], sender.part)
        BY <3>3, <4>1, <4>2, <4>3, RequestRecord
      <4>5. QED
        BY <1>1, <3>2, <3>3, <4>1, <4>4 DEF Core, SenderHolds
    <3>4. QED
      BY <3>1, <3>2, <3>3, RaiseCore
  <2>11. QED
    BY <1>6, <2>1, <2>2, <2>4, <2>5, <2>6, <2>8, <2>9, <2>10 DEF SenderStep
<1>7. CASE Provider
  <2>1. ASSUME NEW r \in wire, ProviderAccepts(r) \/ RequestLost(r) PROVE Core'
    BY <2>1, ProviderCore DEF Replies
  <2>2. ASSUME NEW r \in wire, NEW reply \in Replies \ {"none", "ok"}, ProviderRefuses(r, reply)
        PROVE  Core'
    BY <2>2, ProviderCore
  <2>3. ASSUME NEW d \in Deliveries, NEW st \in {"delivered", "read", "failed"}, Receipt(d, st)
        PROVE  Core'
    BY <2>3, ReceiptCore
  <2>4. QED
    BY <1>7, <2>1, <2>2, <2>3 DEF Provider
<1>8. CASE Environment
  <2>1. CASE OutcomeLost \/ Crash
    BY <2>1, <1>3, IdleCore DEF OutcomeLost, Crash, queueVars
  <2>2. CASE Start
    <3>1. \A d \in Deliveries : \/ status'[d] = status[d]
                                \/ status[d] = "sending" /\ status'[d] = "unknown"
      BY <2>2 DEF Start
    <3>2. QED
      BY <2>2, <3>1, <1>1, <1>3, IdleCore DEF Start, queueVars, DownMeansIdle
  <2>3. ASSUME NEW d \in Deliveries, BackoffElapses(d) PROVE Core'
    BY <2>3, <1>1, CoreUnchanged DEF BackoffElapses
  <2>4. QED
    BY <1>8, <2>1, <2>2, <2>3 DEF Environment
<1>9. CASE UNCHANGED vars
  BY <1>9, <1>1, CoreUnchanged DEF vars, queueVars
<1>10. QED
  BY <1>4, <1>5, <1>6, <1>7, <1>8, <1>9 DEF Next

-----------------------------------------------------------------------------
(* Theorems.                                                               *)

\* The invariant is inductive.
THEOREM Inductive == Spec => []IInv
<1>1. Init => IInv
  BY TypeInit, CoreInit DEF IInv, DownMeansIdle, Init
<1>2. IInv /\ [Next]_vars => IInv'
  BY TypeStep, CoreStep, DownStep DEF IInv
<1>3. QED
  BY <1>1, <1>2, PTL DEF Spec

\* Every row, stamp, request and sender state stays in its type.
THEOREM TypeCorrect == Spec => []TypeOK
<1>1. IInv => TypeOK
  BY DEF IInv
<1>2. QED
  BY <1>1, Inductive, PTL

\* No chunk reaches the recipient twice: what is accepted of a row belongs to its
\* last attempt, and what is accepted is no longer on offer.
THEOREM SentOnce == Spec => []NoPartSentTwice
<1>1. IInv => NoPartSentTwice
  <2> SUFFICES ASSUME IInv, NEW r \in accepted, NEW s \in accepted \cup wire,
                      r.delivery = s.delivery, r.part = s.part
               PROVE  r = s /\ s \notin wire
    BY DEF NoPartSentTwice
  <2>1. r \in Requests /\ s \in Requests
    BY DEF IInv, TypeOK
  <2>2. r.attempt = s.attempt
    BY DEF IInv, Core, LastAttemptOnly
  <2>3. r = s
    BY <2>1, <2>2, RequestRecord
  <2>4. QED
    BY <2>3 DEF IInv, Core, OfferedOnce
<1>2. QED
  BY <1>1, Inductive, PTL

\* A queued or suppressed row was never offered to the provider.
THEOREM WithheldUnsent == Spec => []WithheldMeansUnsent
<1>1. IInv => WithheldMeansUnsent
  BY DEF IInv, Core
<1>2. QED
  BY <1>1, Inductive, PTL

\* A confirmed row was taken whole.
THEOREM ConfirmedComplete == Spec => []ConfirmedMeansComplete
<1>1. IInv => ConfirmedMeansComplete
  BY DEF IInv, Core
<1>2. QED
  BY <1>1, Inductive, PTL

\* A DigestRun and its row are confirmed together.
THEOREM RunsMirror == Spec => []RunMirrorsConfirmation
<1>1. IInv => RunMirrorsConfirmation
  BY DEF IInv, Core
<1>2. QED
  BY <1>1, Inductive, PTL

-----------------------------------------------------------------------------
(* What a step may never do.                                               *)

\* Only a receipt changes a settled row, and only upwards.
THEOREM SettledAdvances == Spec => SettledOnlyAdvances
<1> DEFINE Advances == \A d \in Deliveries :
              status[d] \in Confirmed \cup Final /\ status'[d] # status[d]
                => status[d] \in Confirmed /\ Rank(status'[d]) > Rank(status[d])
<1>1. IInv /\ [Next]_vars => Advances
  <2> SUFFICES ASSUME IInv, [Next]_vars, NEW d \in Deliveries,
                      status[d] \in Confirmed \cup Final, status'[d] # status[d]
               PROVE  status[d] \in Confirmed /\ Rank(status'[d]) > Rank(status[d])
    OBVIOUS
  <2>1. status \in [Deliveries -> Statuses]
    BY DEF IInv, TypeOK
  <2>2. status[d] \notin {"absent", "sending"} \cup Queued
    BY DEF Confirmed, Final, Queued
  <2>3. CASE \E e \in Deliveries, st \in {"delivered", "read", "failed"} : Receipt(e, st)
    BY <2>1, <2>3 DEF Receipt
  <2>4. CASE Producers
    <3>1. ASSUME NEW j, NEW st, Enqueue(j, st) PROVE FALSE
      <4>1. created + 1 # d
        BY <3>1, <2>2 DEF IInv, TypeOK, Core, Rows, Enqueue, Deliveries
      <4>2. QED
        BY <3>1, <4>1, <2>1 DEF Enqueue
    <3>2. QED
      BY <2>1, <2>2, <2>4, <3>1 DEF Producers, SendText, SendNotice, SendTest, ComposeDigest,
                                    QueueDigest, RemoveMessage, Queued
  <2>5. CASE Administration
    BY <2>1, <2>2, <2>5 DEF Administration, Revoke, Join, SetBanned, SelectDestination,
                            PatchConnection, RotateCredentials, CheckConnection, Queued
  <2>6. CASE SenderStep
    <3>1. sender.pc # "idle" => sender.row # d
      BY <2>2 DEF IInv, Core, SenderHolds
    <3>2. ASSUME NEW e \in Deliveries, SuppressOldest(e) \/ ClaimOldest(e) PROVE FALSE
      BY <2>1, <2>2, <3>2 DEF SuppressOldest, ClaimOldest, Oldest, Eligible, Queued
    <3>3. ASSUME NEW e, NEW st, e # d, Finish(e, st) PROVE FALSE
      BY <2>1, <3>3 DEF Finish
    <3>4. QED
      BY <2>6, <3>1, <3>2, <3>3 DEF SenderStep, AdapterFails, RecheckFails, AdapterSuppresses,
                                    CallProvider, NextPart, Complete, DeliverFails, Raise, Issue
  <2>7. CASE Provider /\ ~\E e \in Deliveries, st \in {"delivered", "read", "failed"} : Receipt(e, st)
    BY <2>7 DEF Provider, ProviderAccepts, ProviderRefuses, RequestLost
  <2>8. CASE Environment
    BY <2>2, <2>8 DEF Environment, OutcomeLost, Crash, Start, BackoffElapses
  <2>9. CASE UNCHANGED vars
    BY <2>9 DEF vars
  <2>10. QED
    BY <2>3, <2>4, <2>5, <2>6, <2>7, <2>8, <2>9 DEF Next
<1>2. QED
  BY <1>1, Inductive, PTL DEF Spec, SettledOnlyAdvances

\* The first chunk of a delivery is offered only while the owner's stamp, ban and
\* connection allow it.
THEOREM AuthorizedStart == Spec => NothingStartsUnauthorized
<1> DEFINE Allowed == \A r \in wire' \ wire : r.part = 1 =>
                         Authorized(r.delivery) /\ Reachable(r.delivery)
<1>1. IInv /\ [Next]_vars => Allowed
  <2> SUFFICES ASSUME IInv, [Next]_vars, NEW r \in wire' \ wire, r.part = 1
               PROVE  Authorized(r.delivery) /\ Reachable(r.delivery)
    OBVIOUS
  <2>1. CASE CallProvider
    <3>1. r.delivery = sender.row
      BY <2>1, RequestFields DEF CallProvider, Issue
    <3>2. QED
      BY <2>1, <3>1 DEF CallProvider, StillAllowed
  <2>2. CASE NextPart
    <3>1. r.part = sender.part + 1
      BY <2>2, RequestFields DEF NextPart, Issue
    <3>2. sender.part \in 1..Parts
      BY <2>2 DEF NextPart, IInv, Core, SenderHolds
    <3>3. QED
      BY <3>1, <3>2, BoundsAssumption
  <2>3. CASE wire' \subseteq wire
    BY <2>3
  <2>4. CASE Producers
    BY <2>3, <2>4 DEF Producers, SendText, SendNotice, SendTest, ComposeDigest, QueueDigest,
                      RemoveMessage, Enqueue
  <2>5. CASE Administration
    BY <2>3, <2>5 DEF Administration, Revoke, Join, SetBanned, SelectDestination,
                      PatchConnection, RotateCredentials, CheckConnection
  <2>6. CASE SenderStep
    BY <2>1, <2>2, <2>3, <2>6 DEF SenderStep, SuppressOldest, ClaimOldest, AdapterFails,
                      RecheckFails, AdapterSuppresses, Complete, DeliverFails, Raise
  <2>7. CASE Provider
    BY <2>3, <2>7 DEF Provider, ProviderAccepts, ProviderRefuses, RequestLost, Receipt
  <2>8. CASE Environment
    BY <2>3, <2>8 DEF Environment, OutcomeLost, Crash, Start, BackoffElapses
  <2>9. QED
    BY <2>3, <2>4, <2>5, <2>6, <2>7, <2>8 DEF Next, vars
<1>2. QED
  BY <1>1, Inductive, PTL DEF Spec, NothingStartsUnauthorized

-----------------------------------------------------------------------------
(* Stamps.                                                                 *)

\* A reply whose stamp is not live carries a generation the user has left behind.
ReplyStamps ==
    \A d \in Deliveries : job[d].kind = "reply" =>
        /\ d <= created
        /\ job[d].user \in Users
        /\ ~StampLive(d) => job[d].generation < member[job[d].user].generation

LEMMA ReplyStampsStep ==
    ASSUME TypeOK, TypeOK', ReplyStamps, [Next]_vars
    PROVE  /\ ReplyStamps'
           /\ \A d \in Deliveries : job[d].kind = "reply" /\ ~StampLive(d) => ~StampLive(d)'
<1> DEFINE Safe(d) == /\ d <= created
                      /\ job[d].user \in Users
                      /\ ~StampLive(d) => job[d].generation < member[job[d].user].generation
<1> USE NoneAssumption
<1>1. /\ member \in [Users -> Members] /\ job \in [Deliveries -> Jobs] /\ created \in Nat
      /\ member' \in [Users -> Members] /\ job' \in [Deliveries -> Jobs] /\ created' \in Nat
  BY DEF TypeOK
<1>2. ASSUME job' = job, created' = created,
             \A u \in Users :
                \/ member'[u].generation > member[u].generation
                \/ /\ member'[u].generation = member[u].generation
                   /\ member[u].active => /\ member'[u].active
                                          /\ member'[u].household = member[u].household
      PROVE  /\ ReplyStamps'
             /\ \A d \in Deliveries : job[d].kind = "reply" /\ ~StampLive(d) => ~StampLive(d)'
  <2> SUFFICES ASSUME NEW d \in Deliveries, job[d].kind = "reply"
               PROVE  Safe(d)' /\ (~StampLive(d) => ~StampLive(d)')
    BY <1>2 DEF ReplyStamps
  <2>1. Safe(d)
    BY DEF ReplyStamps
  <2>2. /\ job[d].generation \in Nat
        /\ member[job[d].user].generation \in Nat
        /\ member'[job[d].user].generation \in Nat
    BY <2>1, <1>1, BoundsAssumption DEF Jobs, Members
  <2>3. job[d].user # None
    BY <2>1
  <2>4. QED
    BY <1>2, <2>1, <2>2, <2>3 DEF StampLive
<1>3. ASSUME UNCHANGED <<member, job, created>>
      PROVE  /\ ReplyStamps'
             /\ \A d \in Deliveries : job[d].kind = "reply" /\ ~StampLive(d) => ~StampLive(d)'
  BY <1>3, <1>2
<1>4. ASSUME NEW j, Enqueue(j, "none") \/ Enqueue(j, "prepared"),
             j.kind = "reply" => /\ j.user \in Users
                                 /\ member[j.user].active
                                 /\ j.household = member[j.user].household
                                 /\ j.generation = member[j.user].generation
      PROVE  /\ ReplyStamps'
             /\ \A d \in Deliveries : job[d].kind = "reply" /\ ~StampLive(d) => ~StampLive(d)'
  <2>1. PICK n \in Deliveries : n = created + 1
    BY <1>1, <1>4, BoundsAssumption DEF Enqueue, Deliveries
  <2>2. /\ member' = member /\ created' = n
        /\ job'[n] = j
        /\ \A d \in Deliveries : d # n => job'[d] = job[d]
    BY <2>1, <1>1, <1>4 DEF Enqueue, worldVars
  <2>3. ASSUME NEW d \in Deliveries, job[d].kind = "reply"
        PROVE  Safe(d)' /\ (~StampLive(d) => ~StampLive(d)')
    <3>1. d \in Nat /\ Safe(d)
      BY <2>3 DEF ReplyStamps, Deliveries
    <3>2. d # n /\ d <= n
      BY <1>1, <2>1, <3>1
    <3>3. job'[d] = job[d] /\ (StampLive(d)' <=> StampLive(d))
      BY <2>2, <3>2 DEF StampLive
    <3>4. QED
      BY <2>2, <3>1, <3>2, <3>3
  <2>4. ASSUME job'[n].kind = "reply" PROVE Safe(n)'
    <3>1. StampLive(n)'
      BY <1>4, <2>2, <2>4 DEF StampLive
    <3>2. QED
      BY <1>1, <1>4, <2>2, <2>4, <3>1 DEF Deliveries
  <2>5. ASSUME NEW d \in Deliveries, job'[d].kind = "reply" PROVE Safe(d)'
    BY <2>2, <2>3, <2>4, <2>5
  <2>6. QED
    BY <2>3, <2>5 DEF ReplyStamps
<1>5. CASE \/ \E u \in Users, c \in Connections : SendText(u, c)
           \/ QueueDigest
           \/ \E c \in Connections : SendNotice(c) \/ SendTest(c)
  <2>1. ASSUME NEW u \in Users, NEW c \in Connections, SendText(u, c)
        PROVE  /\ Enqueue(Stamped("reply", c, u), "none")
               /\ Stamped("reply", c, u).user = u
               /\ member[u].active
               /\ Stamped("reply", c, u).household = member[u].household
               /\ Stamped("reply", c, u).generation = member[u].generation
    BY <2>1 DEF SendText, Serves, Stamped
  <2>2. CASE \E u \in Users, c \in Connections : SendText(u, c)
    BY <2>1, <2>2, <1>4
  <2>3. CASE QueueDigest
    <3>1. Stamped("digest", draft.connection, draft.user).kind # "reply"
      BY DEF Stamped
    <3>2. QED
      BY <2>3, <3>1, <1>4 DEF QueueDigest
  <2>4. CASE \E c \in Connections : SendNotice(c) \/ SendTest(c)
    <3>1. \A c \in Connections : /\ Unstamped("notice", c).kind # "reply"
                                 /\ Unstamped("test", c).kind # "reply"
      BY DEF Unstamped
    <3>2. QED
      BY <2>4, <3>1, <1>4 DEF SendNotice, SendTest
  <2>5. QED
    BY <1>5, <2>2, <2>3, <2>4
<1>6. CASE Producers
  <2>1. CASE \/ \E u \in Users, c \in Connections : ComposeDigest(u, c)
             \/ \E d \in Deliveries : RemoveMessage(d)
    BY <2>1, <1>3 DEF ComposeDigest, RemoveMessage, worldVars, queueVars
  <2>2. QED
    BY <1>5, <1>6, <2>1 DEF Producers
<1>7. CASE Administration
  <2>1. ASSUME NEW u \in Users, Revoke(u)
        PROVE  /\ job' = job /\ created' = created
               /\ member' = [member EXCEPT ![u].active = FALSE, ![u].generation = @ + 1]
    BY <2>1 DEF Revoke, queueVars
  <2>2. ASSUME NEW u \in Users, NEW h \in Households, Join(u, h)
        PROVE  /\ job' = job /\ created' = created /\ ~member[u].active
               /\ member' = [member EXCEPT ![u].active = TRUE, ![u].household = h]
    BY <2>2 DEF Join, queueVars
  <2>3. ASSUME NEW u \in Users, NEW b \in BOOLEAN, SetBanned(u, b)
        PROVE  /\ job' = job /\ created' = created
               /\ member' = [member EXCEPT ![u].banned = b]
    BY <2>3 DEF SetBanned, queueVars
  <2>4. CASE \E u \in Users : Revoke(u)
    <3>1. PICK u \in Users : Revoke(u)
      BY <2>4
    <3>2. member[u].generation \in Nat
      BY <1>1, BoundsAssumption DEF Members
    <3>3. member'[u].generation > member[u].generation
      <4>1. \A m \in Members :
              [m EXCEPT !.active = FALSE, !.generation = @ + 1].generation = m.generation + 1
        BY DEF Members
      <4>2. member'[u] = [member[u] EXCEPT !.active = FALSE, !.generation = @ + 1]
        BY <1>1, <2>1, <3>1
      <4>3. QED
        BY <1>1, <3>2, <4>1, <4>2
    <3>4. \A v \in Users : v # u => member'[v] = member[v]
      BY <1>1, <2>1, <3>1
    <3>5. QED
      BY <1>2, <2>1, <3>1, <3>3, <3>4
  <2>5. CASE \E u \in Users, h \in Households : Join(u, h)
    <3>1. PICK u \in Users, h \in Households : Join(u, h)
      BY <2>5
    <3>2. member'[u].generation = member[u].generation /\ ~member[u].active
      <4>1. \A m \in Members :
              [m EXCEPT !.active = TRUE, !.household = h].generation = m.generation
        BY DEF Members
      <4>2. member' = [member EXCEPT ![u].active = TRUE, ![u].household = h]
        BY <2>2, <3>1
      <4>3. member'[u] = [member[u] EXCEPT !.active = TRUE, !.household = h]
        BY <1>1, <4>2
      <4>4. ~member[u].active
        BY <2>2, <3>1
      <4>5. QED
        BY <1>1, <4>1, <4>3, <4>4
    <3>3. \A v \in Users : v # u => member'[v] = member[v]
      BY <1>1, <2>2, <3>1
    <3>4. QED
      BY <1>2, <2>2, <3>1, <3>2, <3>3
  <2>6. CASE \E u \in Users, b \in BOOLEAN : SetBanned(u, b)
    <3>1. PICK u \in Users, b \in BOOLEAN : SetBanned(u, b)
      BY <2>6
    <3>2. /\ member'[u].generation = member[u].generation
          /\ member'[u].active = member[u].active
          /\ member'[u].household = member[u].household
      BY <1>1, <2>3, <3>1 DEF Members
    <3>3. \A v \in Users : v # u => member'[v] = member[v]
      BY <1>1, <2>3, <3>1
    <3>4. QED
      BY <1>2, <2>3, <3>1, <3>2, <3>3
  <2>7. CASE \/ \E u \in Users, c \in Connections, b \in BOOLEAN : SelectDestination(u, c, b)
             \/ \E c \in Connections, b \in BOOLEAN : PatchConnection(c, b)
             \/ \E c \in Connections : RotateCredentials(c) \/ CheckConnection(c)
    BY <2>7, <1>3 DEF SelectDestination, PatchConnection, RotateCredentials, CheckConnection,
                      queueVars
  <2>8. QED
    BY <1>7, <2>4, <2>5, <2>6, <2>7 DEF Administration
<1>8. CASE SenderStep
  BY <1>8, <1>3 DEF SenderStep, SuppressOldest, ClaimOldest, AdapterFails, RecheckFails,
                    AdapterSuppresses, CallProvider, NextPart, Complete, DeliverFails, Raise,
                    Issue, worldVars, queueVars
<1>9. CASE Provider
  BY <1>9, <1>3 DEF Provider, ProviderAccepts, ProviderRefuses, RequestLost, Receipt, worldVars,
                    queueVars
<1>10. CASE Environment
  BY <1>10, <1>3 DEF Environment, OutcomeLost, Crash, Start, BackoffElapses, worldVars, queueVars
<1>11. CASE UNCHANGED vars
  BY <1>11, <1>3 DEF vars, worldVars, queueVars
<1>12. QED
  BY <1>6, <1>7, <1>8, <1>9, <1>10, <1>11 DEF Next

\* A reply that leaving the household made undeliverable stays so after a rejoin.
THEOREM RevokedStaysRevoked == Spec => RevokedReplyNeverRevives
<1>1. Init => ReplyStamps
  BY DEF Init, ReplyStamps, Unstamped
<1>2. TypeOK /\ TypeOK' /\ ReplyStamps /\ [Next]_vars
        => /\ ReplyStamps'
           /\ \A d \in Deliveries : job[d].kind = "reply" /\ ~StampLive(d) => ~StampLive(d)'
  BY ReplyStampsStep
<1>3. QED
  BY <1>1, <1>2, TypeCorrect, PTL DEF Spec, RevokedReplyNeverRevives

-----------------------------------------------------------------------------
(* Outbox implements DeliveryPromise.                                      *)
(* A step of the queue, the sender or the provider moves the phases of the *)
(* rows it settles or withdraws, is the provider taking a part, or is a    *)
(* stutter; the inductive invariant supplies what the promise's guards ask *)
(* for.                                                                    *)

LEMMA PhaseMoves ==
    ASSUME NEW D \in SUBSET Deliveries, NEW from, NEW to,
           \A d \in D : Phase(status[d]) = from /\ Phase(status'[d]) = to,
           \A d \in Deliveries \ D : Phase(status'[d]) = Phase(status[d])
    PROVE  Promise!Move(D, from, to)
BY DEF Promise!Move

LEMMA PhaseKept ==
    ASSUME \A d \in Deliveries : Phase(status'[d]) = Phase(status[d]), accepted' = accepted
    PROVE  UNCHANGED Promise!vars
BY DEF Promise!vars

\* A row in one of the open statuses was not confirmed, refused or withheld yet.
LEMMA PhaseOf ==
    ASSUME NEW st \in Statuses
    PROVE  /\ st \in Queued \cup {"sending"} => Phase(st) = "open"
           /\ st = "absent" => Phase(st) = "absent"
           /\ st = "suppressed" => Phase(st) = "withheld"
           /\ st \in Confirmed => Phase(st) = "confirmed"
           /\ st \in {"failed", "unknown"} => Phase(st) = "unconfirmed"
BY DEF Phase, Statuses, Queued, Confirmed, Final

LEMMA WithholdStep ==
    ASSUME IInv, status' \in [Deliveries -> Statuses], accepted' = accepted,
           \A d \in Deliveries :
              \/ status'[d] = status[d]
              \/ /\ status[d] \in Queued \cup {"sending"}
                 /\ status'[d] = "suppressed"
                 /\ \A r \in accepted : r.delivery # d
    PROVE  Promise!Next
<1> DEFINE D == {d \in Deliveries : status'[d] # status[d]}
<1>1. status \in [Deliveries -> Statuses]
  BY DEF IInv, TypeOK
<1>2. Promise!Move(D, "open", "withheld")
  BY <1>1, PhaseOf, PhaseMoves
<1>3. \A d \in D : Promise!Untaken(d)
  BY DEF Promise!Untaken
<1>4. Promise!Withhold(D)
  BY <1>2, <1>3 DEF Promise!Withhold
<1>5. D \in SUBSET Deliveries
  OBVIOUS
<1> HIDE DEF D
<1>6. QED
  BY <1>4, <1>5 DEF Promise!Next

LEMMA SubmitStep ==
    ASSUME IInv, TypeOK', NEW j, NEW st, Enqueue(j, st)
    PROVE  Promise!Next
<1>1. PICK n \in Deliveries : n = created + 1
  BY BoundsAssumption DEF IInv, TypeOK, Enqueue, Deliveries
<1>2. status[n] = "absent" /\ status \in [Deliveries -> Statuses]
  BY <1>1 DEF IInv, TypeOK, Core, Rows
<1>3. /\ status' = [status EXCEPT ![n] = "pending"] /\ accepted' = accepted
      /\ status' \in [Deliveries -> Statuses]
  BY <1>1 DEF Enqueue, TypeOK
<1>4. Promise!Move({n}, "absent", "open")
  <2>1. \A d \in {n} : Phase(status[d]) = "absent" /\ Phase(status'[d]) = "open"
    BY <1>2, <1>3, PhaseOf DEF Queued
  <2>2. \A d \in Deliveries \ {n} : Phase(status'[d]) = Phase(status[d])
    BY <1>2, <1>3
  <2>3. QED
    BY <2>1, <2>2, PhaseMoves
<1>5. QED
  BY <1>3, <1>4 DEF Promise!Next, Promise!Submit

\* What the sender makes of its row: nothing yet, an honest withdrawal, a
\* confirmation or an admission that it does not know.
LEMMA FinishStep ==
    ASSUME IInv, TypeOK', NEW d \in Deliveries, d = sender.row, sender.pc # "idle",
           NEW st \in {"retry", "unknown", "failed", "accepted", "suppressed"},
           Finish(d, st), accepted' = accepted,
           st = "suppressed" => \A r \in accepted : r.delivery # d,
           st = "accepted" => \A p \in 1..Parts : Request(d, attempts[d], p) \in accepted
    PROVE  Promise!Next \/ UNCHANGED Promise!vars
<1>1. /\ status \in [Deliveries -> Statuses] /\ status' \in [Deliveries -> Statuses]
      /\ status[d] = "sending" /\ attempts[d] \in 1..MaxAttempts
  BY DEF IInv, TypeOK, Core, SenderHolds
<1>2. status' = [status EXCEPT ![d] = st]
  BY DEF Finish
<1>3. Phase(status[d]) = "open" /\ \A e \in Deliveries \ {d} : Phase(status'[e]) = Phase(status[e])
  BY <1>1, <1>2, PhaseOf
<1>4. CASE st = "retry"
  <2>1. Phase(status'[d]) = "open"
    BY <1>1, <1>2, <1>4, PhaseOf DEF Queued
  <2>2. QED
    BY <1>3, <2>1, PhaseKept
<1>5. CASE st = "suppressed"
  BY <1>1, <1>2, <1>5, WithholdStep
<1>6. CASE st \in {"unknown", "failed"}
  <2>1. Phase(status'[d]) = "unconfirmed"
    BY <1>1, <1>2, <1>6, PhaseOf
  <2>2. Promise!Move({d}, "open", "unconfirmed")
    BY <1>3, <2>1, PhaseMoves
  <2>3. QED
    BY <2>2 DEF Promise!Next, Promise!GiveUp
<1>7. CASE st = "accepted"
  <2>1. Phase(status'[d]) = "confirmed"
    BY <1>1, <1>2, <1>7, PhaseOf DEF Confirmed
  <2>2. Promise!Move({d}, "open", "confirmed")
    BY <1>3, <2>1, PhaseMoves
  <2>3. Promise!Confirm(d)
    BY <1>1, <1>7, <2>2 DEF Promise!Confirm, Request
  <2>4. QED
    BY <2>3 DEF Promise!Next
<1>8. QED
  BY <1>4, <1>5, <1>6, <1>7

LEMMA RaiseStep ==
    ASSUME IInv, TypeOK', sender.pc # "idle", NEW code, Raise(sender.row, code)
    PROVE  Promise!Next \/ UNCHANGED Promise!vars
<1>1. PICK d \in Deliveries : d = sender.row
  BY DEF IInv, Core, SenderHolds
<1>2. attempts[d] \in 0..MaxAttempts
  BY DEF IInv, TypeOK
<1>3. Verdict(code, attempts[d]) \in {"retry", "unknown", "failed"}
  BY <1>2, VerdictType
<1>4. Finish(d, Verdict(code, attempts[d])) /\ accepted' = accepted
  BY <1>1 DEF Raise
<1>5. QED
  BY <1>1, <1>3, <1>4, FinishStep

\* The provider takes a part that nobody took before, after all earlier ones.
LEMMA TakeStep ==
    ASSUME IInv, NEW r \in wire, ProviderAccepts(r)
    PROVE  Promise!Next
<1>1. TypeOK /\ Core
  BY DEF IInv
<1>2. /\ wire \cup accepted \subseteq Requests /\ r \in Requests
      /\ status \in [Deliveries -> Statuses]
  BY <1>1 DEF TypeOK
<1>3. r.delivery \in Deliveries /\ r.part \in 1..Parts /\ r.attempt \in 1..MaxAttempts
  BY <1>2 DEF Requests
<1>4. r \notin accepted /\ r.attempt = attempts[r.delivery]
  BY <1>1 DEF Core, OfferedOnce, LastAttemptOnly
<1>5. \A s \in accepted : s.delivery = r.delivery => s.part # r.part
  <2> SUFFICES ASSUME NEW s \in accepted, s.delivery = r.delivery, s.part = r.part PROVE FALSE
    OBVIOUS
  <2>1. s.attempt = r.attempt
    BY <1>1, <1>4 DEF Core, LastAttemptOnly
  <2>2. QED
    BY <1>2, <1>4, <2>1, RequestRecord
<1>6. Phase(status[r.delivery]) \in {"open", "unconfirmed"}
  <2>1. status[r.delivery] \notin Queued \cup {"absent", "suppressed"}
    BY <1>1 DEF Core, WithheldMeansUnsent
  <2>2. status[r.delivery] \notin Confirmed
    <3>1. ASSUME status[r.delivery] \in Confirmed PROVE Request(r.delivery, r.attempt, r.part) \in accepted
      BY <1>1, <1>3, <1>4, <3>1 DEF Core, ConfirmedMeansComplete
    <3>2. QED
      BY <1>2, <1>4, <3>1, RequestRecord
  <2>3. status[r.delivery] \in {"sending", "failed", "unknown"}
    BY <1>2, <1>3, <2>1, <2>2 DEF Statuses, Final
  <2>4. QED
    BY <1>2, <1>3, <2>3, PhaseOf
<1>7. \A q \in 1..Parts : q < r.part => [r EXCEPT !.part = q] \in accepted
  <2>1. \A q \in 1..Parts : [r EXCEPT !.part = q] = Request(r.delivery, r.attempt, q)
    BY <1>2 DEF Requests, Request
  <2>2. QED
    BY <1>1, <2>1 DEF Core, InOrder
<1>8. accepted' = accepted \cup {r} /\ status' = status
  BY DEF ProviderAccepts
<1>9. Promise!Take(r)
  BY <1>3, <1>5, <1>6, <1>7, <1>8 DEF Promise!Take
<1>10. r \in Promise!Requests
  BY <1>2 DEF Promise!Requests, Requests
<1>11. QED
  BY <1>9, <1>10 DEF Promise!Next

LEMMA ReceiptStep ==
    ASSUME IInv, TypeOK', NEW d \in Deliveries, NEW st \in {"delivered", "read", "failed"},
           Receipt(d, st)
    PROVE  Promise!Next \/ UNCHANGED Promise!vars
<1>1. /\ status \in [Deliveries -> Statuses] /\ status' \in [Deliveries -> Statuses]
      /\ status[d] \in Confirmed
      /\ status' = [status EXCEPT ![d] = st] /\ accepted' = accepted
  BY DEF IInv, TypeOK, Receipt
<1>2. Phase(status[d]) = "confirmed"
      /\ \A e \in Deliveries \ {d} : Phase(status'[e]) = Phase(status[e])
  BY <1>1, PhaseOf
<1>3. CASE st \in {"delivered", "read"}
  <2>1. Phase(status'[d]) = "confirmed"
    BY <1>1, <1>3, PhaseOf DEF Confirmed
  <2>2. QED
    BY <1>1, <1>2, <2>1, PhaseKept
<1>4. CASE st = "failed"
  <2>1. Phase(status'[d]) = "unconfirmed"
    BY <1>1, <1>4, PhaseOf
  <2>2. Promise!Move({d}, "confirmed", "unconfirmed")
    BY <1>2, <2>1, PhaseMoves
  <2>3. QED
    BY <1>1, <2>2 DEF Promise!Next, Promise!Bounce
<1>5. QED
  BY <1>3, <1>4

LEMMA PromiseStep ==
    IInv /\ TypeOK' /\ [Next]_vars => [Promise!Next]_(Promise!vars)
<1> SUFFICES ASSUME IInv, TypeOK', [Next]_vars
             PROVE  Promise!Next \/ UNCHANGED Promise!vars
  OBVIOUS
<1>1. TypeOK /\ Core
  BY DEF IInv
<1>2. status \in [Deliveries -> Statuses] /\ status' \in [Deliveries -> Statuses]
  BY <1>1 DEF TypeOK
<1>3. CASE UNCHANGED <<status, accepted>>
  BY <1>3, PhaseKept
<1>4. ASSUME NEW d \in Deliveries, status[d] \in Queued
      PROVE  \A r \in accepted : r.delivery # d
  BY <1>1, <1>4 DEF Core, WithheldMeansUnsent
<1>5. CASE Producers
  <2>1. ASSUME NEW d \in Deliveries, RemoveMessage(d) PROVE Promise!Next
    BY <2>1, <1>2, <1>4, WithholdStep DEF RemoveMessage, Queued
  <2>2. QED
    BY <1>3, <1>5, <2>1, SubmitStep DEF Producers, SendText, ComposeDigest, SendNotice, SendTest,
                                        QueueDigest
<1>6. CASE Administration
  <2>1. ASSUME NEW u \in Users, Revoke(u) PROVE Promise!Next
    BY <2>1, <1>2, <1>4, WithholdStep DEF Revoke
  <2>2. QED
    BY <1>3, <1>6, <2>1 DEF Administration, Join, SetBanned, SelectDestination,
                            PatchConnection, RotateCredentials, CheckConnection
<1>7. CASE SenderStep
  <2>1. ASSUME NEW d \in Deliveries, SuppressOldest(d) PROVE Promise!Next
    <3>1. status[d] \in Queued /\ status' = [status EXCEPT ![d] = "suppressed"] /\ accepted' = accepted
      BY <2>1 DEF SuppressOldest, Oldest, Eligible, Queued
    <3>2. QED
      BY <3>1, <1>2, <1>4, WithholdStep
  <2>2. ASSUME NEW d \in Deliveries, ClaimOldest(d) PROVE UNCHANGED Promise!vars
    <3>1. /\ status[d] \in Queued /\ status' = [status EXCEPT ![d] = "sending"]
          /\ accepted' = accepted
      BY <2>2 DEF ClaimOldest, Oldest, Eligible, Queued
    <3>2. Phase(status[d]) = "open" /\ Phase(status'[d]) = "open"
      BY <3>1, <1>2, PhaseOf
    <3>3. QED
      BY <3>1, <3>2, <1>2, PhaseKept
  <2>3. sender.pc # "idle" => sender.row \in Deliveries
    BY <1>1 DEF Core, SenderHolds
  <2>4. CASE AdapterFails \/ RecheckFails \/ DeliverFails
    BY <2>4, RaiseStep DEF AdapterFails, RecheckFails, DeliverFails
  <2>5. CASE AdapterSuppresses
    <3>1. \A r \in accepted : r.delivery # sender.row
      BY <1>1, <2>5 DEF AdapterSuppresses, Core, SenderHolds
    <3>2. QED
      BY <2>3, <2>5, <3>1, FinishStep DEF AdapterSuppresses
  <2>6. CASE CallProvider \/ NextPart
    BY <1>3, <2>6 DEF CallProvider, NextPart, Issue
  <2>7. CASE Complete
    <3>1. \A p \in 1..Parts : Request(sender.row, attempts[sender.row], p) \in accepted
      BY <1>1, <2>7, BoundsAssumption DEF Complete, Core, SenderHolds
    <3>2. QED
      BY <2>3, <2>7, <3>1, FinishStep DEF Complete
  <2>8. QED
    BY <1>7, <2>1, <2>2, <2>4, <2>5, <2>6, <2>7 DEF SenderStep
<1>8. CASE Provider
  BY <1>3, <1>8, TakeStep, ReceiptStep DEF Provider, ProviderRefuses, RequestLost
<1>9. CASE Environment
  <2>1. CASE Start
    <3> DEFINE D == {d \in Deliveries : status[d] = "sending"}
    <3>1. accepted' = accepted /\ \A d \in Deliveries :
             status'[d] = IF status[d] = "sending" THEN "unknown" ELSE status[d]
      BY <2>1 DEF Start
    <3>2. Promise!Move(D, "open", "unconfirmed")
      <4>1. \A d \in D : Phase(status[d]) = "open" /\ Phase(status'[d]) = "unconfirmed"
        BY <3>1, <1>2, PhaseOf
      <4>2. \A d \in Deliveries \ D : Phase(status'[d]) = Phase(status[d])
        BY <3>1
      <4>3. QED
        BY <4>1, <4>2, PhaseMoves
    <3>3. D \in SUBSET Deliveries
      OBVIOUS
    <3> HIDE DEF D
    <3>4. QED
      BY <3>1, <3>2, <3>3 DEF Promise!Next, Promise!GiveUp
  <2>2. QED
    BY <1>3, <1>9, <2>1 DEF Environment, OutcomeLost, Crash, BackoffElapses
<1>10. CASE UNCHANGED vars
  BY <1>3, <1>10 DEF vars
<1>11. QED
  BY <1>5, <1>6, <1>7, <1>8, <1>9, <1>10 DEF Next

\* The queue, the sender and the provider together implement DeliveryPromise.
THEOREM Refines == Spec => KeepsPromise
<1>1. Init => Promise!Init
  <2> SUFFICES ASSUME Init PROVE Promise!Init
    OBVIOUS
  <2>1. \A d \in Deliveries : Phase(status[d]) = "absent"
    BY PhaseOf DEF Init, Statuses
  <2>2. QED
    BY <2>1 DEF Init, Promise!Init
<1>2. IInv /\ TypeOK' /\ [Next]_vars => [Promise!Next]_(Promise!vars)
  BY PromiseStep
<1>3. QED
  BY <1>1, <1>2, Inductive, TypeCorrect, PTL DEF Spec, KeepsPromise, Promise!Spec
=============================================================================
