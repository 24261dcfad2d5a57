----------------------------- MODULE InboxProofs ------------------------------
(***************************************************************************)
(* Safety of Inbox for any number of events, users, commits, crashes and   *)
(* revocations.  IInv is the inductive invariant: an event in the worker's *)
(* hands is processing and was taken once, and an overtaken workflow's     *)
(* stamp is older than its member's generation.                            *)
(***************************************************************************)
EXTENDS Inbox, FiniteSetTheorems, TLAPS

TakenOnce ==
    \A e \in Events : /\ inbox[e].attempts <= 1
                      /\ inbox[e].status \in {"none", "pending"} => inbox[e].attempts = 0

InHand == worker.at \in {"taken", "running"} => inbox[worker.event].status = "processing"

\* Generations only grow, so a stamp that a revocation left behind stays behind.
StampAges ==
    worker.at = "running" =>
        LET current == member[wire[worker.event].user].generation
        IN  /\ worker.generation <= current
            /\ worker.overtaken => worker.generation < current

IInv == TypeOK /\ TakenOnce /\ InHand /\ StampAges /\ NothingLost
-----------------------------------------------------------------------------
(* Operators.                                                              *)

LEMMA RankType == Cardinality(Rows) \in Nat
<1>1. Rows \in SUBSET Events
  BY DEF Rows
<1>2. IsFiniteSet(Rows)
  BY <1>1, EventsAssumption, FS_Subset
<1>3. QED
  BY <1>2, FS_CardinalityType

\* What the worker holds, by where it is.
LEMMA WorkerShape ==
    ASSUME TypeOK
    PROVE  /\ worker.at \in {"waiting", "dead", "taken", "running"}
           /\ worker.at = "taken" => worker.event \in Events
           /\ worker.at = "running" => /\ worker \in Running
                                       /\ worker.event \in Events
                                       /\ worker.generation \in Nat
                                       /\ worker.overtaken \in BOOLEAN
BY DEF TypeOK, Waiting, Dead, Taken, Running

LEMMA MemberTypes ==
    ASSUME TypeOK, NEW u \in Users
    PROVE  /\ Revoked(u) \in [Users -> Membership]
           /\ Joined(u) \in [Users -> Membership]
           /\ \A v \in Users : Revoked(u)[v].generation >= member[v].generation
           /\ Revoked(u)[u].generation > member[u].generation
           /\ \A v \in Users : Joined(u)[v].generation = member[v].generation
<1>1. member \in [Users -> Membership] /\ member[u] \in Membership
  BY DEF TypeOK
<1>2. [active |-> FALSE, generation |-> member[u].generation + 1] \in Membership
  BY <1>1 DEF Membership
<1>3. [member[u] EXCEPT !.active = TRUE] \in Membership
  BY <1>1 DEF Membership
<1>4. \A v \in Users : member[v].generation \in Nat
  BY <1>1 DEF Membership
<1>5. Revoked(u) = [member EXCEPT
                      ![u] = [active |-> FALSE, generation |-> member[u].generation + 1]]
  BY DEF Revoked
<1>6. Revoked(u) \in [Users -> Membership]
  BY <1>1, <1>2, <1>5
<1>7. Revoked(u)[u].generation = member[u].generation + 1
  BY <1>1, <1>5
<1>8. \A v \in Users : Revoked(u)[v].generation >= member[v].generation
  BY <1>1, <1>4, <1>5
<1>9. Joined(u) = [member EXCEPT ![u] = [member[u] EXCEPT !.active = TRUE]]
  BY <1>1 DEF Joined
<1>10. Joined(u) \in [Users -> Membership]
  BY <1>1, <1>3, <1>9
<1>11. \A v \in Users : Joined(u)[v].generation = member[v].generation
  BY <1>1, <1>9 DEF Membership
<1>12. QED
  BY <1>4, <1>6, <1>7, <1>8, <1>10, <1>11

\* Storing an event touches only a row that is not there yet.
LEMMA StoredRows ==
    ASSUME TypeOK, NEW e \in Events, Stored(e)
    PROVE  /\ inbox' \in [Events -> InboxRow]
           /\ arrived' \in [Events -> Nat]
           /\ inbox'[e].status # "none"
           /\ \A f \in Events :
                \/ inbox'[f] = inbox[f]
                \/ /\ inbox[f].status = "none"
                   /\ inbox'[f].status = "pending"
                   /\ inbox'[f].attempts = inbox[f].attempts
BY RankType DEF TypeOK, Stored, InboxRow, Settled

LEMMA SettledRow ==
    ASSUME TypeOK, NEW e \in Events, NEW s \in Settled, Ends(e, s)
    PROVE  /\ inbox' \in [Events -> InboxRow]
           /\ worker' = Waiting
           /\ inbox'[e].status = s
           /\ inbox'[e].attempts = inbox[e].attempts
           /\ \A f \in Events \ {e} : inbox'[f] = inbox[f]
BY DEF TypeOK, Ends, InboxRow, Settled

\* Whatever ends a workflow settles its row and leaves memberships alone.
LEMMA EndPreserves ==
    ASSUME IInv, NEW e \in Events, NEW s \in Settled, Ends(e, s),
           member' \in [Users -> Membership], operation' \in SUBSET Events,
           replies' \in [Events -> SUBSET ReplyKeys],
           UNCHANGED <<wire, refused, arrived, enabled, up, writes, moves, crashes>>
    PROVE  IInv'
<1>1. /\ inbox' \in [Events -> InboxRow]
      /\ worker' = Waiting
      /\ inbox'[e].status = s
      /\ inbox'[e].attempts = inbox[e].attempts
      /\ \A f \in Events \ {e} : inbox'[f] = inbox[f]
  BY SettledRow DEF IInv
<1>2. TypeOK'
  BY <1>1 DEF IInv, TypeOK
<1>3. TakenOnce'
  BY <1>1 DEF IInv, TakenOnce, Settled
<1>4. InHand' /\ StampAges'
  BY <1>1 DEF InHand, StampAges, Waiting
<1>5. NothingLost'
  BY <1>1 DEF IInv, NothingLost, Settled
<1>6. QED
  BY <1>2, <1>3, <1>4, <1>5 DEF IInv

-----------------------------------------------------------------------------
(* The invariant.                                                          *)

LEMMA InitIInv == Init => IInv
<1> SUFFICES ASSUME Init PROVE IInv
  OBVIOUS
<1>1. TypeOK
  BY InboxAssumption DEF Init, TypeOK, Wire, InboxRow, Membership, Settled
<1>2. TakenOnce /\ InHand /\ StampAges /\ NothingLost
  BY DEF Init, TakenOnce, InHand, StampAges, NothingLost, Waiting
<1>3. QED
  BY <1>1, <1>2 DEF IInv

\* Steps of the world around the worker: admission, and memberships that change
\* while it waits.
LEMMA AdmissionPreserves ==
    ASSUME IInv, NEW e \in Events, Send(e) \/ Deliver(e)
    PROVE  IInv'
<1> DEFINE Admitted == /\ inbox' \in [Events -> InboxRow]
                       /\ arrived' \in [Events -> Nat]
                       /\ \A f \in Events :
                            \/ inbox'[f] = inbox[f]
                            \/ /\ inbox[f].status = "none"
                               /\ inbox'[f].status = "pending"
                               /\ inbox'[f].attempts = inbox[f].attempts
<1>1. Admitted /\ (Deliver(e) /\ enabled => inbox'[e].status # "none")
  BY StoredRows DEF IInv, TypeOK, Send, Deliver
<1>2. PICK st \in {"unsent", "offered", "acked"} : wire' = [wire EXCEPT ![e].state = st]
  BY DEF IInv, TypeOK, Wire, Send, Deliver
<1>3. /\ wire' \in [Events -> Wire]
      /\ \A f \in Events : wire'[f].user = wire[f].user
      /\ \A f \in Events \ {e} : wire'[f] = wire[f]
  BY <1>2 DEF IInv, TypeOK, Wire
<1>4. refused' \subseteq Events /\ refused \subseteq refused'
  BY DEF IInv, TypeOK, Send, Deliver
<1>5. UNCHANGED <<member, enabled, worker, up, operation, writes, replies, moves, crashes>>
  BY DEF Send, Deliver
<1>6. TypeOK'
  BY <1>1, <1>3, <1>4, <1>5 DEF IInv, TypeOK
<1>7. TakenOnce'
  BY <1>1 DEF IInv, TakenOnce
<1>8. InHand'
  BY <1>1, <1>5, WorkerShape DEF IInv, InHand
<1>9. StampAges'
  BY <1>3, <1>5, WorkerShape DEF IInv, StampAges
<1>10. NothingLost'
  <2> SUFFICES ASSUME NEW f \in Events, wire'[f].state = "acked"
               PROVE  inbox'[f].status # "none" \/ f \in refused'
    BY DEF NothingLost
  <2>1. CASE wire[f].state = "acked"
    BY <1>1, <1>4, <2>1 DEF IInv, NothingLost
  <2>2. CASE wire[f].state # "acked"
    <3>1. f = e /\ Deliver(e)
      BY <1>3, <2>2, SMTT(20) DEF IInv, TypeOK, Wire, Send
    <3>2. enabled \/ e \in refused'
      BY <3>1, <2>2 DEF IInv, TypeOK, Wire, Deliver
    <3>3. QED
      BY <1>1, <3>1, <3>2
  <2>3. QED
    BY <2>1, <2>2
<1>11. QED
  BY <1>6, <1>7, <1>8, <1>9, <1>10 DEF IInv

LEMMA RevokePreserves ==
    ASSUME IInv, NEW u \in Users, Revoke(u)
    PROVE  IInv'
<1> DEFINE Mine == worker.at = "running" /\ wire[worker.event].user = u
<1>1. /\ member' \in [Users -> Membership]
      /\ \A v \in Users : member'[v].generation >= member[v].generation
      /\ member'[u].generation > member[u].generation
  BY MemberTypes DEF IInv, Revoke
<1>2. /\ worker'.at = worker.at
      /\ worker.at \in {"taken", "running"} => worker'.event = worker.event
      /\ worker.at = "running" => worker'.generation = worker.generation
      /\ Mine => worker'.overtaken
      /\ ~Mine => worker' = worker
      /\ worker' \in {Waiting, Dead} \cup Taken \cup Running
  <2>1. CASE Mine
    <3>1. worker \in Running /\ worker' = [worker EXCEPT !.overtaken = TRUE]
      BY <2>1, WorkerShape DEF IInv, Revoke
    <3>2. QED
      BY <2>1, <3>1 DEF Running
  <2>2. CASE ~Mine
    BY <2>2 DEF IInv, TypeOK, Revoke
  <2>3. QED
    BY <2>1, <2>2
<1>3. UNCHANGED <<wire, inbox>>
  BY DEF Revoke
<1>4. TypeOK'
  BY <1>1, <1>2, InboxAssumption DEF IInv, TypeOK, Revoke, Moved
<1>5. TakenOnce' /\ NothingLost'
  BY DEF IInv, TakenOnce, NothingLost, Revoke
<1>6. InHand'
  BY <1>2, <1>3 DEF IInv, InHand
<1>7. StampAges'
  <2> SUFFICES ASSUME worker.at = "running" PROVE StampAges'
    BY <1>2 DEF StampAges
  <2> DEFINE v == wire[worker.event].user
  <2>1. v \in Users /\ worker.generation \in Nat
    BY WorkerShape DEF IInv, TypeOK, Wire
  <2>2. /\ worker.generation <= member[v].generation
        /\ worker.overtaken => worker.generation < member[v].generation
    BY DEF IInv, StampAges
  <2>3. member[v].generation \in Nat /\ member'[v].generation \in Nat
    BY <1>1, <2>1 DEF IInv, TypeOK, Membership
  <2>4. worker.generation <= member'[v].generation
    BY <1>1, <2>1, <2>2, <2>3
  <2>5. worker'.overtaken => worker.generation < member'[v].generation
    <3>1. CASE v = u
      BY <1>1, <2>1, <2>2, <2>3, <3>1
    <3>2. CASE v # u
      BY <1>1, <1>2, <2>1, <2>2, <2>3, <3>2
    <3>3. QED
      BY <3>1, <3>2
  <2>6. QED
    BY <1>2, <1>3, <2>4, <2>5 DEF StampAges
<1>8. QED
  BY <1>4, <1>5, <1>6, <1>7 DEF IInv

LEMMA AroundPreserves ==
    ASSUME IInv, Switch \/ \E u \in Users : Revoke(u) \/ Rejoin(u)
    PROVE  IInv'
<1>1. CASE Switch
  BY <1>1, InboxAssumption
     DEF IInv, TypeOK, TakenOnce, InHand, StampAges, NothingLost, Switch, Moved
<1>2. ASSUME NEW u \in Users, Rejoin(u) PROVE IInv'
  <2>1. /\ member' \in [Users -> Membership]
        /\ \A v \in Users : member'[v].generation = member[v].generation
    BY <1>2, MemberTypes DEF IInv, Rejoin
  <2>2. TypeOK' /\ TakenOnce' /\ InHand' /\ NothingLost'
    BY <1>2, <2>1, InboxAssumption
       DEF IInv, TypeOK, TakenOnce, InHand, NothingLost, Rejoin, Moved
  <2>3. worker.at = "running" => wire[worker.event].user \in Users
    BY WorkerShape DEF IInv, TypeOK, Wire
  <2>4. StampAges'
    BY <1>2, <2>1, <2>3 DEF IInv, StampAges, Rejoin
  <2>5. QED
    BY <2>2, <2>4 DEF IInv
<1>3. QED
  BY <1>1, <1>2, RevokePreserves

\* The process or the worker stops, and recovery settles what was interrupted.
LEMMA InterruptionPreserves ==
    ASSUME IInv, WorkerDies \/ Crash \/ Restart \/ \E e \in Events : LeaveHalfDone(e)
    PROVE  IInv'
<1>1. worker' \in {Waiting, Dead}
  BY DEF WorkerDies, Crash, Restart, LeaveHalfDone
<1>2. InHand' /\ StampAges'
  BY <1>1 DEF InHand, StampAges, Waiting, Dead
<1>3. CASE WorkerDies \/ Crash
  <2>1. crashes' \in 0..MaxCrashes
    BY <1>3, InboxAssumption DEF IInv, TypeOK, WorkerDies, Crash
  <2>2. up' \in BOOLEAN
    BY <1>3, Zenon DEF IInv, TypeOK, WorkerDies, Crash
  <2>3. UNCHANGED <<wire, refused, inbox, arrived, member, enabled, operation, writes,
                    replies, moves>>
    BY <1>3 DEF WorkerDies, Crash
  <2>4. TypeOK'
    BY <1>1, <2>1, <2>3, <2>2 DEF IInv, TypeOK
  <2>5. TakenOnce' /\ NothingLost'
    BY <2>3 DEF IInv, TakenOnce, NothingLost
  <2>6. QED
    BY <1>2, <2>4, <2>5 DEF IInv
<1>4. ASSUME NEW e \in Events, LeaveHalfDone(e) PROVE IInv'
  <2>1. wire[e].user \in Users
    BY DEF IInv, TypeOK, Wire
  <2>2. member' \in [Users -> Membership]
    BY <1>4, <2>1, MemberTypes DEF IInv, LeaveHalfDone
  <2>3. crashes' \in 0..MaxCrashes
    BY <1>4, InboxAssumption DEF IInv, TypeOK, LeaveHalfDone
  <2>4. up' \in BOOLEAN
    BY <1>4, Zenon DEF LeaveHalfDone
  <2>5. UNCHANGED <<wire, refused, inbox, arrived, enabled, operation, writes, replies,
                    moves>>
    BY <1>4 DEF LeaveHalfDone
  <2>6. TypeOK'
    BY <1>1, <2>2, <2>3, <2>5, <2>4 DEF IInv, TypeOK
  <2>7. TakenOnce' /\ NothingLost'
    BY <2>5 DEF IInv, TakenOnce, NothingLost
  <2>8. QED
    BY <1>2, <2>6, <2>7 DEF IInv
<1>5. CASE Restart
  <2>1. inbox' = Recovered
    BY <1>5 DEF Restart
  <2>2. \A e \in Events : /\ inbox'[e].attempts = inbox[e].attempts
                          /\ \/ inbox'[e] = inbox[e]
                             \/ inbox'[e].status = "unknown"
    BY <2>1 DEF IInv, TypeOK, InboxRow, Recovered
  <2>3. inbox' \in [Events -> InboxRow]
    BY <2>1 DEF IInv, TypeOK, InboxRow, Recovered, Settled
  <2>4. TypeOK'
    BY <1>1, <1>5, <2>3 DEF IInv, TypeOK, Restart
  <2>5. TakenOnce'
    BY <2>2 DEF IInv, TakenOnce
  <2>6. NothingLost'
    BY <1>5, <2>2 DEF IInv, NothingLost, Restart
  <2>7. QED
    BY <1>2, <2>4, <2>5, <2>6 DEF IInv
<1>6. QED
  BY <1>3, <1>4, <1>5

\* The worker's steps.
LEMMA TakePreserves ==
    ASSUME IInv, NEW e \in Events, Take(e)
    PROVE  IInv'
<1>1. /\ inbox \in [Events -> InboxRow]
      /\ inbox[e].status = "pending" /\ inbox[e].attempts = 0
  BY DEF IInv, TypeOK, TakenOnce, Take, Oldest
<1>2. /\ inbox'[e] = [status |-> "processing", attempts |-> 1]
      /\ \A f \in Events \ {e} : inbox'[f] = inbox[f]
      /\ inbox' \in [Events -> InboxRow]
  BY <1>1 DEF Take, InboxRow
<1>3. worker' = [at |-> "taken", event |-> e] /\ worker' \in Taken
  BY DEF Take, Taken
<1>4. TypeOK'
  BY <1>2, <1>3 DEF IInv, TypeOK, Take
<1>5. TakenOnce'
  BY <1>2 DEF IInv, TakenOnce
<1>6. InHand' /\ StampAges'
  BY <1>2, <1>3 DEF InHand, StampAges
<1>7. NothingLost'
  BY <1>2 DEF IInv, NothingLost, Take
<1>8. QED
  BY <1>4, <1>5, <1>6, <1>7 DEF IInv

LEMMA StartPreserves ==
    ASSUME IInv, NEW e \in Events, Start(e)
    PROVE  IInv'
<1>1. wire[e].user \in Users /\ member[wire[e].user].generation \in Nat
  BY DEF IInv, TypeOK, Wire, Membership
<1>2. worker' = [at |-> "running", event |-> e, overtaken |-> FALSE,
                 generation |-> member[wire[e].user].generation]
  BY DEF Start
<1>3. worker' \in Running
  BY <1>1, <1>2 DEF Running
<1>4. TypeOK' /\ TakenOnce' /\ NothingLost'
  BY <1>3 DEF IInv, TypeOK, TakenOnce, NothingLost, Start
<1>5. InHand'
  BY <1>2 DEF IInv, InHand, Start
<1>6. StampAges'
  BY <1>1, <1>2 DEF StampAges, Start
<1>7. QED
  BY <1>4, <1>5, <1>6 DEF IInv

LEMMA RepliesType ==
    ASSUME TypeOK, NEW e \in Events, NEW key \in ReplyKeys
    PROVE  [replies EXCEPT ![e] = @ \cup {key}] \in [Events -> SUBSET ReplyKeys]
<1>1. replies[e] \in SUBSET ReplyKeys
  BY DEF TypeOK
<1>2. QED
  BY <1>1 DEF TypeOK

LEMMA WritesPreserve ==
    ASSUME IInv, WorkflowWrites
    PROVE  IInv'
<1>1. worker.event \in Events
  BY WorkerShape DEF IInv, WorkflowWrites
<1>2. replies' \in [Events -> SUBSET ReplyKeys]
  BY <1>1, RepliesType DEF IInv, TypeOK, WorkflowWrites, ReplyKeys
<1>3. writes' \in [Events -> 0..MaxWrites]
  BY <1>1, InboxAssumption DEF IInv, TypeOK, WorkflowWrites
<1>4. TypeOK'
  BY <1>1, <1>2, <1>3 DEF IInv, TypeOK, WorkflowWrites
<1>5. TakenOnce' /\ InHand' /\ StampAges' /\ NothingLost'
  BY DEF IInv, TakenOnce, InHand, StampAges, NothingLost, WorkflowWrites
<1>6. QED
  BY <1>4, <1>5 DEF IInv

LEMMA IdentityPreserves ==
    ASSUME IInv, NEW e \in Events, IdentityCommand(e)
    PROVE  IInv'
<1>1. member' \in {member, Revoked(wire[e].user), Joined(wire[e].user)}
  BY DEF IdentityCommand
<1>2. wire[e].user \in Users
  BY DEF IInv, TypeOK, Wire
<1>3. member' \in [Users -> Membership]
  BY <1>1, <1>2, MemberTypes DEF IInv, TypeOK
<1>4. replies' \in [Events -> SUBSET ReplyKeys]
  BY RepliesType DEF IInv, IdentityCommand, Replies, ReplyKeys
<1>5. Ends(e, "complete") /\ operation' \in SUBSET Events
  BY DEF IInv, TypeOK, IdentityCommand
<1>6. UNCHANGED <<wire, refused, arrived, enabled, up, writes, moves, crashes>>
  BY DEF IdentityCommand
<1>7. QED
  BY <1>3, <1>4, <1>5, <1>6, EndPreserves DEF Settled

LEMMA WorksPreserve ==
    ASSUME IInv, Works
    PROVE  IInv'
<1>1. member \in [Users -> Membership] /\ operation \in SUBSET Events
      /\ replies \in [Events -> SUBSET ReplyKeys]
  BY DEF IInv, TypeOK
<1>2. CASE WorkflowRefused
  <2>1. worker.event \in Events
    BY <1>2, WorkerShape DEF IInv, WorkflowRefused
  <2>2. PICK s \in Settled : Ends(worker.event, s)
    BY <1>2 DEF WorkflowRefused, Settled
  <2>3. QED
    BY <1>1, <1>2, <2>1, <2>2, EndPreserves DEF WorkflowRefused
<1>3. CASE WorkflowEnds
  <2>1. worker.event \in Events
    BY <1>3, WorkerShape DEF IInv, WorkflowEnds
  <2>2. PICK s \in Settled : Ends(worker.event, s)
    BY <1>3 DEF WorkflowEnds, Settled
  <2>3. operation' \in SUBSET Events /\ replies' \in [Events -> SUBSET ReplyKeys]
    BY <1>1, <1>3, <2>1, RepliesType DEF IInv, WorkflowEnds, ReplyKeys
  <2>4. UNCHANGED <<wire, refused, arrived, member, enabled, up, writes, moves, crashes>>
    BY <1>3 DEF WorkflowEnds
  <2>5. QED
    BY <1>1, <2>1, <2>2, <2>3, <2>4, EndPreserves
<1>4. ASSUME NEW e \in Events, Deny(e) PROVE IInv'
  <2>1. replies' \in [Events -> SUBSET ReplyKeys]
    BY <1>4, RepliesType DEF IInv, Deny, Replies, ReplyKeys
  <2>2. QED
    BY <1>1, <1>4, <2>1, EndPreserves DEF Deny, Settled
<1>5. ASSUME NEW e \in Events, DestinationTaken(e) PROVE IInv'
  BY <1>1, <1>5, EndPreserves DEF DestinationTaken, Settled
<1>6. QED
  BY <1>2, <1>3, <1>4, <1>5, TakePreserves, StartPreserves, IdentityPreserves DEF Works

LEMMA NextIInv == IInv /\ [Next]_vars => IInv'
<1> SUFFICES ASSUME IInv, [Next]_vars PROVE IInv'
  OBVIOUS
<1>1. CASE UNCHANGED vars
  BY <1>1 DEF IInv, TypeOK, TakenOnce, InHand, StampAges, NothingLost, vars
<1>2. CASE Next
  BY <1>2, WorksPreserve, WritesPreserve, AdmissionPreserves, AroundPreserves,
     InterruptionPreserves DEF Next
<1>3. QED
  BY <1>1, <1>2

\* What the worker, admission and recovery keep true of every event.
THEOREM Inductive == Spec => []IInv
BY InitIInv, NextIInv, PTL DEF Spec

\* Every row, stamp and membership keeps its type.
THEOREM TypeCorrect == Spec => []TypeOK
BY Inductive, PTL DEF IInv

\* An acknowledged event is stored, or arrived while the connection was off.
THEOREM AcknowledgedIsStored == Spec => []NothingLost
BY Inductive, PTL DEF IInv

-----------------------------------------------------------------------------
(* Steps.                                                                  *)

\* An event in the worker's hands is not settled, so no ending meets a settled row.
LEMMA SettledStays ==
    ASSUME IInv, [Next]_vars, NEW e \in Events
    PROVE  inbox[e].status \in Settled => inbox'[e] = inbox[e]
<1> SUFFICES ASSUME inbox[e].status \in Settled
             PROVE  inbox'[e] = inbox[e]
  OBVIOUS
<1>1. TypeOK /\ inbox \in [Events -> InboxRow]
  BY DEF IInv, TypeOK
<1>2. worker.at \in {"taken", "running"} => worker.event # e
  BY DEF IInv, InHand, Settled
<1>3. ASSUME NEW f \in Events, f # e, NEW s, Ends(f, s) PROVE inbox'[e] = inbox[e]
  BY <1>1, <1>3 DEF Ends
<1>4. CASE WorkflowEnds \/ WorkflowRefused
  <2>1. worker.event \in Events /\ worker.event # e
    BY <1>1, <1>2, <1>4, WorkerShape DEF WorkflowEnds, WorkflowRefused
  <2>2. \E s : Ends(worker.event, s)
    BY <1>4 DEF WorkflowEnds, WorkflowRefused
  <2>3. QED
    BY <2>1, <2>2, <1>3
<1>5. ASSUME NEW f \in Events, IdentityCommand(f) \/ Deny(f) \/ DestinationTaken(f)
      PROVE  inbox'[e] = inbox[e]
  <2>1. f # e
    BY <1>2, <1>5 DEF IdentityCommand, Deny, DestinationTaken
  <2>2. \E s : Ends(f, s)
    BY <1>5 DEF IdentityCommand, Deny, DestinationTaken
  <2>3. QED
    BY <2>1, <2>2, <1>3
<1>6. ASSUME NEW f \in Events, Take(f) PROVE inbox'[e] = inbox[e]
  <2>1. f # e
    BY <1>6 DEF Take, Oldest, Settled
  <2>2. QED
    BY <1>1, <1>6, <2>1 DEF Take
<1>7. ASSUME NEW f \in Events, Start(f) \/ Send(f) \/ LeaveHalfDone(f)
      PROVE  inbox'[e] = inbox[e]
  BY <1>7 DEF Start, Send, LeaveHalfDone
<1>8. ASSUME NEW f \in Events, Deliver(f) PROVE inbox'[e] = inbox[e]
  BY <1>1, <1>8, StoredRows DEF Deliver, Settled
<1>9. CASE Restart
  BY <1>1, <1>9 DEF Restart, Recovered, Settled
<1>10. CASE \/ WorkflowWrites \/ WorkerDies \/ Switch \/ Crash \/ UNCHANGED vars
            \/ \E u \in Users : Revoke(u) \/ Rejoin(u)
  BY <1>10 DEF WorkflowWrites, WorkerDies, Switch, Crash, vars, Revoke, Rejoin
<1>11. QED
  BY <1>4, <1>5, <1>6, <1>7, <1>8, <1>9, <1>10 DEF Next, Works

LEMMA OnlyWorkflowsWrite ==
    ASSUME IInv, [Next]_vars, NEW e \in Events, writes'[e] # writes[e]
    PROVE  inbox[e].status = "processing" /\ inbox' = inbox
<1>1. WorkflowWrites
  BY DEF Next, Works, WorkflowEnds, WorkflowRefused, Take, IdentityCommand, Deny,
         DestinationTaken, Start, WorkerDies, Send, Deliver, LeaveHalfDone, Revoke, Rejoin,
         Switch, Crash, Restart, vars
<1>2. e = worker.event /\ worker.at = "running"
  BY <1>1, WorkerShape DEF IInv, TypeOK, WorkflowWrites
<1>3. QED
  BY <1>1, <1>2 DEF IInv, InHand, WorkflowWrites

\* An event is taken up once and stays as it was settled; it writes only while
\* it is being processed.
THEOREM EventsWorkedOnce == Spec => WorkedOnce
<1>1. IInv /\ IInv' /\ [Next]_vars
        => [\A e \in Events :
              /\ inbox'[e].attempts <= 1
              /\ inbox[e].status \in Settled => inbox'[e] = inbox[e]
              /\ writes'[e] # writes[e] => /\ inbox[e].status = "processing"
                                           /\ inbox'[e].status = "processing"]_vars
  <2> SUFFICES ASSUME IInv, IInv', [Next]_vars, NEW e \in Events
               PROVE  /\ inbox'[e].attempts <= 1
                      /\ inbox[e].status \in Settled => inbox'[e] = inbox[e]
                      /\ writes'[e] # writes[e] => /\ inbox[e].status = "processing"
                                                   /\ inbox'[e].status = "processing"
    OBVIOUS
  <2>1. inbox'[e].attempts <= 1
    BY DEF IInv, TakenOnce
  <2>2. inbox[e].status \in Settled => inbox'[e] = inbox[e]
    BY SettledStays
  <2>3. writes'[e] # writes[e] => /\ inbox[e].status = "processing"
                                  /\ inbox'[e].status = "processing"
    BY OnlyWorkflowsWrite
  <2>4. QED
    BY <2>1, <2>2, <2>3
<1>2. QED
  BY <1>1, Inductive, PTL DEF Spec, WorkedOnce

\* A workflow overtaken by a revocation commits and says nothing more: its stamp
\* is older than the generation, which no return to the household takes back.
THEOREM OvertakenStops == Spec => RevokedStops
<1>1. IInv /\ [Next]_vars
        => [worker.at = "running" /\ worker.overtaken
              => UNCHANGED <<writes, operation, replies>>]_vars
  <2> SUFFICES ASSUME IInv, [Next]_vars, worker.at = "running", worker.overtaken
               PROVE  UNCHANGED <<writes, operation, replies>>
    OBVIOUS
  <2>1. wire[worker.event].user \in Users /\ worker.generation \in Nat
    BY WorkerShape DEF IInv, TypeOK, Wire
  <2>2. ~StampValid
    BY <2>1 DEF IInv, TypeOK, Membership, StampAges, StampValid
  <2>3. QED
    BY <2>2 DEF Next, Works, WorkflowWrites, WorkflowEnds, WorkflowRefused, Take,
                IdentityCommand, Deny, DestinationTaken, Start, WorkerDies, Send, Deliver,
                LeaveHalfDone, Revoke, Rejoin, Switch, Crash, Restart, vars
<1>2. QED
  BY <1>1, Inductive, PTL DEF Spec, RevokedStops
=============================================================================
