-------------------------------- MODULE Inbox ---------------------------------
(***************************************************************************)
(* The receiving half of the messaging runtime: providers deliver events,  *)
(* sometimes more than once; admission stores each event under its key     *)
(* before the provider is told it arrived; one worker takes the stored     *)
(* events in order and runs each as a workflow that commits several times, *)
(* waiting in between for models and providers; members leave, are removed *)
(* and come back meanwhile; and the process may die between any two steps. *)
(*                                                                         *)
(* A step is what runs between two awaits.  The workflows' own writes are  *)
(* only counted: what they write is the business of the other modules.     *)
(***************************************************************************)
EXTENDS Naturals, FiniteSets

CONSTANTS Events,     \* event keys of one connection
          Users,      \* accounts with an identity on it
          MaxWrites,  \* bound: commits of one workflow
          MaxCrashes, \* bound: times the process dies
          MaxMoves,   \* bound: times memberships and the connection change
          LockErrors  \* whether the database can fail the worker itself

ASSUME EventsAssumption == IsFiniteSet(Events)
ASSUME InboxAssumption == /\ MaxWrites \in Nat /\ MaxCrashes \in Nat
                          /\ MaxMoves \in Nat /\ LockErrors \in BOOLEAN

VARIABLES wire,      \* [Events -> what the provider still has to deliver]
          refused,   \* SUBSET Events, acknowledged while the connection was off
          inbox,     \* [Events -> InboxRow], table messaginginbox
          arrived,   \* [Events -> Nat], created_at as a rank among the rows
          member,    \* [Users -> Membership]
          enabled,   \* the connection's enabled flag
          worker,    \* what the worker is doing; "dead" after an error of its own
          up,        \* the process runs
          operation, \* SUBSET Events, table messagingoperation
          writes,    \* [Events -> Nat], commits of the event's workflow
          replies,   \* [Events -> SUBSET keys], outbox rows of the event
          moves, crashes

vars == <<wire, refused, inbox, arrived, member, enabled, worker, up, operation,
          writes, replies, moves, crashes>>

Kinds == {"workflow", "join", "leave", "account"}

Wire == [state : {"unsent", "offered", "acked"}, user : Users, kind : Kinds]

Settled == {"complete", "failed", "unknown"}

InboxRow == [status : {"none", "pending", "processing"} \cup Settled,
             attempts : Nat]

Membership == [active : BOOLEAN, generation : Nat]

\* overtaken: the membership was revoked after the stamp was taken.  It is not
\* in the code; it says what the stamp has to find out.
Running == [at : {"running"}, event : Events, generation : Nat, overtaken : BOOLEAN]
Waiting == [at |-> "waiting"]
Taken   == [at : {"taken"}, event : Events]
Dead    == [at |-> "dead"]

ReplyKeys == {"identity", "denied", "reply"}

TypeOK ==
  /\ wire \in [Events -> Wire]
  /\ refused \subseteq Events
  /\ inbox \in [Events -> InboxRow]
  /\ arrived \in [Events -> Nat]
  /\ member \in [Users -> Membership]
  /\ enabled \in BOOLEAN
  /\ worker \in {Waiting, Dead} \cup Taken \cup Running
  /\ up \in BOOLEAN
  /\ operation \subseteq Events
  /\ writes \in [Events -> 0..MaxWrites]
  /\ replies \in [Events -> SUBSET ReplyKeys]
  /\ moves \in 0..MaxMoves
  /\ crashes \in 0..MaxCrashes

\* Who sends what is not known beforehand; every user starts as a member.
Init == /\ wire \in [Events -> [state : {"unsent"}, user : Users, kind : Kinds]]
        /\ refused = {}
        /\ inbox = [e \in Events |-> [status |-> "none", attempts |-> 0]]
        /\ arrived = [e \in Events |-> 0]
        /\ member = [u \in Users |-> [active |-> TRUE, generation |-> 0]]
        /\ enabled = TRUE
        /\ worker = Waiting
        /\ up = TRUE
        /\ operation = {}
        /\ writes = [e \in Events |-> 0]
        /\ replies = [e \in Events |-> {}]
        /\ moves = 0
        /\ crashes = 0

-----------------------------------------------------------------------------
(* Admission: a webhook request, or one update of a Telegram poll.          *)

Send(e) ==
  /\ wire[e].state = "unsent"
  /\ wire' = [wire EXCEPT ![e].state = "offered"]
  /\ UNCHANGED <<refused, inbox, arrived, member, enabled, worker, up, operation,
                 writes, replies, moves, crashes>>

Rows == {e \in Events : inbox[e].status # "none"}

\* Mutant: a redelivered event is made pending again.
StoredAgain(e) == /\ inbox' = [inbox EXCEPT ![e].status = "pending"]
                  /\ arrived' = [arrived EXCEPT ![e] = Cardinality(Rows)]

\* admit_event: the unique key makes a second delivery a no-op.
Stored(e) == IF inbox[e].status = "none"
             THEN /\ inbox' = [inbox EXCEPT ![e].status = "pending"]
                  /\ arrived' = [arrived EXCEPT ![e] = Cardinality(Rows)]
             ELSE UNCHANGED <<inbox, arrived>>

\* Mutant: the acknowledgement is sent first, and admission may not follow.
DeliverAckFirst(e) ==
  /\ up
  /\ wire[e].state = "offered"
  /\ wire' = [wire EXCEPT ![e].state = "acked"]
  /\ refused' = IF ~enabled THEN refused \cup {e} ELSE refused
  /\ (enabled /\ Stored(e)) \/ UNCHANGED <<inbox, arrived>>
  /\ UNCHANGED <<member, enabled, worker, up, operation, writes, replies, moves,
                 crashes>>

\* The acknowledgement follows the commit, and may be lost: the provider then
\* delivers the event again.  A disabled connection acknowledges and drops.
Deliver(e) ==
  /\ up
  /\ wire[e].state = "offered"
  /\ IF enabled THEN Stored(e) ELSE UNCHANGED <<inbox, arrived>>
  /\ \E arrives \in BOOLEAN :
       /\ wire' = [wire EXCEPT ![e].state = IF arrives THEN "acked" ELSE @]
       /\ refused' = IF arrives /\ ~enabled THEN refused \cup {e} ELSE refused
  /\ UNCHANGED <<member, enabled, worker, up, operation, writes, replies, moves,
                 crashes>>

-----------------------------------------------------------------------------
(* The worker.                                                              *)

Oldest(e) == /\ inbox[e].status = "pending"
             /\ \A f \in Events : inbox[f].status = "pending" => arrived[e] <= arrived[f]

\* The oldest pending row, marked and committed before any of its work.
Take(e) ==
  /\ worker = Waiting
  /\ Oldest(e)
  /\ inbox' = [inbox EXCEPT ![e].status = "processing", ![e].attempts = @ + 1]
  /\ worker' = [at |-> "taken", event |-> e]
  /\ UNCHANGED <<wire, refused, arrived, member, enabled, up, operation, writes,
                 replies, moves, crashes>>

\* The end of process() and the worker's last commit: no await between them.
Ends(e, s) == /\ inbox' = [inbox EXCEPT ![e].status = s]
              /\ worker' = Waiting

Replies(e, key) == replies' = [replies EXCEPT ![e] = @ \cup {key}]

\* Mutant: the membership ends but the generation stays.
RevokedSilently(u) == [member EXCEPT ![u].active = FALSE]

\* revoke_membership: the generation makes every earlier stamp and button stale.
Revoked(u) == [member EXCEPT ![u] = [active |-> FALSE, generation |-> @.generation + 1]]

\* joining puts the account back without a new generation.
Joined(u) == [member EXCEPT ![u].active = TRUE]

\* run_identity_command runs in one go: the change, if it is allowed, and the
\* reply in one commit.  leave_household commits before the reply is stored.
IdentityCommand(e) ==
  /\ worker.at = "taken" /\ worker.event = e
  /\ wire[e].kind # "workflow"
  /\ LET u == wire[e].user
         allowed == /\ enabled
                    /\ wire[e].kind = "join" <=> ~member[u].active
     IN  member' = CASE wire[e].kind = "leave" /\ allowed -> Revoked(u)
                     [] wire[e].kind = "join" /\ allowed -> Joined(u)
                     [] OTHER -> member
  /\ Replies(e, "identity")
  /\ Ends(e, "complete")
  /\ UNCHANGED <<wire, refused, arrived, enabled, up, operation, writes, moves, crashes>>

\* The leave is committed and the process dies before the reply is.
LeaveHalfDone(e) ==
  /\ worker.at = "taken" /\ worker.event = e
  /\ wire[e].kind = "leave" /\ enabled /\ member[wire[e].user].active
  /\ crashes < MaxCrashes
  /\ crashes' = crashes + 1
  /\ member' = Revoked(wire[e].user)
  /\ up' = FALSE
  /\ worker' = Dead
  /\ UNCHANGED <<wire, refused, inbox, arrived, enabled, operation, writes, replies, moves>>

\* Not authorized: the refusal is the reply.  (Without a configured model every
\* workflow is answered this way; the deployment modelled has one.)
Deny(e) ==
  /\ worker.at = "taken" /\ worker.event = e
  /\ wire[e].kind = "workflow"
  /\ ~enabled \/ ~member[wire[e].user].active
  /\ Replies(e, "denied")
  /\ Ends(e, "complete")
  /\ UNCHANGED <<wire, refused, arrived, member, enabled, up, operation, writes, moves,
                 crashes>>

\* The direct conversation is somebody else's destination: raised before the
\* stamp, so that no reply is stored.
DestinationTaken(e) ==
  /\ worker.at = "taken" /\ worker.event = e
  /\ wire[e].kind = "workflow"
  /\ enabled /\ member[wire[e].user].active
  /\ Ends(e, "failed")
  /\ UNCHANGED <<wire, refused, arrived, member, enabled, up, operation, writes,
                 replies, moves, crashes>>

\* Authorized: the stamp is taken and every later commit checked against it.
Start(e) ==
  /\ worker.at = "taken" /\ worker.event = e
  /\ wire[e].kind = "workflow"
  /\ enabled /\ member[wire[e].user].active
  /\ worker' = [at |-> "running", event |-> e, overtaken |-> FALSE,
                generation |-> member[wire[e].user].generation]
  /\ UNCHANGED <<wire, refused, inbox, arrived, member, enabled, up, operation, writes,
                 replies, moves, crashes>>

\* Mutant: the commit only looks whether the account is a member now.
StampActive == member[wire[worker.event].user].active

\* verify_commit: a fresh read of the row, compared with the stamp.
StampValid == LET m == member[wire[worker.event].user]
              IN  m.active /\ m.generation = worker.generation

\* A commit of the workflow after an await; the first one marks the operation.
\* It may carry a reply (OutboxMessenger.send_text commits).
WorkflowWrites ==
  /\ worker.at = "running"
  /\ StampValid
  /\ writes[worker.event] < MaxWrites
  /\ writes' = [writes EXCEPT ![worker.event] = @ + 1]
  /\ operation' = operation \cup {worker.event}
  /\ replies' \in {replies, [replies EXCEPT ![worker.event] = @ \cup {"reply"}]}
  /\ UNCHANGED <<wire, refused, inbox, arrived, member, enabled, worker, up, moves,
                 crashes>>

\* The next commit is refused: it is rolled back and nobody is told; or the
\* handler raises something else first.
WorkflowRefused ==
  /\ worker.at = "running"
  /\ ~StampValid
  /\ \E s \in {"complete", "unknown"} : Ends(worker.event, s)
  /\ UNCHANGED <<wire, refused, arrived, member, enabled, up, operation, writes,
                 replies, moves, crashes>>

\* The handler returns, or raises: a refusal of its own is told to the sender in
\* one more commit; any other error leaves the outcome unknown; an error of
\* authorization or of the reply itself fails the event.
WorkflowEnds ==
  /\ worker.at = "running"
  /\ StampValid
  /\ \/ /\ operation' = operation \cup {worker.event}
        /\ replies' \in {replies, [replies EXCEPT ![worker.event] = @ \cup {"reply"}]}
        /\ Ends(worker.event, "complete")
     \/ /\ UNCHANGED <<operation, replies>>
        /\ \E s \in {"failed", "unknown"} : Ends(worker.event, s)
  /\ UNCHANGED <<wire, refused, arrived, member, enabled, up, writes, moves, crashes>>

\* An error outside the worker's try, such as a database locked for longer than
\* the busy timeout: the task ends, and nothing but a restart brings it back.
WorkerDies ==
  /\ LockErrors
  /\ worker # Dead
  /\ worker' = Dead
  /\ UNCHANGED <<wire, refused, inbox, arrived, member, enabled, up, operation, writes,
                 replies, moves, crashes>>

-----------------------------------------------------------------------------
(* Around the worker: memberships and the connection change from the Mini   *)
(* App, the operator and the owner's console; the process dies.             *)

Moved == moves < MaxMoves /\ moves' = moves + 1

\* Leaving through the Mini App, or being removed by the owner.
Revoke(u) ==
  /\ Moved
  /\ member[u].active
  /\ member' = Revoked(u)
  /\ worker' = IF worker.at = "running" /\ wire[worker.event].user = u
               THEN [worker EXCEPT !.overtaken = TRUE] ELSE worker
  /\ UNCHANGED <<wire, refused, inbox, arrived, enabled, up, operation, writes, replies,
                 crashes>>

Rejoin(u) ==
  /\ Moved
  /\ ~member[u].active
  /\ member' = Joined(u)
  /\ UNCHANGED <<wire, refused, inbox, arrived, enabled, worker, up, operation, writes,
                 replies, crashes>>

Switch ==
  /\ Moved
  /\ enabled' = ~enabled
  /\ UNCHANGED <<wire, refused, inbox, arrived, member, worker, up, operation, writes,
                 replies, crashes>>

Crash ==
  /\ up
  /\ crashes < MaxCrashes
  /\ crashes' = crashes + 1
  /\ up' = FALSE
  /\ worker' = Dead
  /\ UNCHANGED <<wire, refused, inbox, arrived, member, enabled, operation, writes,
                 replies, moves>>

\* Mutant: what was interrupted is taken up again.
RecoveredAgain == [e \in Events |-> IF inbox[e].status = "processing"
                                    THEN [inbox[e] EXCEPT !.status = "pending"]
                                    ELSE inbox[e]]

\* Mutant: only the outbox is recovered; interrupted events stay as they are.
RecoveredNot == inbox

\* Mutant: recovery writes the outbox's status into the inbox.
RecoveredRetry == [e \in Events |-> IF inbox[e].status = "processing"
                                    THEN [inbox[e] EXCEPT !.status = "retry"]
                                    ELSE inbox[e]]

\* recover_interrupted: it cannot be known how far the work had come.
Recovered == [e \in Events |-> IF inbox[e].status = "processing"
                               THEN [inbox[e] EXCEPT !.status = "unknown"]
                               ELSE inbox[e]]

Restart ==
  /\ ~up
  /\ up' = TRUE
  /\ worker' = Waiting
  /\ inbox' = Recovered
  /\ UNCHANGED <<wire, refused, arrived, member, enabled, operation, writes, replies,
                 moves, crashes>>

-----------------------------------------------------------------------------
Works == \/ WorkflowEnds
         \/ WorkflowRefused
         \/ \E e \in Events : \/ Take(e)
                              \/ IdentityCommand(e)
                              \/ Deny(e)
                              \/ DestinationTaken(e)
                              \/ Start(e)

Next == \/ Works
        \/ WorkflowWrites
        \/ WorkerDies
        \/ \E e \in Events : Send(e) \/ Deliver(e) \/ LeaveHalfDone(e)
        \/ \E u \in Users : Revoke(u) \/ Rejoin(u)
        \/ Switch
        \/ Crash
        \/ Restart

Spec == Init /\ [][Next]_vars

\* The worker loops without end and every call it waits for has a timeout;
\* providers deliver until they are answered; the platform restarts a process
\* that died.
FairSpec == /\ Spec
            /\ WF_vars(Works)
            /\ \A e \in Events : WF_vars(Deliver(e))
            /\ WF_vars(Restart)

-----------------------------------------------------------------------------
(* Properties.                                                              *)

\* "Such work is never automatically replayed": over redeliveries, crashes and
\* recoveries an event is taken up once, it writes only while it is processed,
\* and a settled event stays as it is (admit_event, worker, recover_interrupted).
WorkedOnce ==
  [][\A e \in Events :
       /\ inbox'[e].attempts <= 1
       /\ inbox[e].status \in Settled => inbox'[e] = inbox[e]
       /\ writes'[e] # writes[e] => /\ inbox[e].status = "processing"
                                    /\ inbox'[e].status = "processing"]_vars

\* Once the membership a workflow was started under is revoked, the workflow
\* commits nothing more and says nothing more, even if the account has joined
\* again before it wakes up (verify_commit).
RevokedStops ==
  [][worker.at = "running" /\ worker.overtaken
       => UNCHANGED <<writes, operation, replies>>]_vars

\* "Admission completes before acknowledging": an event the provider will not
\* deliver again is stored, unless the connection was off when it arrived.
NothingLost == \A e \in Events :
  wire[e].state = "acked" => inbox[e].status # "none" \/ e \in refused

\* Every event offered to a connection that stays on is settled in the end,
\* whatever is lost, delivered twice or interrupted, unless a database error
\* has ended the worker's task for good (worker, poll_telegram, recovery).
EventsSettle ==
  \/ <>[](worker = Dead)
  \/ \A e \in Events : (wire[e].state = "offered" /\ enabled)
                         ~> (inbox[e].status \in Settled \/ ~enabled)
=============================================================================
