------------------------------ MODULE Messages -------------------------------
(***************************************************************************)
(* The messages of a conversation on another platform: a workflow sends one *)
(* and edits it later ("thinking", then the answer), while the sender works *)
(* through the outbox.  An edit changes the queued row as long as nobody     *)
(* holds it, and queues a row of its own after that, which replaces the      *)
(* message at the provider if its reference is known by then.                *)
(*                                                                          *)
(* Who may be written to is in module Outbox; here a row is taken, refused   *)
(* or left unanswered.  Of a text only which version it is is kept.          *)
(***************************************************************************)
EXTENDS Naturals, Sequences

CONSTANTS Messages,   \* rows of table messagingmessage, of one conversation
          MaxText,    \* bound: versions of a text
          LastRow,    \* bound: rows of the outbox
          MaxTries,   \* 4: attempts of a row
          Absent

Request    == [of : Messages, text : 1..MaxText, replace : 0..LastRow]
MessageRow == [text : 1..MaxText, row : 1..LastRow, ref : 0..LastRow]

ASSUME MessagesAssumption ==
  /\ MaxText \in Nat \ {0} /\ LastRow \in Nat /\ MaxTries \in Nat \ {0}
  /\ Absent \notin Request \cup MessageRow

VARIABLES message, \* [Messages -> a row, or Absent]
          queue,   \* the outbox, in the order the rows were made
          held,    \* the request that the sender has read, or Absent
          wire,    \* requests without an answer that the provider may yet take
          shown    \* what the conversation shows; a reference is a place in it

messageVars == <<message, queue, held, wire, shown>>

MessagesTypeOK ==
  /\ message \in [Messages -> MessageRow \cup {Absent}]
  /\ Len(queue) <= LastRow
  /\ \A r \in DOMAIN queue :
       /\ queue[r].request \in Request /\ queue[r].tries \in 0..MaxTries
       /\ queue[r].status \in
            {"pending", "sending", "retry", "accepted", "unknown", "failed", "suppressed"}
  /\ held \in Request \cup {Absent} /\ wire \subseteq Request
  /\ \A ref \in DOMAIN shown : shown[ref] \in [of : Messages, text : 1..MaxText]

MessagesInit ==
  /\ message = [m \in Messages |-> Absent]
  /\ queue = <<>> /\ held = Absent /\ wire = {} /\ shown = <<>>

-----------------------------------------------------------------------------
(* OutboxMessenger, for the workflow that runs.                             *)

Enqueued(request) ==
  /\ Len(queue) < LastRow
  /\ queue' = Append(queue, [request |-> request, status |-> "pending", tries |-> 0])

SendText(m) ==
  /\ message[m] = Absent
  /\ Enqueued([of |-> m, text |-> 1, replace |-> 0])
  /\ message' = [message EXCEPT ![m] = [text |-> 1, row |-> Len(queue) + 1, ref |-> 0]]
  /\ UNCHANGED <<held, wire, shown>>

\* Mutant: the row that the sender holds is changed as well.
ChangeableEver(row) == row.status \in {"pending", "sending", "retry"}

Changeable(row) == row.status \in {"pending", "retry"}

UpdateText(m) ==
  /\ message[m] # Absent /\ message[m].text < MaxText
  /\ LET row == message[m].row
         text == message[m].text + 1
     IN IF Changeable(queue[row])
        THEN /\ queue' = [queue EXCEPT ![row].request.text = text]
             /\ message' = [message EXCEPT ![m].text = text]
        ELSE /\ Enqueued([of |-> m, text |-> text, replace |-> message[m].ref])
             /\ message' = [message EXCEPT ![m].text = text, ![m].row = Len(queue) + 1]
  /\ UNCHANGED <<held, wire, shown>>

RemoveMessage(m) ==
  /\ message[m] # Absent /\ queue[message[m].row].status = "pending"
  /\ queue' = [queue EXCEPT ![message[m].row].status = "suppressed"]
  /\ UNCHANGED <<message, held, wire, shown>>

-----------------------------------------------------------------------------
(* The sender, and the provider.                                            *)

\* The oldest row that is due; one to be tried again is passed over until then.
Claim(r) ==
  /\ held = Absent /\ Changeable(queue[r])
  /\ \A q \in 1..(r - 1) : queue[q].status # "pending"
  /\ queue' = [queue EXCEPT ![r].status = "sending", ![r].tries = @ + 1]
  /\ held' = queue[r].request
  /\ UNCHANGED <<message, wire, shown>>

Sending == CHOOSE r \in DOMAIN queue : queue[r].status = "sending"

Settles(status) ==
  /\ held # Absent /\ held' = Absent
  /\ queue' = [queue EXCEPT ![Sending].status = status]

\* The message that is replaced, or a new one; also where the provider finds
\* nothing to replace, or the text needs more than one message.
Shows(request, ref) ==
  /\ ref \in {request.replace, Len(shown) + 1} \ {0}
  /\ shown' = [i \in DOMAIN shown \cup {ref} |->
                IF i = ref THEN [of |-> request.of, text |-> request.text] ELSE shown[i]]

TakenAtOnce(ref) ==
  /\ Settles("accepted") /\ Shows(held, ref)
  /\ message' = [m \in Messages |->
       IF message[m] # Absent /\ message[m].row = Sending
       THEN [message[m] EXCEPT !.ref = ref] ELSE message[m]]
  /\ UNCHANGED wire

NotTaken ==
  /\ held # Absent
  /\ \E status \in {"failed", "suppressed", "retry"} :
       /\ status = "retry" => queue[Sending].tries < MaxTries
       /\ Settles(status)
  /\ UNCHANGED <<message, wire, shown>>

\* No answer in time, an answer that says nothing, or the end of the process.
Unanswered ==
  /\ Settles("unknown") /\ wire' \in {wire, wire \cup {held}}
  /\ UNCHANGED <<message, shown>>

TakenLate(request, ref) ==
  /\ request \in wire /\ wire' = wire \ {request}
  /\ Shows(request, ref)
  /\ UNCHANGED <<message, queue, held>>

MessagesNext ==
  \/ \E m \in Messages : SendText(m) \/ UpdateText(m) \/ RemoveMessage(m)
  \/ \E r \in DOMAIN queue : Claim(r)
  \/ \E ref \in 1..LastRow : \/ TakenAtOnce(ref)
                             \/ \E request \in wire : TakenLate(request, ref)
  \/ NotTaken \/ Unanswered

MessagesSpec == MessagesInit /\ [][MessagesNext]_messageVars

-----------------------------------------------------------------------------
(* Properties.                                                              *)

\* The rows of a message that were made before its last.
Earlier(m) == {q \in 1..(message[m].row - 1) : queue[q].request.of = m}

\* Once the last edit is taken the conversation shows it, though edits of the
\* same message wait for each other in the outbox: only an earlier one that was
\* tried again or never answered may come after it.
ShownIsCurrent ==
  \A m \in Messages :
    /\ message[m] # Absent /\ queue[message[m].row].status = "accepted"
    /\ \A q \in Earlier(m) : queue[q].tries <= 1 /\ queue[q].status # "unknown"
    => shown[message[m].ref].text = message[m].text

\* An edit never lands in the place of another message, however references
\* arrive and rows overtake each other.
PlacesAreOwn ==
  \A m \in Messages : message[m] # Absent /\ message[m].ref # 0
    => shown[message[m].ref].of = m

\* The messages of a conversation, however edits and deliveries overlap.
MessagesSound == ShownIsCurrent /\ PlacesAreOwn
=============================================================================
