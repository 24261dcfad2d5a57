---------------------------- MODULE PantryProofs ----------------------------
(***************************************************************************)
(* Safety of Pantry for any number of items, proposals, receipts, actors,  *)
(* durations and days.  IInv is the inductive invariant: a request that    *)
(* waits for the search of a move was let through forwards, a row that is  *)
(* not there yet has no duration of a user, and a proposal with a status   *)
(* has something to apply.                                                 *)
(***************************************************************************)
EXTENDS Pantry, TLAPS

MovesForward ==
  \A a \in Actors : actor[a].at = "moving" =>
    CanMoveTo(actor[a].loaded.storage, actor[a].target)

UnbornUntouched ==
  \A i \in Items : item[i].status = "unborn" => item[i].source # "user"

LiveHasContent ==
  \A p \in Pendings : pending[p].status # "free" =>
    pending[p].what \in CorrectPending \cup AddPending

SentIsStored ==
  \A a \in Actors : actor[a].at = "sending" => pending[actor[a].pending].status # "free"

IInv == /\ TypeOK /\ MovesForward /\ UnbornUntouched /\ LiveHasContent /\ SentIsStored
        /\ ReceiptsWhole
-----------------------------------------------------------------------------
(* Rows.                                                                   *)

\* A row dated anew is a row, with nothing changed but its expiry.
LEMMA DatedRow ==
  ASSUME NEW row \in ItemRow
  PROVE  /\ Dated(row) \in ItemRow
         /\ Dated(row).status = row.status /\ Dated(row).storage = row.storage
         /\ Dated(row).source = row.source /\ Dated(row).receipt = row.receipt
<1>1. Origin(row) \in Days /\ row.days \in Durations
  BY DEF ItemRow, Origin
<1>2. Origin(row) + row.days \in Nat
  <2>1. \A n \in Days : n \in Nat
    BY PantryAssumption DEF Days
  <2>2. Origin(row) \in Nat
    BY <1>1, <2>1
  <2>3. row.days \in Nat
    BY <1>1, PantryAssumption
  <2>4. QED
    BY <2>2, <2>3
<1>3. QED
  BY <1>2 DEF ItemRow, Dated

\* What a move makes of the row it loaded.
LEMMA MovedRow ==
  ASSUME NEW row \in ItemRow, NEW target \in {"fridge", "frozen"},
         NEW day \in Days, NEW d \in Durations
  PROVE  /\ Moved(row, target, day, d) \in ItemRow
         /\ Moved(row, target, day, d).status = row.status
         /\ Moved(row, target, day, d).storage = target
         /\ Moved(row, target, day, d).source = "estimate"
         /\ Moved(row, target, day, d).receipt = row.receipt
<1> DEFINE new == [row EXCEPT !.storage = target, !.stored = day, !.days = d,
                              !.source = "estimate", !.snoozed = FALSE]
<1>1. new \in ItemRow /\ new.status = row.status /\ new.storage = target
      /\ new.source = "estimate" /\ new.receipt = row.receipt
  BY DEF ItemRow, Storages
<1>2. QED
  BY <1>1, DatedRow DEF Moved

\* An update column by column leaves a row, whatever was loaded.
LEMMA WrittenRow ==
  ASSUME NEW row \in ItemRow, NEW loaded \in ItemRow, NEW new \in ItemRow
  PROVE  /\ Written(row, loaded, new) \in ItemRow
         /\ new.status = loaded.status => Written(row, loaded, new).status = row.status
         /\ new.storage # loaded.storage => Written(row, loaded, new).storage = new.storage
         /\ new.receipt = loaded.receipt => Written(row, loaded, new).receipt = row.receipt
         /\ Written(row, loaded, new).source = new.source
BY DEF Written, ItemRow

LEMMA AddedRow ==
  ASSUME NEW d \in Durations, NEW e \in Nat, NEW b \in Days, NEW x \in BOOLEAN
  PROVE  /\ Added(d, e, b, x) \in ItemRow /\ Added(d, e, b, x).status = "active"
         /\ Added(d, e, b, x).receipt = None
BY PantryAssumption DEF Added, Unborn, ItemRow, Storages, NoDate

LEMMA ScannedRow ==
  ASSUME NEW r \in Receipts, NEW f \in BOOLEAN, NEW d \in Durations, NEW b \in Days
  PROVE  /\ Scanned(r, f, d, b) \in ItemRow /\ Scanned(r, f, d, b).status = "active"
         /\ Scanned(r, f, d, b).receipt = r
<1> DEFINE new == [Unborn EXCEPT !.status = "active", !.receipt = r, !.days = d,
                       !.purchased = b,
                       !.storage = IF f THEN "frozen" ELSE "default",
                       !.stored = IF f THEN b ELSE NoDate]
<1>1. new \in ItemRow /\ new.status = "active" /\ new.receipt = r
  BY PantryAssumption DEF Unborn, ItemRow, Storages, NoDate
<1>2. QED
  BY <1>1, DatedRow DEF Scanned

LEMMA CorrectedRow ==
  ASSUME NEW row \in ItemRow, NEW diff \in Diff
  PROVE  /\ Corrected(row, diff) \in ItemRow
         /\ Corrected(row, diff).status = row.status
         /\ Corrected(row, diff).source \in {row.source, "user"}
         /\ Corrected(row, diff).receipt = row.receipt
<1> DEFINE chosen == [row EXCEPT !.days = diff.days, !.source = "user"]
           lasting == IF diff.days = None THEN row ELSE Dated(chosen)
<1>1. /\ diff.days # None => chosen \in ItemRow
      /\ chosen.status = row.status /\ chosen.source = "user" /\ chosen.receipt = row.receipt
  BY DEF Diff, ItemRow
<1>2. /\ lasting \in ItemRow /\ lasting.status = row.status
      /\ lasting.source \in {row.source, "user"} /\ lasting.receipt = row.receipt
  BY <1>1, DatedRow
<1>3. /\ Corrected(row, diff) = IF diff.expires = None THEN lasting
                                ELSE [lasting EXCEPT !.expires = diff.expires]
  BY DEF Corrected
<1>4. QED
  BY <1>2, <1>3 DEF Diff, ItemRow

\* Making proposals stale touches none that is decided.
LEMMA ExpiredRows ==
  ASSUME pending \in [Pendings -> PendingRow], NEW S
  PROVE  /\ Expired(S) \in [Pendings -> PendingRow]
         /\ \A p \in Pendings :
              /\ Expired(S)[p].what = pending[p].what
              /\ \/ Expired(S)[p] = pending[p]
                 \/ pending[p].status = "pending" /\ Expired(S)[p].status = "stale"
BY DEF Expired, Proposes, PendingRow

-----------------------------------------------------------------------------
(* What a step may do to the items, and to the proposals.                  *)

\* A step of the life cycle, or none.
LifecycleStep ==
  \/ Lifecycle!Enter \/ Lifecycle!Leave
  \/ UNCHANGED <<[i \in Items |-> item[i].status], outcome>>

UserKept ==
  \A i \in Items :
    item[i].source = "user" /\ item'[i].source # "user" => item'[i].storage # "default"

\* The items after a step are rows that the invariant and both properties allow.
ItemsSound ==
  /\ item' \in [Items -> ItemRow]
  /\ outcome' \in [Items -> {"none", "eaten", "tossed"}]
  /\ UnbornUntouched' /\ ReceiptsWhole' /\ LifecycleStep /\ UserKept

\* A send of p's own card that fails calls it cancelled.
SendLost(p) ==
  /\ pending'[p] = [pending[p] EXCEPT !.status = "cancelled"]
  /\ \E a \in Actors : actor[a].at = "sending" /\ actor[a].pending = p

Decided ==
  \A p \in Pendings :
    pending[p].status \notin {"free", "pending"} =>
      pending'[p] = pending[p] \/ SendLost(p)

NoneFreed ==
  \A p \in Pendings : pending[p].status # "free" => pending'[p].status # "free"

PendingsSound ==
  pending' \in [Pendings -> PendingRow] /\ LiveHasContent' /\ Decided /\ NoneFreed

\* What is being sent was being sent before, or has just been stored.
NewSends ==
  \A a \in Actors : actor'[a].at = "sending" =>
    actor'[a] = actor[a] \/ pending'[actor'[a].pending].status # "free"

RequestsSound ==
  /\ receipt' \subseteq Receipts /\ recent' \subseteq Items \cup Receipts
  /\ actor' \in [Actors -> Requests] /\ refining' \subseteq Refinement
  /\ today' \in Days /\ MovesForward' /\ NewSends

Sound == ItemsSound /\ PendingsSound /\ RequestsSound

LEMMA SoundInvariant == IInv /\ Sound => IInv'
<1> SUFFICES ASSUME IInv, Sound PROVE IInv'
  OBVIOUS
<1>1. SentIsStored'
  <2> SUFFICES ASSUME NEW a \in Actors, actor'[a].at = "sending"
               PROVE  pending'[actor'[a].pending].status # "free"
    BY DEF SentIsStored
  <2>1. actor'[a].pending \in Pendings
    BY DEF Sound, RequestsSound, Requests, Idle, Moving, Proposing, Sending, Scanning
  <2>2. QED
    BY <2>1 DEF Sound, PendingsSound, RequestsSound, NoneFreed, NewSends, IInv, SentIsStored
<1>2. QED
  BY <1>1 DEF Sound, ItemsSound, PendingsSound, RequestsSound, IInv, TypeOK

LEMMA ItemsRest ==
  ASSUME IInv, UNCHANGED <<item, outcome>>, receipt \subseteq receipt' PROVE ItemsSound
BY DEF IInv, TypeOK, UnbornUntouched, ReceiptsWhole, ItemsSound, LifecycleStep, UserKept

LEMMA PendingsRest ==
  ASSUME IInv, UNCHANGED pending PROVE PendingsSound
BY DEF IInv, TypeOK, LiveHasContent, PendingsSound, Decided, NoneFreed

LEMMA RequestsRest ==
  ASSUME IInv, UNCHANGED <<receipt, recent, actor, refining, today>> PROVE RequestsSound
BY DEF IInv, TypeOK, MovesForward, NewSends, RequestsSound

\* Rows that are edited where they are.
LEMMA RowsEdited ==
  ASSUME IInv, item' \in [Items -> ItemRow], UNCHANGED <<outcome, receipt>>,
         \A i \in Items :
           /\ item'[i].status = item[i].status /\ item'[i].receipt = item[i].receipt
           /\ item'[i].source = "user" => item[i].status # "unborn"
           /\ item[i].source = "user" =>
                item'[i].source = "user" \/ item'[i].storage # "default"
  PROVE  ItemsSound
BY DEF IInv, TypeOK, UnbornUntouched, ReceiptsWhole, ItemsSound, LifecycleStep, UserKept

\* Rows that enter the pantry.
LEMMA RowsEnter ==
  ASSUME IInv, item' \in [Items -> ItemRow], UNCHANGED outcome,
         NEW S \in SUBSET Items, receipt \subseteq receipt',
         \A i \in S : /\ item[i].status = "unborn" /\ item'[i].status = "active"
                      /\ item'[i].receipt \in receipt' \cup {None},
         \A i \in Items \ S : item'[i] = item[i]
  PROVE  ItemsSound
<1>1. Lifecycle!Enter
  BY DEF Lifecycle!Enter
<1>2. QED
  BY <1>1 DEF IInv, TypeOK, UnbornUntouched, ReceiptsWhole, ItemsSound, LifecycleStep, UserKept

\* Rows that leave it.
LEMMA RowsLeave ==
  ASSUME IInv, item' \in [Items -> ItemRow],
         NEW S \in SUBSET Items, NEW why \in Terminal, ReceiptsWhole',
         \A i \in S : item[i].status = "active" /\ item'[i].status = why,
         \A i \in Items \ S : item'[i].status = item[i].status,
         \A i \in Items : item'[i].source = item[i].source,
         outcome' = [i \in Items |-> IF i \in S /\ why \in {"eaten", "tossed"}
                                    THEN why ELSE outcome[i]]
  PROVE  ItemsSound
<1>1. Lifecycle!Leave
  BY DEF Lifecycle!Leave, Lifecycle!Terminal, Lifecycle!Counted, Terminal
<1>2. outcome' \in [Items -> {"none", "eaten", "tossed"}]
  BY DEF IInv, TypeOK
<1>3. UnbornUntouched'
  BY DEF IInv, UnbornUntouched, Terminal
<1>4. QED
  BY <1>1, <1>2, <1>3 DEF ItemsSound, LifecycleStep, UserKept

\* Proposals overtaken by an edit of their item.
LEMMA PendingsOvertaken ==
  ASSUME IInv, NEW S, pending' = Expired(S) PROVE PendingsSound
BY ExpiredRows DEF IInv, TypeOK, LiveHasContent, PendingsSound, Decided, NoneFreed

\* A proposal that is decided, or only known to be overdue.
LEMMA PendingDecided ==
  ASSUME IInv, NEW p \in Pendings, pending[p].status = "pending",
         NEW row \in PendingRow, row.what = pending[p].what, row.status # "free",
         pending' = [pending EXCEPT ![p] = row]
  PROVE  PendingsSound
BY DEF IInv, TypeOK, LiveHasContent, PendingsSound, Decided, NoneFreed

-----------------------------------------------------------------------------
(* The steps.                                                              *)

LEMMA ItemTypes ==
  ASSUME IInv, NEW i \in Items
  PROVE  item[i] \in ItemRow /\ item \in [Items -> ItemRow]
BY DEF IInv, TypeOK

LEMMA ItemSteps ==
  ASSUME IInv, NEW i \in Items, ItemStep(i) PROVE Sound
<1>0. ASSUME UNCHANGED receipt, \A j \in Items : item'[j].receipt = item[j].receipt
      PROVE  ReceiptsWhole'
  BY <1>0 DEF IInv, ReceiptsWhole
<1>1. ASSUME NEW why \in Terminal, SetTerminal(i, why) PROVE Sound
  <2>1. item' = [item EXCEPT ![i] = [item[i] EXCEPT !.status = why, !.snoozed = FALSE]]
    BY <1>1 DEF SetTerminal, Changes
  <2>2. item' \in [Items -> ItemRow] /\ \A j \in Items : item'[j].source = item[j].source
    BY <2>1, ItemTypes DEF ItemRow
  <2>3. outcome' = [j \in Items |-> IF j \in {i} /\ why \in {"eaten", "tossed"}
                                   THEN why ELSE outcome[j]]
    BY <1>1 DEF SetTerminal, IInv, TypeOK
  <2>4. ItemsSound
    <3>1. item[i].status = "active" /\ item'[i].status = why
      BY <1>1, <2>1, ItemTypes DEF SetTerminal, ItemRow
    <3>2. \A j \in Items \ {i} : item'[j].status = item[j].status
      BY <2>1, ItemTypes
    <3>3. /\ \A j \in {i} : item[j].status = "active" /\ item'[j].status = why
          /\ {i} \in SUBSET Items
      BY <3>1
    <3>4. ReceiptsWhole'
      BY <1>0, <1>1, <2>1, ItemTypes DEF SetTerminal, ItemRow
    <3>5. QED
      BY <2>2, <2>3, <3>2, <3>3, <3>4, RowsLeave, Zenon
  <2>5. PendingsSound /\ RequestsSound
    BY <1>1, PendingsOvertaken, RequestsRest DEF SetTerminal
  <2>6. QED
    BY <2>4, <2>5 DEF Sound
<1>2. CASE Snooze(i)
  <2>1. item' = [item EXCEPT ![i] = [item[i] EXCEPT !.snoozed = TRUE]]
    BY <1>2 DEF Snooze, Changes
  <2>2. /\ item' \in [Items -> ItemRow]
        /\ \A j \in Items : /\ item'[j].status = item[j].status
                            /\ item'[j].source = item[j].source
                            /\ item'[j].receipt = item[j].receipt
    BY <2>1, ItemTypes DEF ItemRow
  <2>3. ItemsSound
    BY <1>2, <2>2, RowsEdited DEF Snooze, IInv, UnbornUntouched
  <2>4. PendingsSound /\ RequestsSound
    BY <1>2, PendingsOvertaken, RequestsRest DEF Snooze
  <2>5. QED
    BY <2>3, <2>4 DEF Sound
<1>3. ASSUME NEW d \in Durations, Nudge(i, d) PROVE Sound
  <2> DEFINE new == [item[i] EXCEPT !.days = d, !.source = "user"]
  <2>1. /\ new \in ItemRow /\ new.status = item[i].status /\ new.source = "user"
        /\ new.receipt = item[i].receipt
    BY ItemTypes DEF ItemRow
  <2>2. item' = [item EXCEPT ![i] = Dated(new)]
    BY <1>3 DEF Nudge, Changes
  <2>3. /\ item' \in [Items -> ItemRow]
        /\ item'[i].status = item[i].status /\ item'[i].source = "user"
        /\ item'[i].receipt = item[i].receipt
        /\ \A j \in Items \ {i} : item'[j] = item[j]
    BY <2>1, <2>2, DatedRow, ItemTypes
  <2>4. ItemsSound
    BY <1>3, <2>3, RowsEdited DEF Nudge, IInv, UnbornUntouched
  <2>5. PendingsSound /\ RequestsSound
    BY <1>3, PendingsOvertaken, RequestsRest DEF Nudge
  <2>6. QED
    BY <2>4, <2>5 DEF Sound
<1>4. ASSUME NEW d \in Durations, AddDegraded(i, d) PROVE Sound
  <2>1. today \in Days /\ today + d \in Nat
    BY PantryAssumption DEF IInv, TypeOK, Days
  <2>2. item' = [item EXCEPT ![i] = Added(d, today + d, today, FALSE)]
    BY <1>4 DEF AddDegraded, Changes
  <2>3. /\ item' \in [Items -> ItemRow] /\ item'[i].status = "active"
        /\ item'[i].receipt = None
        /\ \A j \in Items \ {i} : item'[j] = item[j]
    BY <2>1, <2>2, AddedRow, ItemTypes
  <2>4. ItemsSound
    <3>1. \A j \in {i} : /\ item[j].status = "unborn" /\ item'[j].status = "active"
                         /\ item'[j].receipt \in receipt' \cup {None}
      BY <1>4, <2>3 DEF AddDegraded
    <3>2. UNCHANGED <<outcome, receipt>>
      BY <1>4 DEF AddDegraded
    <3>3. {i} \in SUBSET Items /\ receipt \subseteq receipt'
      BY <3>2
    <3>4. QED
      BY <2>3, <3>1, <3>2, <3>3, RowsEnter
  <2>5. PendingsSound /\ RequestsSound
    BY <1>4, PendingsRest, RequestsRest DEF AddDegraded
  <2>6. QED
    BY <2>4, <2>5 DEF Sound
<1>5. CASE UndoAdd(i)
  <2>1. item' = [item EXCEPT ![i] = [item[i] EXCEPT !.status = "removed"]]
    BY <1>5 DEF UndoAdd, Changes
  <2>2. /\ item' \in [Items -> ItemRow] /\ item'[i].status = "removed"
        /\ \A j \in Items : item'[j].source = item[j].source
        /\ \A j \in Items \ {i} : item'[j].status = item[j].status
    BY <2>1, ItemTypes DEF ItemRow, Terminal
  <2>3. outcome' = [j \in Items |-> IF j \in {i} /\ "removed" \in {"eaten", "tossed"}
                                   THEN "removed" ELSE outcome[j]]
    BY <1>5 DEF UndoAdd, IInv, TypeOK
  <2>4. ItemsSound
    <3>1. item[i].status = "active" /\ "removed" \in Terminal
      BY <1>5 DEF UndoAdd, IsUndoableAdd, Terminal
    <3>2. /\ \A j \in {i} : item[j].status = "active" /\ item'[j].status = "removed"
          /\ {i} \in SUBSET Items
      BY <2>2, <3>1
    <3>3. ReceiptsWhole'
      BY <1>0, <1>5, <2>1, ItemTypes DEF UndoAdd, ItemRow
    <3>4. QED
      BY <2>2, <2>3, <3>1, <3>2, <3>3, RowsLeave, Zenon
  <2>5. PendingsSound /\ RequestsSound
    BY <1>5, PendingsOvertaken, RequestsRest DEF UndoAdd
  <2>6. QED
    BY <2>4, <2>5 DEF Sound
<1>6. QED
  BY <1>1, <1>2, <1>3, <1>4, <1>5 DEF ItemStep

\* A request that begins or ends, with nothing else of the requests changed.
LEMMA ActorChanges ==
  ASSUME IInv, NEW a \in Actors, NEW request \in Requests,
         request.at = "moving" => CanMoveTo(request.loaded.storage, request.target),
         request.at = "sending" => pending'[request.pending].status # "free",
         actor' = [actor EXCEPT ![a] = request],
         receipt' \subseteq Receipts, recent' \subseteq Items \cup Receipts,
         refining' \subseteq Refinement, UNCHANGED today
  PROVE  RequestsSound
<1>1. actor' \in [Actors -> Requests]
  BY DEF IInv, TypeOK
<1>2. MovesForward'
  <2> SUFFICES ASSUME NEW b \in Actors, actor'[b].at = "moving"
               PROVE  CanMoveTo(actor'[b].loaded.storage, actor'[b].target)
    BY DEF MovesForward
  <2>1. actor'[b] = IF b = a THEN request ELSE actor[b]
    BY DEF IInv, TypeOK
  <2>2. CASE b = a
    BY <2>1, <2>2
  <2>3. CASE b # a
    BY <2>1, <2>3 DEF IInv, MovesForward
  <2>4. QED
    BY <2>2, <2>3
<1>3. NewSends
  BY DEF IInv, TypeOK, NewSends
<1>4. QED
  BY <1>1, <1>2, <1>3 DEF IInv, TypeOK, RequestsSound

LEMMA ActorEnds ==
  ASSUME IInv, NEW a \in Actors, actor' = [actor EXCEPT ![a] = Idle],
         receipt' \subseteq Receipts, recent' \subseteq Items \cup Receipts,
         refining' \subseteq Refinement, UNCHANGED today
  PROVE  RequestsSound
<1>1. Idle \in Requests /\ Idle.at # "moving" /\ Idle.at # "sending"
  BY DEF Requests, Idle
<1>2. QED
  BY <1>1, ActorChanges

LEMMA MoveSteps ==
  ASSUME IInv, NEW a \in Actors,
         \/ \E i \in Items, target \in {"fridge", "frozen"} : MoveStart(a, i, target)
         \/ \E d \in Durations : MoveLand(a, d)
  PROVE  Sound
<1>1. ASSUME NEW i \in Items, NEW target \in {"fridge", "frozen"}, MoveStart(a, i, target)
      PROVE  Sound
  <2> DEFINE request == [at |-> "moving", item |-> i, target |-> target,
                         day |-> today, loaded |-> item[i]]
  <2>1. request \in Requests
    BY ItemTypes DEF IInv, TypeOK, Requests, Moving
  <2>2. request.loaded.storage = item[i].storage /\ request.target = target
    OBVIOUS
  <2>3. RequestsSound
    BY <1>1, <2>1, <2>2, ActorChanges DEF MoveStart, IInv, TypeOK
  <2>4. ItemsSound /\ PendingsSound
    BY <1>1, ItemsRest, PendingsRest DEF MoveStart
  <2>5. QED
    BY <2>3, <2>4 DEF Sound
<1>2. ASSUME NEW d \in Durations, MoveLand(a, d) PROVE Sound
  <2> DEFINE m == actor[a]
             new == Moved(m.loaded, m.target, m.day, d)
             row == Written(item[m.item], m.loaded, new)
  <2>1. m \in Moving
    BY <1>2 DEF MoveLand, IInv, TypeOK, Requests, Idle, Proposing, Sending, Scanning
  <2>2. /\ m.item \in Items /\ m.loaded \in ItemRow /\ m.day \in Days
        /\ m.target \in {"fridge", "frozen"} /\ m.target # m.loaded.storage
    BY <1>2, <2>1 DEF MoveLand, Moving, IInv, MovesForward, CanMoveTo
  <2>3. /\ new \in ItemRow /\ new.status = m.loaded.status
        /\ new.storage = m.target /\ new.source = "estimate"
        /\ new.receipt = m.loaded.receipt
    BY <2>2, MovedRow
  <2>4. item[m.item] \in ItemRow
    BY <2>2, ItemTypes
  <2>5. /\ row \in ItemRow /\ row.status = item[m.item].status
        /\ row.storage = m.target /\ row.source = "estimate"
        /\ row.receipt = item[m.item].receipt
    BY <2>2, <2>3, <2>4, WrittenRow
  <2>6. item' = [item EXCEPT ![m.item] = row]
    BY <1>2 DEF MoveLand, Changes
  <2>7. /\ item' \in [Items -> ItemRow]
        /\ item'[m.item] = row /\ \A i \in Items \ {m.item} : item'[i] = item[i]
    BY <2>2, <2>5, <2>6, ItemTypes
  <2>8. ItemsSound
    <3>1. UNCHANGED <<outcome, receipt>>
      BY <1>2 DEF MoveLand
    <3>2. ASSUME NEW i \in Items
          PROVE /\ item'[i].status = item[i].status /\ item'[i].receipt = item[i].receipt
                /\ item'[i].source = "user" => item[i].status # "unborn"
                /\ item[i].source = "user" =>
                     item'[i].source = "user" \/ item'[i].storage # "default"
      <4>1. CASE i = m.item
        BY <2>2, <2>5, <2>7, <4>1
      <4>2. CASE i # m.item
        BY <2>7, <4>2 DEF IInv, UnbornUntouched
      <4>3. QED
        BY <4>1, <4>2
    <3>3. QED
      BY <2>7, <3>1, <3>2, RowsEdited
  <2>9. PendingsSound
    BY <1>2, PendingsOvertaken DEF MoveLand
  <2>10. RequestsSound
    BY <1>2, ActorEnds DEF MoveLand, IInv, TypeOK
  <2>11. QED
    BY <2>8, <2>9, <2>10 DEF Sound
<1>3. QED
  BY <1>1, <1>2

\* A proposal that is made, in a row that is free.
LEMMA PendingMade ==
  ASSUME IInv, NEW p \in Pendings, pending[p].status = "free",
         NEW s \in {"pending", "cancelled"}, NEW what \in CorrectPending \cup AddPending,
         pending' = [pending EXCEPT ![p] = [status |-> s, overdue |-> FALSE, what |-> what]]
  PROVE  PendingsSound
<1> DEFINE row == [status |-> s, overdue |-> FALSE, what |-> what]
<1>1. row \in PendingRow /\ row.what \in CorrectPending \cup AddPending
  BY DEF PendingRow
<1>2. pending' = [pending EXCEPT ![p] = row]
  OBVIOUS
<1> HIDE DEF row
<1>3. QED
  BY <1>1, <1>2 DEF IInv, TypeOK, LiveHasContent, PendingsSound, Decided, NoneFreed

\* A proposal is stored and its card is being sent.
LEMMA Created ==
  ASSUME IInv, NEW a \in Actors, NEW p \in Pendings,
         NEW what \in CorrectPending \cup AddPending, actor[a].at # "moving",
         Create(a, p, what)
  PROVE  Sound
<1> DEFINE request == [at |-> "sending", pending |-> p]
<1>1. request \in Requests /\ request.at # "moving"
  BY DEF Requests, Sending
<1>2. pending'[p].status # "free"
  BY DEF Create, IInv, TypeOK
<1>6. RequestsSound
  BY <1>1, <1>2, ActorChanges DEF Create, IInv, TypeOK
<1>3. PendingsSound
  BY PendingMade DEF Create
<1>4. ItemsSound
  BY ItemsRest DEF Create
<1>5. QED
  BY <1>3, <1>4, <1>6 DEF Sound

\* The send of a card fails, whatever has become of the proposal.
LEMMA SendFails ==
  ASSUME IInv, NEW a \in Actors, ReplyFails(a)
  PROVE  Sound
<1> DEFINE p == actor[a].pending
           row == [pending[p] EXCEPT !.status = "cancelled"]
<1>1. /\ p \in Pendings /\ actor[a].at = "sending" /\ pending[p] \in PendingRow
      /\ pending[p].status # "free"
  BY DEF ReplyFails, IInv, TypeOK, SentIsStored, Requests, Idle, Moving, Proposing,
         Sending, Scanning
<1>2. row \in PendingRow /\ row.what = pending[p].what /\ row.status # "free"
  BY <1>1 DEF PendingRow
<1>3. pending' = [pending EXCEPT ![p] = row]
  BY DEF ReplyFails, Becomes
<1>4. SendLost(p)
  BY <1>1, <1>3 DEF IInv, TypeOK, SendLost
<1> HIDE DEF row, p
<1>5. PendingsSound
  BY <1>1, <1>2, <1>3, <1>4 DEF IInv, TypeOK, LiveHasContent, PendingsSound, Decided, NoneFreed
<1>6. ItemsSound /\ RequestsSound
  BY ItemsRest, ActorEnds DEF ReplyFails, IInv, TypeOK
<1>7. QED
  BY <1>5, <1>6 DEF Sound

LEMMA ProposeSteps ==
  ASSUME IInv, NEW a \in Actors,
         \/ \E i \in Items : ProposeStart(a, i)
         \/ \E p \in Pendings : ProposeEnd(a, p) \/ ProposeAdd(a, p)
         \/ ProposeFails(a)
         \/ ReplySent(a)
         \/ ReplyFails(a)
  PROVE  Sound
<1>1. ASSUME NEW i \in Items, ProposeStart(a, i) PROVE Sound
  <2>1. PICK diff \in {[days |-> None, expires |-> None]}
                         \cup {DiffFor(item[i], d) : d \in Durations} :
          actor' = [actor EXCEPT ![a] = [at |-> "proposing", item |-> i, diff |-> diff]]
    BY <1>1 DEF ProposeStart
  <2>2. diff \in Diff
    <3>1. [days |-> None, expires |-> None] \in Diff
      BY DEF Diff
    <3>2. ASSUME NEW d \in Durations PROVE DiffFor(item[i], d) \in Diff
      <4>1. Origin(item[i]) \in Days
        BY ItemTypes DEF ItemRow, Origin
      <4>2. Origin(item[i]) \in Nat /\ d \in Nat
        BY <4>1, PantryAssumption DEF Days
      <4>3. Origin(item[i]) + d \in Nat
        BY <4>2
      <4>4. QED
        BY <4>3 DEF DiffFor, Diff
    <3>3. QED
      BY <3>1, <3>2
  <2> DEFINE request == [at |-> "proposing", item |-> i, diff |-> diff]
  <2>3. request \in Requests /\ request.at # "moving" /\ request.at # "sending"
    BY <2>2 DEF Requests, Proposing
  <2>4. RequestsSound
    BY <1>1, <2>1, <2>3, ActorChanges DEF ProposeStart, IInv, TypeOK
  <2>5. ItemsSound /\ PendingsSound
    BY <1>1, ItemsRest, PendingsRest DEF ProposeStart
  <2>6. QED
    BY <2>4, <2>5 DEF Sound
<1>2. ASSUME NEW p \in Pendings, ProposeEnd(a, p) PROVE Sound
  <2> DEFINE what == [kind |-> "correct", item |-> actor[a].item, diff |-> actor[a].diff]
  <2>1. actor[a] \in Proposing
    BY <1>2 DEF ProposeEnd, IInv, TypeOK, Requests, Idle, Moving, Sending, Scanning
  <2>2. what \in CorrectPending \cup AddPending
    BY <2>1 DEF Proposing, CorrectPending
  <2>3. QED
    BY <1>2, <2>1, <2>2, Created DEF ProposeEnd, Proposing
<1>3. CASE ProposeFails(a)
  BY <1>3, ItemsRest, PendingsRest, ActorEnds DEF ProposeFails, IInv, TypeOK, Sound
<1>4. ASSUME NEW p \in Pendings, ProposeAdd(a, p) PROVE Sound
  <2>1. PICK d \in Durations, explicit \in BOOLEAN, past \in BOOLEAN :
          Create(a, p, [kind |-> "add",
                        add |-> [days |-> d, purchased |-> today,
                                 expires |-> IF past THEN today ELSE today + d,
                                 explicit |-> explicit]])
    BY <1>4 DEF ProposeAdd
  <2> DEFINE what == [kind |-> "add",
                      add |-> [days |-> d, purchased |-> today,
                               expires |-> IF past THEN today ELSE today + d,
                               explicit |-> explicit]]
  <2>2. today \in Days /\ today \in Nat /\ today + d \in Nat
    BY PantryAssumption DEF IInv, TypeOK, Days
  <2>3. what \in CorrectPending \cup AddPending
    BY <2>2 DEF AddPending, Addition
  <2>4. actor[a].at # "moving"
    BY <1>4 DEF ProposeAdd, Idle
  <2>5. QED
    BY <2>1, <2>3, <2>4, Created
<1>5. CASE ReplySent(a)
  BY <1>5, ItemsRest, PendingsRest, ActorEnds DEF ReplySent, IInv, TypeOK, Sound
<1>6. CASE ReplyFails(a)
  BY <1>6, SendFails
<1>7. QED
  BY <1>1, <1>2, <1>3, <1>4, <1>5, <1>6

LEMMA ScanSteps ==
  ASSUME IInv, NEW a \in Actors,
         (\E r \in Receipts : ScanStart(a, r)) \/ ScanEnd(a) \/ ScanFails(a)
  PROVE  Sound
<1>1. ASSUME NEW r \in Receipts, ScanStart(a, r) PROVE Sound
  <2> DEFINE request == [at |-> "scanning", receipt |-> r]
  <2>1. request \in Requests /\ request.at # "moving" /\ request.at # "sending"
    BY DEF Requests, Scanning
  <2>2. RequestsSound
    BY <1>1, <2>1, ActorChanges DEF ScanStart, IInv, TypeOK
  <2>3. ItemsSound /\ PendingsSound
    BY <1>1, ItemsRest, PendingsRest DEF ScanStart
  <2>4. QED
    BY <2>2, <2>3 DEF Sound
<1>2. CASE ScanFails(a)
  BY <1>2, ItemsRest, PendingsRest, ActorEnds DEF ScanFails, IInv, TypeOK, Sound
<1>3. CASE ScanEnd(a)
  <2> DEFINE r == actor[a].receipt
  <2>1. r \in Receipts
    BY <1>3 DEF ScanEnd, IInv, TypeOK, Requests, Idle, Moving, Proposing, Sending, Scanning
  <2>2. PendingsSound
    BY <1>3, PendingsRest DEF ScanEnd
  <2>3. CASE r \in receipt
    <3>1. UNCHANGED <<item, outcome, receipt, recent, refining, today>>
      BY <1>3, <2>3 DEF ScanEnd
    <3>2. ItemsSound /\ RequestsSound
      BY <1>3, <3>1, ItemsRest, ActorEnds DEF ScanEnd, IInv, TypeOK
    <3>3. QED
      BY <2>2, <3>2 DEF Sound
  <2>4. CASE r \notin receipt
    <3>1. PICK S \in SUBSET {i \in Items : item[i].status = "unborn"} :
          \E F, U \in SUBSET S, d \in Durations, b \in 0..today :
            /\ S # {}
            /\ F \cap U = {}
            /\ item' = [i \in Items |-> IF i \in S THEN Scanned(r, i \in F, d, b) ELSE item[i]]
            /\ refining' = IF U = {} THEN refining
                           ELSE refining \cup
                                {[receipt |-> r, items |-> U, searching |-> FALSE]}
      BY <1>3, <2>4, Zenon DEF ScanEnd
    <3>2. PICK F \in SUBSET S, U \in SUBSET S, d \in Durations, b \in 0..today :
            /\ S # {}
            /\ F \cap U = {}
            /\ item' = [i \in Items |-> IF i \in S THEN Scanned(r, i \in F, d, b) ELSE item[i]]
            /\ refining' = IF U = {} THEN refining
                           ELSE refining \cup
                                {[receipt |-> r, items |-> U, searching |-> FALSE]}
      BY <3>1, Zenon
    <3>3. b \in Days
      BY PantryAssumption DEF IInv, TypeOK, Days
    <3>4. \A i \in Items : /\ Scanned(r, i \in F, d, b) \in ItemRow
                           /\ Scanned(r, i \in F, d, b).status = "active"
                           /\ Scanned(r, i \in F, d, b).receipt = r
      <4> SUFFICES ASSUME NEW i \in Items
                   PROVE  /\ Scanned(r, i \in F, d, b) \in ItemRow
                          /\ Scanned(r, i \in F, d, b).status = "active"
                          /\ Scanned(r, i \in F, d, b).receipt = r
        OBVIOUS
      <4>1. (i \in F) \in BOOLEAN
        OBVIOUS
      <4>2. QED
        <5> DEFINE frozen == i \in F
        <5>1. r \in Receipts /\ b \in Days /\ frozen \in BOOLEAN
          BY <2>1, <3>3, <4>1
        <5> HIDE DEF frozen, r
        <5>2. /\ Scanned(r, frozen, d, b) \in ItemRow
              /\ Scanned(r, frozen, d, b).status = "active"
              /\ Scanned(r, frozen, d, b).receipt = r
          BY <5>1, ScannedRow
        <5>3. QED
          BY <5>2 DEF frozen
    <3>5. item' \in [Items -> ItemRow]
      BY <3>2, <3>4, ItemTypes
    <3>6. ItemsSound
      <4>1. S \in SUBSET Items /\ UNCHANGED outcome /\ receipt' = receipt \cup {r}
        BY <1>3, <2>4 DEF ScanEnd
      <4>2. \A i \in S : /\ item[i].status = "unborn" /\ item'[i].status = "active"
                         /\ item'[i].receipt = r
        BY <3>2, <3>4
      <4>3. \A i \in Items \ S : item'[i] = item[i]
        BY <3>2
      <4>4. QED
        BY <3>5, <4>1, <4>2, <4>3, RowsEnter
    <3>7. refining' \subseteq Refinement
      <4>1. [receipt |-> r, items |-> U, searching |-> FALSE] \in Refinement
        BY <2>1 DEF Refinement
      <4>2. QED
        BY <3>2, <4>1 DEF IInv, TypeOK
    <3>8. receipt' \subseteq Receipts /\ recent' \subseteq Items \cup Receipts
      BY <1>3, <2>1, <2>4 DEF ScanEnd, IInv, TypeOK
    <3>9. RequestsSound
      BY <1>3, <3>7, <3>8, ActorEnds DEF ScanEnd
    <3>10. QED
      BY <2>2, <3>6, <3>9 DEF Sound
  <2>5. QED
    BY <2>3, <2>4
<1>4. QED
  BY <1>1, <1>2, <1>3

LEMMA PendingSteps ==
  ASSUME IInv, NEW p \in Pendings, PendingStep(p) PROVE Sound
<1> USE DEF Tapped
<1>1. /\ pending \in [Pendings -> PendingRow] /\ pending[p] \in PendingRow
      /\ pending[p].status = "pending" => pending[p].what \in CorrectPending \cup AddPending
  BY DEF IInv, TypeOK, LiveHasContent
<1>2. ASSUME NEW s \in {"applied", "cancelled", "expired"}, Tapped(p), Becomes(p, s)
      PROVE  PendingsSound
  <2> DEFINE row == [pending[p] EXCEPT !.status = s]
  <2>1. row \in PendingRow /\ row.what = pending[p].what /\ row.status # "free"
    BY <1>1 DEF PendingRow
  <2>2. pending' = [pending EXCEPT ![p] = row]
    BY <1>2 DEF Becomes
  <2> HIDE DEF row
  <2>3. QED
    BY <1>2, <2>1, <2>2, PendingDecided
<1>3. CASE TapOverdue(p) \/ TapCancel(p)
  <2>1. PendingsSound
    BY <1>2, <1>3 DEF TapOverdue, TapCancel
  <2>2. ItemsSound /\ RequestsSound
    BY <1>3, ItemsRest, RequestsRest DEF TapOverdue, TapCancel
  <2>3. QED
    BY <2>1, <2>2 DEF Sound
<1>4. CASE PendingTimesOut(p)
  <2> DEFINE row == [pending[p] EXCEPT !.overdue = TRUE]
  <2>1. row \in PendingRow /\ row.what = pending[p].what /\ row.status = pending[p].status
    BY <1>1 DEF PendingRow
  <2>2. pending' = [pending EXCEPT ![p] = row]
    BY <1>4 DEF PendingTimesOut
  <2> HIDE DEF row
  <2>3. PendingsSound
    BY <1>4, <2>1, <2>2, PendingDecided DEF PendingTimesOut
  <2>4. ItemsSound /\ RequestsSound
    BY <1>4, ItemsRest, RequestsRest DEF PendingTimesOut
  <2>5. QED
    BY <2>3, <2>4 DEF Sound
<1>6. CASE TapApplyCorrect(p)
  <2> DEFINE i == pending[p].what.item
             diff == pending[p].what.diff
  <2>1. i \in Items /\ diff \in Diff
    BY <1>1, <1>6 DEF TapApplyCorrect, CorrectPending, AddPending
  <2>2. RequestsSound /\ UNCHANGED <<outcome, receipt>>
    BY <1>6, RequestsRest DEF TapApplyCorrect
  <2>3. CASE item[i].status # "active"
    <3>1. Becomes(p, "cancelled") /\ UNCHANGED item /\ Tapped(p)
      BY <1>6, <2>3 DEF TapApplyCorrect
    <3>2. ItemsSound /\ PendingsSound
      BY <1>2, <2>2, <3>1, ItemsRest
    <3>3. QED
      BY <2>2, <3>2 DEF Sound
  <2>4. CASE item[i].status = "active"
    <3> DEFINE row == Corrected(item[i], diff)
    <3>1. /\ item' = [item EXCEPT ![i] = row]
          /\ pending' = [Expired({i}) EXCEPT ![p].status = "applied"]
      BY <1>6, <2>4 DEF TapApplyCorrect, Changes
    <3>2. /\ row \in ItemRow /\ row.status = item[i].status
          /\ row.source \in {item[i].source, "user"} /\ row.receipt = item[i].receipt
      BY <2>1, ItemTypes, CorrectedRow
    <3> HIDE DEF row
    <3>3. /\ item' \in [Items -> ItemRow] /\ item'[i] = row
          /\ \A j \in Items \ {i} : item'[j] = item[j]
      BY <2>1, <3>1, <3>2, ItemTypes
    <3>4. ItemsSound
      <4>1. ASSUME NEW j \in Items
            PROVE /\ item'[j].status = item[j].status /\ item'[j].receipt = item[j].receipt
                  /\ item'[j].source = "user" => item[j].status # "unborn"
                  /\ item[j].source = "user" =>
                       item'[j].source = "user" \/ item'[j].storage # "default"
        <5>1. CASE j = i
          BY <2>4, <3>2, <3>3, <5>1
        <5>2. CASE j # i
          BY <3>3, <5>2 DEF IInv, UnbornUntouched
        <5>3. QED
          BY <5>1, <5>2
      <4>2. QED
        BY <2>2, <3>3, <4>1, RowsEdited
    <3>5. PendingsSound
      <4> DEFINE late == Expired({i})
      <4>1. /\ late \in [Pendings -> PendingRow]
            /\ \A q \in Pendings :
                 /\ late[q].what = pending[q].what
                 /\ \/ late[q] = pending[q]
                    \/ pending[q].status = "pending" /\ late[q].status = "stale"
        BY <1>1, ExpiredRows
      <4>2. pending' = [late EXCEPT ![p] = [late[p] EXCEPT !.status = "applied"]]
        BY <3>1
      <4>3. Tapped(p)
        BY <1>6 DEF TapApplyCorrect
      <4> HIDE DEF late
      <4>4. /\ [late[p] EXCEPT !.status = "applied"] \in PendingRow
            /\ [late[p] EXCEPT !.status = "applied"].what = pending[p].what
            /\ [late[p] EXCEPT !.status = "applied"].status # "free"
        BY <4>1 DEF PendingRow
      <4>5. /\ pending' \in [Pendings -> PendingRow]
            /\ pending'[p].what = pending[p].what /\ pending'[p].status # "free"
            /\ \A q \in Pendings \ {p} : pending'[q] = late[q]
        BY <4>1, <4>2, <4>4
      <4>6. LiveHasContent'
        BY <1>1, <4>1, <4>3, <4>5 DEF IInv, LiveHasContent
      <4>7. Decided
        BY <4>1, <4>3, <4>5 DEF Decided
      <4>8. NoneFreed
        BY <4>1, <4>5 DEF NoneFreed
      <4>9. QED
        BY <4>5, <4>6, <4>7, <4>8 DEF PendingsSound
    <3>6. QED
      BY <2>2, <3>4, <3>5 DEF Sound
  <2>5. QED
    BY <2>3, <2>4
<1>7. ASSUME NEW i \in Items, TapApplyAdd(p, i) PROVE Sound
  <2> DEFINE add == pending[p].what.add
             row == Added(add.days, add.expires, add.purchased, add.explicit)
  <2>1. add \in Addition
    BY <1>1, <1>7 DEF TapApplyAdd, CorrectPending, AddPending
  <2>2. row \in ItemRow /\ row.status = "active" /\ row.receipt = None
    BY <2>1, AddedRow DEF Addition
  <2>3. item' = [item EXCEPT ![i] = row]
    BY <1>7 DEF TapApplyAdd, Changes
  <2> HIDE DEF row
  <2>4. /\ item' \in [Items -> ItemRow] /\ item'[i] = row
        /\ \A j \in Items \ {i} : item'[j] = item[j]
    BY <2>2, <2>3, ItemTypes
  <2>5. ItemsSound
    <3>1. /\ {i} \in SUBSET Items /\ UNCHANGED <<outcome, receipt>>
          /\ \A j \in {i} : /\ item[j].status = "unborn" /\ item'[j].status = "active"
                            /\ item'[j].receipt \in receipt' \cup {None}
      BY <1>7, <2>2, <2>4 DEF TapApplyAdd
    <3>2. QED
      BY <2>4, <3>1, RowsEnter
  <2>6. PendingsSound
    BY <1>2, <1>7 DEF TapApplyAdd
  <2>7. RequestsSound
    BY <1>7 DEF TapApplyAdd, IInv, TypeOK, MovesForward, NewSends, RequestsSound
  <2>8. QED
    BY <2>5, <2>6, <2>7 DEF Sound
<1>8. QED
  BY <1>3, <1>4, <1>6, <1>7 DEF PendingStep

LEMMA ReceiptSteps ==
  ASSUME IInv, ReceiptStep PROVE Sound
<1>1. ASSUME NEW r \in Receipts, UndoReceipt(r) PROVE Sound
  <2> DEFINE mine == {i \in Items : item[i].receipt = r}
             gone == {i \in mine : IsUntouched(item[i])}
             full == gone = mine
             row(i) == [item[i] EXCEPT !.status = IF i \in gone THEN "removed" ELSE @,
                                       !.receipt = IF i \in mine /\ full THEN None ELSE @]
  <2>1. /\ item' = [i \in Items |-> row(i)]
        /\ pending' = Expired(gone)
        /\ receipt' = IF full THEN receipt \ {r} ELSE receipt
        /\ UNCHANGED <<outcome, recent, actor, refining, today>>
    BY <1>1 DEF UndoReceipt
  <2>2. gone \subseteq Items /\ \A i \in gone : item[i].status = "active"
    BY DEF IsUntouched
  <2>3. ASSUME NEW i \in Items
        PROVE /\ row(i) \in ItemRow /\ row(i).source = item[i].source
              /\ i \in gone => row(i).status = "removed"
              /\ i \notin gone => row(i).status = item[i].status
              /\ row(i).receipt = IF i \in mine /\ full THEN None ELSE item[i].receipt
    <3> HIDE DEF gone, mine, full
    <3>1. QED
      BY ItemTypes DEF ItemRow, Terminal
  <2> HIDE DEF row, gone, full
  <2>4. ItemsSound
    <3>1. item' \in [Items -> ItemRow]
      BY <2>1, <2>3
    <3>2. \A i \in gone : item[i].status = "active" /\ item'[i].status = "removed"
      BY <2>1, <2>2, <2>3
    <3>3. \A i \in Items \ gone : item'[i].status = item[i].status
      BY <2>1, <2>3
    <3>4. \A i \in Items : item'[i].source = item[i].source
      BY <2>1, <2>3
    <3>5. outcome' = [i \in Items |-> IF i \in gone /\ "removed" \in {"eaten", "tossed"}
                                     THEN "removed" ELSE outcome[i]]
      BY <2>1 DEF IInv, TypeOK
    <3>6. gone \in SUBSET Items /\ "removed" \in Terminal
      BY <2>2 DEF Terminal
    <3>7. ReceiptsWhole'
      <4> SUFFICES ASSUME NEW i \in Items, item'[i].receipt # None
                   PROVE  item'[i].receipt \in receipt'
        BY DEF ReceiptsWhole
      <4>1. /\ item'[i].receipt = item[i].receipt
            /\ item[i].receipt \in receipt
            /\ full => i \notin mine
        BY <2>1, <2>3 DEF IInv, ReceiptsWhole
      <4>2. full => item[i].receipt # r
        BY <4>1
      <4>3. QED
        BY <2>1, <4>1, <4>2
    <3>8. QED
      BY <3>1, <3>2, <3>3, <3>4, <3>5, <3>6, <3>7, RowsLeave, Zenon
  <2>5. PendingsSound
    BY <2>1, PendingsOvertaken
  <2>6. RequestsSound
    BY <2>1 DEF IInv, TypeOK, MovesForward, NewSends, RequestsSound
  <2>7. QED
    BY <2>4, <2>5, <2>6 DEF Sound
<1>2. ASSUME NEW t \in refining, RefineStart(t) PROVE Sound
  <2>1. t \in Refinement
    BY DEF IInv, TypeOK
  <2> DEFINE S == {i \in t.items : Refinable(i)}
             next == [receipt |-> t.receipt, items |-> S, searching |-> TRUE]
  <2>2. S \subseteq Items
    BY <2>1 DEF Refinement
  <2>3. refining' \subseteq Refinement
    <3>1. next \in Refinement
      <4> HIDE DEF S
      <4>1. QED
        BY <2>1, <2>2 DEF Refinement
    <3>2. refining' \subseteq refining \cup {next}
      <4>1. refining' = (refining \ {t}) \cup IF S = {} THEN {} ELSE {next}
        BY <1>2 DEF RefineStart
      <4> HIDE DEF next, S
      <4>2. QED
        BY <4>1
    <3> HIDE DEF next, S
    <3>3. QED
      BY <3>1, <3>2 DEF IInv, TypeOK
  <2>4. RequestsSound
    BY <1>2, <2>3 DEF RefineStart, IInv, TypeOK, MovesForward, NewSends, RequestsSound
  <2>5. ItemsSound /\ PendingsSound
    BY <1>2, ItemsRest, PendingsRest DEF RefineStart
  <2>6. QED
    BY <2>4, <2>5 DEF Sound
<1>3. ASSUME NEW t \in refining, RefineEnd(t) PROVE Sound
  <2>1. t \in Refinement
    BY DEF IInv, TypeOK
  <2>2. PICK found \in [t.items -> Durations \cup {None}] :
          item' = [i \in Items |->
                  IF i \in t.items /\ found[i] # None /\ Refinable(i)
                  THEN Dated([item[i] EXCEPT !.days = found[i], !.source = "websearch"])
                  ELSE item[i]]
    BY <1>3 DEF RefineEnd
  <2>3. ASSUME NEW i \in Items
        PROVE /\ item'[i] \in ItemRow /\ item'[i].status = item[i].status
              /\ item'[i].receipt = item[i].receipt
              /\ \/ item'[i] = item[i]
                 \/ item'[i].source = "websearch" /\ item[i].source # "user"
    <3>1. CASE i \in t.items /\ found[i] # None /\ Refinable(i)
      <4> DEFINE new == [item[i] EXCEPT !.days = found[i], !.source = "websearch"]
      <4>1. /\ new \in ItemRow /\ new.status = item[i].status /\ new.source = "websearch"
            /\ new.receipt = item[i].receipt
        BY <3>1, ItemTypes DEF ItemRow
      <4>2. item'[i] = Dated(new)
        BY <2>2, <3>1
      <4> HIDE DEF new
      <4>3. QED
        BY <3>1, <4>1, <4>2, DatedRow DEF Refinable, IsUntouched
    <3>2. CASE ~(i \in t.items /\ found[i] # None /\ Refinable(i))
      BY <2>2, <3>2, ItemTypes
    <3>3. QED
      BY <3>1, <3>2
  <2>4. ItemsSound
    <3>1. item' \in [Items -> ItemRow] /\ UNCHANGED <<outcome, receipt>>
      BY <1>3, <2>2, <2>3 DEF RefineEnd
    <3>2. QED
      BY <2>3, <3>1, RowsEdited DEF IInv, UnbornUntouched
  <2>5. PendingsSound
    BY <1>3, PendingsRest DEF RefineEnd
  <2>6. RequestsSound
    BY <1>3 DEF RefineEnd, IInv, TypeOK, MovesForward, NewSends, RequestsSound
  <2>7. QED
    BY <2>4, <2>5, <2>6 DEF Sound
<1>4. ASSUME NEW x \in recent, UndoCloses(x) PROVE Sound
  <2>1. RequestsSound
    BY <1>4 DEF UndoCloses, IInv, TypeOK, MovesForward, NewSends, RequestsSound
  <2>2. QED
    BY <1>4, <2>1, ItemsRest, PendingsRest DEF UndoCloses, Sound
<1>5. QED
  BY <1>1, <1>2, <1>3, <1>4 DEF ReceiptStep

LEMMA OtherSteps ==
  ASSUME IInv, SweepExpired \/ Tomorrow \/ Restart PROVE Sound
<1>1. CASE SweepExpired
  <2>1. PendingsSound
    <3>1. pending' = [p \in Pendings |-> IF Tapped(p) /\ pending[p].overdue
                                        THEN [pending[p] EXCEPT !.status = "expired"]
                                        ELSE pending[p]]
      BY <1>1 DEF SweepExpired
    <3>2. \A p \in Pendings :
            /\ pending'[p] \in PendingRow /\ pending'[p].what = pending[p].what
            /\ (pending'[p] = pending[p] \/ pending[p].status = "pending")
            /\ (pending[p].status # "free" => pending'[p].status # "free")
      BY <3>1 DEF Tapped, PendingRow, IInv, TypeOK
    <3>3. pending' \in [Pendings -> PendingRow]
      BY <3>1, <3>2
    <3>4. LiveHasContent'
      BY <3>2 DEF IInv, LiveHasContent
    <3>5. QED
      BY <3>2, <3>3, <3>4 DEF PendingsSound, Decided, NoneFreed
  <2>2. ItemsSound /\ RequestsSound
    BY <1>1, ItemsRest, RequestsRest DEF SweepExpired
  <2>3. QED
    BY <2>1, <2>2 DEF Sound
<1>2. CASE Tomorrow
  <2>1. today' \in Days
    BY <1>2, PantryAssumption DEF Tomorrow, IInv, TypeOK, Days
  <2>2. RequestsSound
    BY <1>2, <2>1 DEF Tomorrow, IInv, TypeOK, MovesForward, NewSends, RequestsSound
  <2>3. QED
    BY <1>2, <2>2, ItemsRest, PendingsRest DEF Tomorrow, Sound
<1>3. CASE Restart
  <2>1. actor' \in [Actors -> Requests] /\ MovesForward' /\ NewSends
    BY <1>3 DEF Restart, Requests, Idle, MovesForward, NewSends
  <2>2. RequestsSound
    BY <1>3, <2>1 DEF Restart, IInv, TypeOK, RequestsSound
  <2>3. QED
    BY <1>3, <2>2, ItemsRest, PendingsRest DEF Restart, Sound
<1>4. QED
  BY <1>1, <1>2, <1>3

-----------------------------------------------------------------------------
(* The theorems.                                                           *)

LEMMA InitIInv == Init => IInv
<1> SUFFICES ASSUME Init PROVE IInv
  OBVIOUS
<1>1. Unborn \in ItemRow /\ Unborn.source # "user"
  BY PantryAssumption DEF Unborn, ItemRow, Storages, Days, NoDate
<1>2. TypeOK
  BY <1>1, PantryAssumption DEF Init, TypeOK, PendingRow, Requests, Days
<1>3. MovesForward /\ UnbornUntouched /\ LiveHasContent /\ SentIsStored /\ ReceiptsWhole
  BY <1>1 DEF Init, MovesForward, UnbornUntouched, LiveHasContent, SentIsStored,
            ReceiptsWhole, Idle, Unborn
<1>4. QED
  BY <1>2, <1>3 DEF IInv

LEMMA StepSound == IInv /\ Next => Sound
<1> SUFFICES ASSUME IInv, Next PROVE Sound
  OBVIOUS
<1>1. ASSUME NEW i \in Items, ItemStep(i) PROVE Sound
  BY <1>1, ItemSteps
<1>2. ASSUME NEW a \in Actors, ActorStep(a) PROVE Sound
  BY <1>2, MoveSteps, ProposeSteps, ScanSteps DEF ActorStep
<1>3. ASSUME NEW p \in Pendings, PendingStep(p) PROVE Sound
  BY <1>3, PendingSteps
<1>4. QED
  BY <1>1, <1>2, <1>3, ReceiptSteps, OtherSteps DEF Next

LEMMA StutterSound == IInv /\ UNCHANGED vars => Sound
BY ItemsRest, PendingsRest, RequestsRest DEF vars, Sound

LEMMA Inductive == Spec => []IInv
<1>1. IInv /\ [Next]_vars => IInv'
  BY StepSound, StutterSound, SoundInvariant
<1>2. QED
  BY <1>1, InitIInv, PTL DEF Spec

\* Every table holds rows of its type, whatever requests overlap.
THEOREM TypeCorrect == Spec => []TypeOK
<1>1. IInv => TypeOK
  BY DEF IInv
<1>2. QED
  BY <1>1, Inductive, PTL

\* Undoing a receipt takes it away only with every item it brought: no order of
\* undos, rescans, moves and refinements leaves half a receipt (undo_receipt).
THEOREM ReceiptsStayWhole == Spec => []ReceiptsWhole
<1>1. IInv => ReceiptsWhole
  BY DEF IInv
<1>2. QED
  BY <1>1, Inductive, PTL

\* A proposal that was decided is never live again and so never applied a second
\* time, whichever of buttons, edits and the sweep comes later; only the failed send
\* of its own card still writes to it, and calls it cancelled (_set_terminal).
THEOREM DecidedForGood == Spec => DecisionsStand
<1>1. IInv /\ [Next]_vars =>
        [\A p \in Pendings :
           pending[p].status \notin {"free", "pending"} =>
             \/ pending'[p] = pending[p]
             \/ /\ pending'[p] = [pending[p] EXCEPT !.status = "cancelled"]
                /\ \E a \in Actors : actor[a].at = "sending" /\ actor[a].pending = p]_vars
  BY StepSound DEF Sound, PendingsSound, Decided, SendLost
<1>2. QED
  BY <1>1, Inductive, PTL DEF Spec, DecisionsStand

\* The duration a user gave outlives every refinement that was searching when it
\* was given (refine_receipt_items); only another storage replaces it.
THEOREM DurationKept == Spec => UserDurationKept
<1>1. IInv /\ [Next]_vars =>
        [\A i \in Items : item[i].source = "user" /\ item'[i].source # "user"
                             => item'[i].storage # "default"]_vars
  BY StepSound DEF Sound, ItemsSound, UserKept
<1>2. QED
  BY <1>1, Inductive, PTL DEF Spec, UserDurationKept

\* An item lives one life: whatever interleaves, it leaves the pantry once, for
\* one reason, with its outcome in the same commit (set_terminal and the undos).
THEOREM LivesOnce == Spec => KeepsLifecycle
<1>1. Init => Lifecycle!Init
  BY DEF Init, Lifecycle!Init, Unborn
<1>2. IInv /\ [Next]_vars =>
        [Lifecycle!Enter \/ Lifecycle!Leave]_<<[i \in Items |-> item[i].status], outcome>>
  BY StepSound, StutterSound DEF Sound, ItemsSound, LifecycleStep
<1>3. QED
  BY <1>1, <1>2, Inductive, PTL DEF Spec, KeepsLifecycle, Lifecycle!Spec

-----------------------------------------------------------------------------
(* Every edit of an item closes the proposals about it.                    *)
(* The edits themselves see to it; what enters the pantry or is refined is *)
(* covered by Born: a proposal is about an item that was in the pantry     *)
(* when it was made, so an item that enters has none.                      *)

InPantry(i) == item[i].status # "unborn"

Born ==
  /\ \A a \in Actors : actor[a].at = "proposing" => InPantry(actor[a].item)
  /\ \A p \in Pendings :
       pending[p].what # None /\ pending[p].what.kind = "correct" => InPantry(pending[p].what.item)

Edits ==
  \A i \in Items, p \in Pendings :
    Proposes(p, i) /\ UserEdited(i) => pending'[p].status # "pending"

-----------------------------------------------------------------------------
(* What a step leaves alone.                                               *)

\* A row that was in the pantry is never a row that is not there yet again.
LEMMA StaysInPantry ==
  ASSUME IInv, Next
  PROVE  \A i \in Items : item[i].status # "unborn" => item'[i].status # "unborn"
<1>1. LifecycleStep
  BY StepSound DEF Sound, ItemsSound
<1>2. CASE Lifecycle!Enter
  <2>1. PICK S \in SUBSET Items :
          [i \in Items |-> item'[i].status]
            = [i \in Items |-> IF i \in S THEN "active" ELSE [j \in Items |-> item[j].status][i]]
    BY <1>2 DEF Lifecycle!Enter
  <2>2. \A i \in Items : item'[i].status = IF i \in S THEN "active" ELSE item[i].status
    BY <2>1
  <2>3. QED
    BY <2>2
<1>3. CASE Lifecycle!Leave
  <2>1. PICK S \in SUBSET Items, why \in Lifecycle!Terminal :
          [i \in Items |-> item'[i].status]
            = [i \in Items |-> IF i \in S THEN why ELSE [j \in Items |-> item[j].status][i]]
    BY <1>3 DEF Lifecycle!Leave
  <2>2. \A i \in Items : item'[i].status = IF i \in S THEN why ELSE item[i].status
    BY <2>1
  <2>3. QED
    BY <2>2 DEF Lifecycle!Terminal
<1>4. CASE UNCHANGED <<[i \in Items |-> item[i].status], outcome>>
  <2>1. [i \in Items |-> item'[i].status] = [i \in Items |-> item[i].status]
    BY <1>4
  <2>2. \A i \in Items : item'[i].status = item[i].status
    BY <2>1
  <2>3. QED
    BY <2>2
<1>5. QED
  BY <1>1, <1>2, <1>3, <1>4 DEF LifecycleStep

\* What proposals are about does not change, and no new one is being made.
Quiet ==
  /\ \A p \in Pendings : pending'[p].what = pending[p].what
  /\ \A a \in Actors : actor'[a].at = "proposing" => actor'[a] = actor[a]

LEMMA QuietKeepsBorn ==
  ASSUME IInv, Next, Born, Quiet
  PROVE  Born'
<1>1. \A i \in Items : item[i].status # "unborn" => item'[i].status # "unborn"
  BY StaysInPantry
<1>2. ASSUME NEW a \in Actors, actor'[a].at = "proposing"
      PROVE  item'[actor'[a].item].status # "unborn"
  <2>1. actor'[a] = actor[a] /\ actor[a].at = "proposing"
    BY <1>2 DEF Quiet
  <2>2. actor[a].item \in Items
    BY <2>1 DEF IInv, TypeOK, Requests, Idle, Moving, Proposing, Sending, Scanning
  <2>3. QED
    BY <1>1, <2>1, <2>2 DEF Born, InPantry
<1>3. ASSUME NEW p \in Pendings, pending'[p].what # None, pending'[p].what.kind = "correct"
      PROVE  item'[pending'[p].what.item].status # "unborn"
  <2>1. pending'[p].what = pending[p].what
    BY DEF Quiet
  <2>2. pending[p].what.item \in Items
    BY <1>3, <2>1 DEF IInv, TypeOK, PendingRow, CorrectPending, AddPending
  <2>3. QED
    BY <1>1, <1>3, <2>1, <2>2 DEF Born, InPantry
<1>4. QED
  BY <1>2, <1>3 DEF Born, InPantry

\* An edit that overtakes the proposals about the items in S, and changes no other.
LEMMA Overtaken ==
  ASSUME IInv, NEW S \in SUBSET Items, pending' = Expired(S),
         \A i \in Items \ S : ~UserEdited(i)
  PROVE  Edits /\ \A p \in Pendings : pending'[p].what = pending[p].what
<1>1. pending \in [Pendings -> PendingRow]
  BY DEF IInv, TypeOK
<1>2. ASSUME NEW i \in Items, NEW p \in Pendings, Proposes(p, i), UserEdited(i)
      PROVE  pending'[p].status = "stale"
  <2>1. i \in S
    BY <1>2
  <2>2. pending'[p] = [pending[p] EXCEPT !.status = "stale"]
    BY <1>2, <2>1 DEF Expired
  <2>3. QED
    BY <1>1, <2>2 DEF PendingRow
<1>3. Edits
  BY <1>2 DEF Edits
<1>4. QED
  BY <1>1, <1>3, ExpiredRows

\* Rows that enter, and rows that are as they were, are edited by nobody.
LEMMA NotEdited ==
  ASSUME IInv, Born, \A i \in Items : item'[i] = item[i] \/ ~InPantry(i)
  PROVE  Edits
BY DEF Edits, Born, Proposes, UserEdited

LEMMA OneRow ==
  ASSUME IInv, NEW i \in Items, NEW row, Changes(i, row)
  PROVE  \A j \in Items \ {i} : item'[j] = item[j] /\ ~UserEdited(j)
BY DEF IInv, TypeOK, Changes, UserEdited

\* Rows that nobody edits, proposals that say what they said.
LEMMA EditsQuietly ==
  ASSUME IInv, Next, Born, \A i \in Items : item'[i] = item[i] \/ ~InPantry(i), Quiet
  PROVE  Born' /\ Edits
BY QuietKeepsBorn, NotEdited

\* The edit of one row, in the commit that overtakes its proposals.
LEMMA EditsOne ==
  ASSUME IInv, Next, Born, NEW i \in Items, NEW row, Changes(i, row),
         pending' = Expired({i}),
         \A a \in Actors : actor'[a].at = "proposing" => actor'[a] = actor[a]
  PROVE  Born' /\ Edits
<1>1. {i} \in SUBSET Items /\ \A j \in Items \ {i} : ~UserEdited(j)
  BY OneRow
<1>2. Edits /\ \A p \in Pendings : pending'[p].what = pending[p].what
  BY <1>1, Overtaken, Zenon
<1>3. QED
  BY <1>2, QuietKeepsBorn DEF Quiet

\* An actor whose request is over.
LEMMA Ends ==
  ASSUME IInv, NEW a \in Actors, NEW request, request.at # "proposing",
         actor' = [actor EXCEPT ![a] = request]
  PROVE  \A b \in Actors : actor'[b].at = "proposing" => actor'[b] = actor[b]
BY DEF IInv, TypeOK

-----------------------------------------------------------------------------
(* The steps.                                                              *)

LEMMA ItemEdits ==
  ASSUME IInv, Next, Born, NEW i \in Items, ItemStep(i) PROVE Born' /\ Edits
<1>1. ASSUME NEW why \in Terminal, SetTerminal(i, why) PROVE Born' /\ Edits
  BY <1>1, EditsOne DEF SetTerminal
<1>2. CASE Snooze(i)
  BY <1>2, EditsOne DEF Snooze
<1>3. ASSUME NEW d \in Durations, Nudge(i, d) PROVE Born' /\ Edits
  BY <1>3, EditsOne DEF Nudge
<1>4. ASSUME NEW d \in Durations, AddDegraded(i, d) PROVE Born' /\ Edits
  <2>1. Quiet
    BY <1>4 DEF AddDegraded, Quiet
  <2>2. \A j \in Items : item'[j] = item[j] \/ ~InPantry(j)
    BY <1>4 DEF AddDegraded, Changes, InPantry, IInv, TypeOK
  <2>3. QED
    BY <2>1, <2>2, EditsQuietly
<1>5. CASE UndoAdd(i)
  BY <1>5, EditsOne DEF UndoAdd
<1>6. QED
  BY <1>1, <1>2, <1>3, <1>4, <1>5 DEF ItemStep

LEMMA ActorEdits ==
  ASSUME IInv, Next, Born, NEW a \in Actors, ActorStep(a) PROVE Born' /\ Edits
<1>0. Idle.at # "proposing"
  BY DEF Idle
<1>1. ASSUME NEW i \in Items, NEW target \in {"fridge", "frozen"}, MoveStart(a, i, target)
      PROVE  Born' /\ Edits
  <2>1. Quiet
    BY <1>1, Ends DEF MoveStart, Quiet
  <2>2. QED
    BY <1>1, <2>1, EditsQuietly DEF MoveStart
<1>2. ASSUME NEW d \in Durations, MoveLand(a, d) PROVE Born' /\ Edits
  <2>1. actor[a].item \in Items
    BY <1>2 DEF MoveLand, IInv, TypeOK, Requests, Idle, Moving, Proposing, Sending, Scanning
  <2>2. \A b \in Actors : actor'[b].at = "proposing" => actor'[b] = actor[b]
    BY <1>0, <1>2, Ends DEF MoveLand
  <2>3. QED
    BY <1>2, <2>1, <2>2, EditsOne DEF MoveLand
<1>3. ASSUME NEW i \in Items, ProposeStart(a, i) PROVE Born' /\ Edits
  <2>1. InPantry(i) /\ UNCHANGED <<item, pending>>
    BY <1>3 DEF ProposeStart, InPantry
  <2>2. \A b \in Actors :
          actor'[b] = actor[b] \/ actor'[b].item = i
    BY <1>3 DEF ProposeStart, IInv, TypeOK
  <2>3. Born'
    BY <2>1, <2>2 DEF Born, InPantry
  <2>4. Edits
    BY <2>1, NotEdited
  <2>5. QED
    BY <2>3, <2>4
<1>4. ASSUME NEW p \in Pendings, ProposeEnd(a, p) PROVE Born' /\ Edits
  <2>1. UNCHANGED item /\ InPantry(actor[a].item)
    BY <1>4 DEF ProposeEnd, Create, Born
  <2>2. \A b \in Actors : actor'[b].at = "proposing" => actor'[b] = actor[b]
    BY <1>4 DEF ProposeEnd, Create, IInv, TypeOK
  <2>3. \A q \in Pendings :
          pending'[q] = pending[q] \/ pending'[q].what.item = actor[a].item
    BY <1>4 DEF ProposeEnd, Create, IInv, TypeOK
  <2>4. Born'
    BY <2>1, <2>2, <2>3 DEF Born, InPantry
  <2>5. Edits
    BY <2>1, NotEdited
  <2>6. QED
    BY <2>4, <2>5
<1>10. ASSUME NEW p \in Pendings, ProposeAdd(a, p) PROVE Born' /\ Edits
  <2>1. UNCHANGED item
    BY <1>10 DEF ProposeAdd, Create
  <2>2. \A b \in Actors : actor'[b].at = "proposing" => actor'[b] = actor[b]
    BY <1>10 DEF ProposeAdd, Create, IInv, TypeOK
  <2>3. \A q \in Pendings : pending'[q] = pending[q] \/ pending'[q].what.kind = "add"
    BY <1>10 DEF ProposeAdd, Create, IInv, TypeOK
  <2>4. Born'
    BY <2>1, <2>2, <2>3 DEF Born, InPantry
  <2>5. QED
    BY <2>1, <2>4, NotEdited
<1>11. CASE ReplySent(a)
  <2>1. Quiet
    BY <1>0, <1>11, Ends DEF ReplySent, Quiet
  <2>2. QED
    BY <1>11, <2>1, EditsQuietly DEF ReplySent
<1>12. CASE ReplyFails(a)
  <2>1. \A q \in Pendings : pending'[q].what = pending[q].what
    BY <1>12 DEF ReplyFails, Becomes, IInv, TypeOK, PendingRow
  <2>2. Quiet
    BY <1>0, <1>12, <2>1, Ends DEF ReplyFails, Quiet
  <2>3. QED
    BY <1>12, <2>2, EditsQuietly DEF ReplyFails
<1>5. CASE ProposeFails(a)
  <2>1. Quiet
    BY <1>0, <1>5, Ends DEF ProposeFails, Quiet
  <2>2. QED
    BY <1>5, <2>1, EditsQuietly DEF ProposeFails
<1>6. ASSUME NEW r \in Receipts, ScanStart(a, r) PROVE Born' /\ Edits
  <2>1. Quiet
    BY <1>6, Ends DEF ScanStart, Quiet
  <2>2. QED
    BY <1>6, <2>1, EditsQuietly DEF ScanStart
<1>7. CASE ScanEnd(a)
  <2>1. Quiet
    BY <1>0, <1>7, Ends DEF ScanEnd, Quiet
  <2>2. \A j \in Items : item'[j] = item[j] \/ ~InPantry(j)
    BY <1>7 DEF ScanEnd, InPantry
  <2>3. QED
    BY <2>1, <2>2, EditsQuietly
<1>8. CASE ScanFails(a)
  <2>1. Quiet
    BY <1>0, <1>8, Ends DEF ScanFails, Quiet
  <2>2. QED
    BY <1>8, <2>1, EditsQuietly DEF ScanFails
<1>9. QED
  BY <1>1, <1>2, <1>3, <1>4, <1>5, <1>6, <1>7, <1>8, <1>10, <1>11, <1>12 DEF ActorStep

\* Only the status of proposals changes, or whether one is overdue.
LEMMA StatusTurns ==
  ASSUME IInv, Next, Born, UNCHANGED <<item, actor>>,
         \A p \in Pendings : pending'[p].what = pending[p].what
  PROVE  Born' /\ Edits
BY EditsQuietly DEF Quiet

LEMMA PendingEdits ==
  ASSUME IInv, Next, Born, NEW p \in Pendings, PendingStep(p) PROVE Born' /\ Edits
<1>1. pending \in [Pendings -> PendingRow]
  BY DEF IInv, TypeOK
<1>2. ASSUME NEW s, Becomes(p, s)
      PROVE  \A q \in Pendings : pending'[q].what = pending[q].what
  BY <1>1, <1>2 DEF Becomes, PendingRow
<1>4. CASE TapOverdue(p)
  BY <1>2, <1>4, StatusTurns DEF TapOverdue
<1>5. CASE TapCancel(p)
  BY <1>2, <1>5, StatusTurns DEF TapCancel
<1>6. CASE TapApplyCorrect(p)
  <2> DEFINE i == pending[p].what.item
             row == Corrected(item[i], pending[p].what.diff)
  <2>1. UNCHANGED actor
    BY <1>6 DEF TapApplyCorrect
  <2>2. CASE item[i].status # "active"
    <3>1. Becomes(p, "cancelled") /\ UNCHANGED item
      BY <1>6, <2>2 DEF TapApplyCorrect
    <3>2. QED
      BY <1>2, <2>1, <3>1, StatusTurns
  <2>3. CASE item[i].status = "active"
    <3> DEFINE late == Expired({i})
    <3>1. Changes(i, row) /\ pending' = [late EXCEPT ![p].status = "applied"]
      BY <1>6, <2>3 DEF TapApplyCorrect
    <3>2. /\ late \in [Pendings -> PendingRow]
          /\ \A q \in Pendings : late[q].what = pending[q].what
      BY <1>1, ExpiredRows
    <3>3. \A q \in Pendings : Proposes(q, i) => late[q].status = "stale"
      BY <1>1 DEF Expired, PendingRow
    <3>4. i \in Items
      BY <1>6 DEF TapApplyCorrect, Tapped, IInv, LiveHasContent, CorrectPending, AddPending
    <3>5. \A j \in Items \ {i} : ~UserEdited(j)
      BY <3>1, <3>4, OneRow
    <3> HIDE DEF late, row, i
    <3>6. \A q \in Pendings : /\ pending'[q].what = pending[q].what
                              /\ Proposes(q, i) => pending'[q].status # "pending"
      BY <3>1, <3>2, <3>3 DEF PendingRow
    <3>7. Edits
      BY <3>5, <3>6 DEF Edits
    <3>8. QED
      BY <2>1, <3>6, <3>7, QuietKeepsBorn DEF Quiet
  <2>4. QED
    BY <2>2, <2>3
<1>7. ASSUME NEW i \in Items, TapApplyAdd(p, i) PROVE Born' /\ Edits
  <2>1. Quiet
    BY <1>2, <1>7 DEF TapApplyAdd, Quiet
  <2>2. \A j \in Items : item'[j] = item[j] \/ ~InPantry(j)
    BY <1>7 DEF TapApplyAdd, Changes, InPantry, IInv, TypeOK
  <2>3. QED
    BY <2>1, <2>2, EditsQuietly
<1>8. CASE PendingTimesOut(p)
  <2>1. \A q \in Pendings : pending'[q].what = pending[q].what
    BY <1>1, <1>8 DEF PendingTimesOut, PendingRow
  <2>2. QED
    BY <1>8, <2>1, StatusTurns DEF PendingTimesOut
<1>9. QED
  BY <1>4, <1>5, <1>6, <1>7, <1>8 DEF PendingStep

LEMMA ReceiptEdits ==
  ASSUME IInv, Next, Born, ReceiptStep PROVE Born' /\ Edits
<1>1. ASSUME NEW r \in Receipts, UndoReceipt(r) PROVE Born' /\ Edits
  <2> DEFINE mine == {i \in Items : item[i].receipt = r}
             gone == {i \in mine : IsUntouched(item[i])}
             full == gone = mine
             row(i) == [item[i] EXCEPT !.status = IF i \in gone THEN "removed" ELSE @,
                                       !.receipt = IF i \in mine /\ full THEN None ELSE @]
  <2>1. /\ item' = [i \in Items |-> row(i)]
        /\ pending' = Expired(gone)
        /\ UNCHANGED actor
    BY <1>1 DEF UndoReceipt
  <2>2. gone \in SUBSET Items
    OBVIOUS
  <2>3. ASSUME NEW i \in Items \ gone PROVE ~UserEdited(i)
    <3>1. item[i] \in ItemRow
      BY ItemTypes
    <3> HIDE DEF gone, mine, full
    <3>2. /\ row(i).status = item[i].status /\ row(i).snoozed = item[i].snoozed
          /\ row(i).storage = item[i].storage /\ row(i).stored = item[i].stored
          /\ row(i).days = item[i].days /\ row(i).expires = item[i].expires
      BY <2>3, <3>1 DEF ItemRow
    <3> HIDE DEF row
    <3>3. QED
      BY <2>1, <3>2 DEF UserEdited
  <2> HIDE DEF gone, row
  <2>4. Edits /\ \A p \in Pendings : pending'[p].what = pending[p].what
    BY <2>1, <2>2, <2>3, Overtaken, Zenon
  <2>5. QED
    BY <2>1, <2>4, QuietKeepsBorn DEF Quiet
<1>2. ASSUME NEW t \in refining, RefineStart(t) PROVE Born' /\ Edits
  BY <1>2, StatusTurns DEF RefineStart
<1>3. ASSUME NEW t \in refining, RefineEnd(t) PROVE Born' /\ Edits
  <2>1. PICK found \in [t.items -> Durations \cup {None}] :
          item' = [i \in Items |->
                  IF i \in t.items /\ found[i] # None /\ Refinable(i)
                  THEN Dated([item[i] EXCEPT !.days = found[i], !.source = "websearch"])
                  ELSE item[i]]
    BY <1>3 DEF RefineEnd
  <2>2. ASSUME NEW i \in Items PROVE ~UserEdited(i)
    <3>1. CASE i \in t.items /\ found[i] # None /\ Refinable(i)
      <4> DEFINE new == [item[i] EXCEPT !.days = found[i], !.source = "websearch"]
      <4>1. item[i] \in ItemRow
        BY ItemTypes
      <4>2. /\ new.status = item[i].status /\ new.snoozed = item[i].snoozed
            /\ new.storage = item[i].storage /\ new.stored = item[i].stored
            /\ new.source = "websearch"
            /\ DOMAIN new = DOMAIN item[i]
        BY <4>1 DEF ItemRow
      <4>3. item'[i] = Dated(new)
        BY <2>1, <3>1
      <4>4. new \in ItemRow
        BY <3>1, <4>1 DEF ItemRow
      <4> HIDE DEF new
      <4>5. /\ Dated(new).status = new.status /\ Dated(new).snoozed = new.snoozed
            /\ Dated(new).storage = new.storage /\ Dated(new).stored = new.stored
            /\ Dated(new).source = new.source
        BY <4>4 DEF Dated, ItemRow
      <4>6. QED
        BY <4>2, <4>3, <4>5 DEF UserEdited
    <3>2. CASE ~(i \in t.items /\ found[i] # None /\ Refinable(i))
      BY <2>1, <3>2 DEF UserEdited
    <3>3. QED
      BY <3>1, <3>2
  <2>3. Edits
    BY <2>2 DEF Edits
  <2>4. QED
    BY <1>3, <2>3, QuietKeepsBorn DEF RefineEnd, Quiet
<1>4. ASSUME NEW x \in recent, UndoCloses(x) PROVE Born' /\ Edits
  BY <1>4, StatusTurns DEF UndoCloses
<1>5. QED
  BY <1>1, <1>2, <1>3, <1>4 DEF ReceiptStep

LEMMA OtherEdits ==
  ASSUME IInv, Next, Born, SweepExpired \/ Tomorrow \/ Restart PROVE Born' /\ Edits
<1>1. CASE SweepExpired
  <2>1. \A p \in Pendings : pending'[p].what = pending[p].what
    BY <1>1 DEF SweepExpired, IInv, TypeOK, PendingRow
  <2>2. QED
    BY <1>1, <2>1, StatusTurns DEF SweepExpired
<1>2. CASE Tomorrow
  BY <1>2, StatusTurns DEF Tomorrow
<1>3. CASE Restart
  <2>1. Quiet
    BY <1>3 DEF Restart, Quiet, Idle
  <2>2. QED
    BY <1>3, <2>1, EditsQuietly DEF Restart
<1>4. QED
  BY <1>1, <1>2, <1>3

-----------------------------------------------------------------------------
(* The theorem.                                                            *)

LEMMA StepEdits == IInv /\ Born /\ Next => Born' /\ Edits
BY ItemEdits, ActorEdits, PendingEdits, ReceiptEdits, OtherEdits DEF Next

LEMMA BornInductive == Spec => [](IInv /\ Born)
<1>1. Init => Born
  BY DEF Init, Born, Idle
<1>2. IInv /\ Born /\ [Next]_vars => Born'
  BY StepEdits DEF vars, Born, InPantry
<1>3. QED
  BY <1>1, <1>2, Inductive, PTL DEF Spec

\* No edit leaves a proposal about the item live: whichever of the worker, the
\* buttons, the workspaces and the undos makes it, and whatever was waiting for a
\* model when it did, the proposal is decided in the edit's own commit
\* (expire_for_item in set_terminal, snooze, correct_item, move_to_storage,
\* apply_correct and both undos).
THEOREM EditsEnd == Spec => EditsEndProposals
<1>1. IInv /\ Born /\ [Next]_vars =>
        [\A i \in Items, p \in Pendings :
           Proposes(p, i) /\ UserEdited(i) => pending'[p].status # "pending"]_vars
  BY StepEdits DEF Edits
<1>2. QED
  BY <1>1, BornInductive, PTL DEF Spec, EditsEndProposals

-----------------------------------------------------------------------------
(* Where an item is kept.                                                  *)
(* The one-way rule of storage_state.py is broken only by two requests     *)
(* that wait to move one item (pantry_forward shows how).  While no two    *)
(* do, the item that a request waits to move stays where the request found *)
(* it.                                                                     *)

\* No two requests wait to move the same item.
OneMover ==
  \A a, b \in Actors :
    actor[a].at = "moving" /\ actor[b].at = "moving" /\ actor[a].item = actor[b].item => a = b

\* The item that a request waits to move is kept where the request found it.
FoundThere ==
  \A a \in Actors : actor[a].at = "moving" =>
    InPantry(actor[a].item) /\ item[actor[a].item].storage = actor[a].loaded.storage

StorageKept == \A i \in Items : InPantry(i) => item'[i].storage = item[i].storage

NoNewMove == \A a \in Actors : actor'[a].at = "moving" => actor'[a] = actor[a]

Forwards ==
  \A i \in Items :
    item'[i].storage # item[i].storage /\ InPantry(i)
      => CanMoveTo(item[i].storage, item'[i].storage)

\* The storage of a row that is edited field by field.
LEMMA RowStorage ==
  ASSUME IInv, NEW i \in Items, NEW row, Changes(i, row),
         InPantry(i) => row.storage = item[i].storage
  PROVE  StorageKept
BY ItemTypes DEF Changes, StorageKept

LEMMA ItemsKeepStorage ==
  ASSUME IInv, NEW i \in Items, ItemStep(i) PROVE StorageKept /\ UNCHANGED actor
<1>0. item[i] \in ItemRow
  BY ItemTypes
<1>1. ASSUME NEW why \in Terminal, SetTerminal(i, why) PROVE StorageKept /\ UNCHANGED actor
  BY <1>0, <1>1, RowStorage DEF SetTerminal, ItemRow
<1>2. CASE Snooze(i)
  BY <1>0, <1>2, RowStorage DEF Snooze, ItemRow
<1>3. ASSUME NEW d \in Durations, Nudge(i, d) PROVE StorageKept /\ UNCHANGED actor
  <2> DEFINE new == [item[i] EXCEPT !.days = d, !.source = "user"]
  <2>1. new \in ItemRow /\ new.storage = item[i].storage
    BY <1>0 DEF ItemRow
  <2>2. Dated(new).storage = item[i].storage
    BY <2>1, DatedRow
  <2>3. QED
    BY <1>3, <2>2, RowStorage DEF Nudge
<1>4. ASSUME NEW d \in Durations, AddDegraded(i, d) PROVE StorageKept /\ UNCHANGED actor
  BY <1>4, RowStorage DEF AddDegraded, InPantry
<1>5. CASE UndoAdd(i)
  BY <1>0, <1>5, RowStorage DEF UndoAdd, ItemRow
<1>6. QED
  BY <1>1, <1>2, <1>3, <1>4, <1>5 DEF ItemStep

\* A request that is not one to move anything takes an actor's place.
LEMMA OtherRequest ==
  ASSUME IInv, NEW a \in Actors, NEW request, request.at # "moving",
         actor' = [actor EXCEPT ![a] = request]
  PROVE  NoNewMove
BY DEF IInv, TypeOK, NoNewMove

LEMMA ActorsKeepStorage ==
  ASSUME IInv, NEW a \in Actors, ActorStep(a)
  PROVE  \/ StorageKept /\ NoNewMove
         \/ \E i \in Items, target \in {"fridge", "frozen"} : MoveStart(a, i, target)
         \/ \E d \in Durations : MoveLand(a, d)
<1>0. Idle.at # "moving" /\ (UNCHANGED item => StorageKept)
  BY DEF Idle, StorageKept
<1>1. ASSUME NEW i \in Items, ProposeStart(a, i) PROVE StorageKept /\ NoNewMove
  BY <1>0, <1>1, OtherRequest DEF ProposeStart
<1>2. ASSUME NEW p \in Pendings, ProposeEnd(a, p) PROVE StorageKept /\ NoNewMove
  BY <1>0, <1>2, OtherRequest DEF ProposeEnd, Create
<1>8. ASSUME NEW p \in Pendings, ProposeAdd(a, p) PROVE StorageKept /\ NoNewMove
  BY <1>0, <1>8, OtherRequest DEF ProposeAdd, Create
<1>9. CASE ReplySent(a) \/ ReplyFails(a)
  BY <1>0, <1>9, OtherRequest DEF ReplySent, ReplyFails
<1>3. CASE ProposeFails(a)
  BY <1>0, <1>3, OtherRequest DEF ProposeFails
<1>4. ASSUME NEW r \in Receipts, ScanStart(a, r) PROVE StorageKept /\ NoNewMove
  BY <1>0, <1>4, OtherRequest DEF ScanStart
<1>5. CASE ScanEnd(a)
  <2>1. \A j \in Items : item'[j] = item[j] \/ ~InPantry(j)
    BY <1>5 DEF ScanEnd, InPantry
  <2>2. NoNewMove
    BY <1>0, <1>5, OtherRequest DEF ScanEnd
  <2>3. QED
    BY <2>1, <2>2 DEF StorageKept
<1>6. CASE ScanFails(a)
  BY <1>0, <1>6, OtherRequest DEF ScanFails
<1>7. QED
  BY <1>1, <1>2, <1>3, <1>4, <1>5, <1>6, <1>8, <1>9 DEF ActorStep

LEMMA PendingsKeepStorage ==
  ASSUME IInv, NEW p \in Pendings, PendingStep(p) PROVE StorageKept /\ UNCHANGED actor
<1>0. UNCHANGED item => StorageKept
  BY DEF StorageKept
<1>1. CASE TapApplyCorrect(p)
  <2> DEFINE i == pending[p].what.item
             diff == pending[p].what.diff
  <2>1. i \in Items /\ diff \in Diff
    BY <1>1 DEF TapApplyCorrect, Tapped, IInv, LiveHasContent, CorrectPending, AddPending
  <2>2. item[i] \in ItemRow
    BY <2>1, ItemTypes
  <2>3. Corrected(item[i], diff).storage = item[i].storage
    <3> DEFINE chosen == [item[i] EXCEPT !.days = diff.days, !.source = "user"]
               lasting == IF diff.days = None THEN item[i] ELSE Dated(chosen)
    <3>1. /\ diff.days # None => chosen \in ItemRow
          /\ chosen.storage = item[i].storage
      BY <2>1, <2>2 DEF Diff, ItemRow
    <3>2. lasting \in ItemRow /\ lasting.storage = item[i].storage
      <4>1. CASE diff.days = None
        BY <2>2, <4>1
      <4>2. CASE diff.days # None
        <5>1. chosen \in ItemRow
          BY <3>1, <4>2
        <5>2. Dated(chosen) \in ItemRow /\ Dated(chosen).storage = chosen.storage
          BY <5>1, DatedRow
        <5>3. QED
          BY <3>1, <4>2, <5>2
      <4>3. QED
        BY <4>1, <4>2
    <3>3. Corrected(item[i], diff) = IF diff.expires = None THEN lasting
                                     ELSE [lasting EXCEPT !.expires = diff.expires]
      BY DEF Corrected
    <3> HIDE DEF lasting
    <3>4. QED
      BY <3>2, <3>3 DEF ItemRow
  <2>4. \/ UNCHANGED item
        \/ Changes(i, Corrected(item[i], diff))
    BY <1>1 DEF TapApplyCorrect
  <2>5. StorageKept
    BY <1>0, <2>1, <2>3, <2>4, RowStorage
  <2>6. QED
    BY <1>1, <2>5 DEF TapApplyCorrect
<1>2. ASSUME NEW i \in Items, TapApplyAdd(p, i) PROVE StorageKept /\ UNCHANGED actor
  BY <1>2, RowStorage DEF TapApplyAdd, InPantry
<1>3. QED
  BY <1>0, <1>1, <1>2 DEF PendingStep, TapOverdue, TapCancel, PendingTimesOut

LEMMA ReceiptsKeepStorage ==
  ASSUME IInv, ReceiptStep PROVE StorageKept /\ UNCHANGED actor
<1>0. \A i \in Items : item[i] \in ItemRow
  BY ItemTypes
<1>1. ASSUME NEW r \in Receipts, UndoReceipt(r) PROVE StorageKept /\ UNCHANGED actor
  <2> DEFINE mine == {i \in Items : item[i].receipt = r}
             gone == {i \in mine : IsUntouched(item[i])}
             full == gone = mine
  <2>1. item' = [i \in Items |->
               [item[i] EXCEPT !.status = IF i \in gone THEN "removed" ELSE @,
                               !.receipt = IF i \in mine /\ full THEN None ELSE @]]
    BY <1>1 DEF UndoReceipt
  <2> HIDE DEF mine, gone, full
  <2>2. \A i \in Items : item'[i].storage = item[i].storage
    BY <1>0, <2>1 DEF ItemRow
  <2>3. QED
    BY <1>1, <2>2 DEF UndoReceipt, StorageKept
<1>2. ASSUME NEW t \in refining, RefineEnd(t) PROVE StorageKept /\ UNCHANGED actor
  <2>1. PICK found \in [t.items -> Durations \cup {None}] :
          item' = [i \in Items |->
                  IF i \in t.items /\ found[i] # None /\ Refinable(i)
                  THEN Dated([item[i] EXCEPT !.days = found[i], !.source = "websearch"])
                  ELSE item[i]]
    BY <1>2 DEF RefineEnd
  <2>2. ASSUME NEW i \in Items PROVE item'[i].storage = item[i].storage
    <3>1. CASE i \in t.items /\ found[i] # None /\ Refinable(i)
      <4> DEFINE new == [item[i] EXCEPT !.days = found[i], !.source = "websearch"]
      <4>1. new \in ItemRow /\ new.storage = item[i].storage
        BY <1>0, <3>1 DEF ItemRow
      <4>2. item'[i] = Dated(new)
        BY <2>1, <3>1
      <4>3. QED
        BY <4>1, <4>2, DatedRow
    <3>2. CASE ~(i \in t.items /\ found[i] # None /\ Refinable(i))
      BY <2>1, <3>2
    <3>3. QED
      BY <3>1, <3>2
  <2>3. QED
    BY <1>2, <2>2 DEF RefineEnd, StorageKept
<1>3. QED
  BY <1>1, <1>2 DEF ReceiptStep, RefineStart, UndoCloses, StorageKept

\* Only a move changes where an item of the pantry is kept.
LEMMA OnlyMovesStore ==
  ASSUME IInv, Next
  PROVE  \/ StorageKept /\ NoNewMove
         \/ \E a \in Actors, i \in Items, target \in {"fridge", "frozen"} :
              MoveStart(a, i, target)
         \/ \E a \in Actors, d \in Durations : MoveLand(a, d)
<1>1. UNCHANGED actor => NoNewMove
  BY DEF NoNewMove
<1>2. CASE SweepExpired \/ Tomorrow
  BY <1>1, <1>2 DEF SweepExpired, Tomorrow, StorageKept
<1>3. CASE Restart
  BY <1>3 DEF Restart, StorageKept, NoNewMove, Idle
<1>4. QED
  BY <1>1, <1>2, <1>3, ItemsKeepStorage, ActorsKeepStorage, PendingsKeepStorage,
     ReceiptsKeepStorage DEF Next

LEMMA MoversItem ==
  ASSUME IInv, NEW a \in Actors, actor[a].at = "moving"
  PROVE  actor[a] \in Moving /\ actor[a].item \in Items
BY DEF IInv, TypeOK, Requests, Idle, Moving, Proposing, Sending, Scanning

\* What a move writes is where its target says, and no other row is touched.
LEMMA Lands ==
  ASSUME IInv, NEW a \in Actors, NEW d \in Durations, MoveLand(a, d)
  PROVE  /\ actor[a].at = "moving" /\ actor[a].item \in Items
         /\ item'[actor[a].item].storage = actor[a].target
         /\ \A i \in Items \ {actor[a].item} : item'[i] = item[i]
         /\ actor' = [actor EXCEPT ![a] = Idle]
<1> DEFINE m == actor[a]
           new == Moved(m.loaded, m.target, m.day, d)
           row == Written(item[m.item], m.loaded, new)
<1>1. m.at = "moving" /\ actor' = [actor EXCEPT ![a] = Idle] /\ Changes(m.item, row)
  BY DEF MoveLand
<1>2. m \in Moving
  BY <1>1, MoversItem
<1>3. /\ m.item \in Items /\ m.loaded \in ItemRow /\ m.day \in Days
      /\ m.target \in {"fridge", "frozen"} /\ m.target # m.loaded.storage
  BY <1>1, <1>2 DEF Moving, IInv, MovesForward, CanMoveTo
<1>4. new \in ItemRow /\ new.storage = m.target
  BY <1>3, MovedRow
<1>5. row.storage = m.target
  BY <1>3, <1>4, ItemTypes, WrittenRow
<1> HIDE DEF row
<1>6. QED
  BY <1>1, <1>3, <1>5, ItemTypes DEF Changes

LEMMA StepForwards ==
  ASSUME IInv, Next, FoundThere, OneMover
  PROVE  FoundThere' /\ Forwards
<1>0. \A i \in Items : InPantry(i) => item'[i].status # "unborn"
  BY StaysInPantry DEF InPantry
<1>1. CASE StorageKept /\ NoNewMove
  <2>1. ASSUME NEW a \in Actors, actor'[a].at = "moving"
        PROVE  /\ item'[actor'[a].item].status # "unborn"
               /\ item'[actor'[a].item].storage = actor'[a].loaded.storage
    <3>1. actor'[a] = actor[a] /\ actor[a].at = "moving" /\ actor[a].item \in Items
      BY <1>1, <2>1, MoversItem DEF NoNewMove
    <3>2. QED
      BY <1>0, <1>1, <3>1 DEF FoundThere, StorageKept, InPantry
  <2>2. FoundThere'
    BY <2>1 DEF FoundThere, InPantry
  <2>3. QED
    BY <1>1, <2>2 DEF Forwards, StorageKept
<1>2. ASSUME NEW a \in Actors, NEW i \in Items, NEW target \in {"fridge", "frozen"},
             MoveStart(a, i, target)
      PROVE  FoundThere' /\ Forwards
  <2>1. actor' = [actor EXCEPT ![a] = [at |-> "moving", item |-> i, target |-> target,
                                        day |-> today, loaded |-> item[i]]]
        /\ UNCHANGED item /\ InPantry(i)
    BY <1>2 DEF MoveStart, InPantry
  <2>2. FoundThere'
    BY <2>1 DEF FoundThere, InPantry, IInv, TypeOK
  <2>3. QED
    BY <2>1, <2>2 DEF Forwards
<1>3. ASSUME NEW a \in Actors, NEW d \in Durations, MoveLand(a, d)
      PROVE  FoundThere' /\ Forwards
  <2> DEFINE i == actor[a].item
  <2>1. /\ actor[a].at = "moving" /\ i \in Items /\ item'[i].storage = actor[a].target
        /\ \A j \in Items \ {i} : item'[j] = item[j]
        /\ actor' = [actor EXCEPT ![a] = Idle]
    BY <1>3, Lands
  <2>2. item[i].storage = actor[a].loaded.storage
    BY <2>1 DEF FoundThere
  <2>3. CanMoveTo(item[i].storage, item'[i].storage)
    BY <2>1, <2>2 DEF IInv, MovesForward
  <2>4. Forwards
    BY <2>1, <2>3 DEF Forwards
  <2>5. ASSUME NEW b \in Actors, actor'[b].at = "moving"
        PROVE  /\ item'[actor'[b].item].status # "unborn"
               /\ item'[actor'[b].item].storage = actor'[b].loaded.storage
    <3>1. b # a /\ actor'[b] = actor[b] /\ actor[b].at = "moving"
      BY <2>1, <2>5 DEF Idle, IInv, TypeOK
    <3>2. actor[b].item \in Items /\ actor[b].item # i
      BY <2>1, <3>1, MoversItem DEF OneMover
    <3>3. item'[actor[b].item] = item[actor[b].item]
      BY <2>1, <3>2
    <3>4. QED
      BY <3>1, <3>3 DEF FoundThere, InPantry
  <2>6. FoundThere'
    BY <2>5 DEF FoundThere, InPantry
  <2>7. QED
    BY <2>4, <2>6
<1>4. QED
  BY <1>1, <1>2, <1>3, OnlyMovesStore

\* storage_state.py's "transitions are one-way forward" holds as long as no two
\* requests wait to move the same item: nothing else a request overlaps with
\* (edits, undos, scans, refinements, a restart) can take an item backwards.
THEOREM ForwardsAlone == Spec /\ []OneMover => ForwardOnly
<1>1. Init => FoundThere
  BY DEF Init, FoundThere, Idle
<1>2. IInv /\ FoundThere /\ OneMover /\ [Next]_vars => FoundThere'
  <2>1. IInv /\ FoundThere /\ UNCHANGED vars => FoundThere'
    BY DEF vars, FoundThere, InPantry
  <2>2. QED
    BY <2>1, StepForwards
<1>3. IInv /\ FoundThere /\ OneMover /\ [Next]_vars =>
        [\A i \in Items :
           item'[i].storage # item[i].storage /\ item[i].status # "unborn"
             => CanMoveTo(item[i].storage, item'[i].storage)]_vars
  BY StepForwards DEF Forwards, InPantry
<1>4. QED
  BY <1>1, <1>2, <1>3, Inductive, PTL DEF Spec, ForwardOnly
=============================================================================
