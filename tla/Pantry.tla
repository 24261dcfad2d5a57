-------------------------------- MODULE Pantry --------------------------------
(***************************************************************************)
(* The pantry of one household: its items, the shelf-life corrections      *)
(* proposed for them, the receipts they came from, and the requests that   *)
(* read an item, wait for a language model or a web search, and write the  *)
(* item afterwards.                                                        *)
(*                                                                         *)
(* One step is what a handler does between two awaits: the program is one  *)
(* event loop over one SQLite file.  An actor is a place a request of this *)
(* household can be running in: the Telegram dispatcher gives every update *)
(* a task of its own, the messaging worker and each member's Mini App      *)
(* workspace run one request at a time.  The dispatcher also gives a       *)
(* receipt's refinement its own task.                                      *)
(*                                                                         *)
(* Durations and dates are small numbers of days.  Names, categories,      *)
(* quantities and the shelf-life cache are left out: the cache only        *)
(* chooses which duration an estimate returns, and every duration is       *)
(* allowed here.  The sources of a duration are what is_untouched and the  *)
(* refinement tell apart: a user's correction, the refinement's own web    *)
(* search, and every other estimate.                                       *)
(***************************************************************************)
EXTENDS Naturals, FiniteSets

CONSTANTS Items,      \* rows of the pantryitem table
          Pendings,   \* rows of the pendingcorrection table
          Receipts,   \* photographs, each the key of one receipt row
          Actors,     \* the worker and the Mini App workspaces
          Durations,  \* the shelf lives, in days, that estimates and users give
          LastDay,    \* bound: the last day of a run
          None

ASSUME PantryAssumption ==
  /\ Durations \subseteq Nat \ {0}
  /\ 1 \in Durations
  /\ LastDay \in Nat
  /\ None \notin Receipts \cup Items \cup Durations \cup Nat

VARIABLES item,      \* [Items -> ItemRow]
          outcome,   \* [Items -> {"none", "eaten", "tossed"}], table pantryoutcome
          pending,   \* [Pendings -> PendingRow]
          receipt,   \* SUBSET Receipts, the receipt rows that exist
          recent,    \* what an Undo button younger than UNDO_TTL_MINUTES names
          actor,     \* [Actors -> what its request is waiting for]
          refining,  \* the refinement tasks alive
          today      \* the date in the household's time zone

vars == <<item, outcome, pending, receipt, recent, actor, refining, today>>

-----------------------------------------------------------------------------
(* Rows.                                                                   *)

Terminal == {"eaten", "tossed", "removed"}
Storages == {"default", "fridge", "frozen"}
Days     == 0..LastDay
NoDate   == None

ItemRow ==
  [status    : {"unborn", "active"} \cup Terminal,
   storage   : Storages,
   purchased : Days,
   stored    : Days \cup {NoDate},
   days      : Durations,
   expires   : Nat,
   source    : {"estimate", "websearch", "user"},
   snoozed   : BOOLEAN,              \* snoozed_until is not None
   receipt   : Receipts \cup {None}]

\* The fields of a proposed change that touch the shelf life; None is "no change".
Diff == [days : Durations \cup {None}, expires : Nat \cup {None}]

\* An /add proposal: its duration, its expiry, and whether the user gave it.
Addition == [days : Durations, expires : Nat, purchased : Days, explicit : BOOLEAN]

CorrectPending == [kind : {"correct"}, item : Items, diff : Diff]
AddPending     == [kind : {"add"}, add : Addition]

PendingRow ==
  [status : {"free", "pending", "applied", "cancelled", "stale", "expired"},
   overdue : BOOLEAN,                \* expires_at has passed
   what : CorrectPending \cup AddPending \cup {None}]

Idle      == [at |-> "idle"]
Moving    == [at : {"moving"}, item : Items, target : {"fridge", "frozen"},
              day : Days, loaded : ItemRow]
Proposing == [at : {"proposing"}, item : Items, diff : Diff]
Sending   == [at : {"sending"}, pending : Pendings]
Scanning  == [at : {"scanning"}, receipt : Receipts]
Requests  == {Idle} \cup Moving \cup Proposing \cup Sending \cup Scanning

\* A refinement task: the receipt, the items to look up, and whether it has
\* taken its snapshot and is waiting for the searches.
Refinement == [receipt : Receipts, items : SUBSET Items, searching : BOOLEAN]

TypeOK ==
  /\ item \in [Items -> ItemRow]
  /\ outcome \in [Items -> {"none", "eaten", "tossed"}]
  /\ pending \in [Pendings -> PendingRow]
  /\ receipt \subseteq Receipts
  /\ recent \subseteq Items \cup Receipts
  /\ actor \in [Actors -> Requests]
  /\ refining \subseteq Refinement
  /\ today \in Days

Unborn == [status |-> "unborn", storage |-> "default", purchased |-> 0,
           stored |-> NoDate, days |-> 1, expires |-> 0, source |-> "estimate",
           snoozed |-> FALSE, receipt |-> None]

Init == /\ item = [i \in Items |-> Unborn]
        /\ outcome = [i \in Items |-> "none"]
        /\ pending = [p \in Pendings |->
                        [status |-> "free", overdue |-> FALSE, what |-> None]]
        /\ receipt = {}
        /\ recent = {}
        /\ actor = [a \in Actors |-> Idle]
        /\ refining = {}
        /\ today = 0

-----------------------------------------------------------------------------
(* Helpers.                                                                *)

\* storage_state.py: the Storage Date once stored, else the Purchase Date.
Origin(row) == IF row.stored = NoDate THEN row.purchased ELSE row.stored

\* compute_expiry, applied to a row whose other fields are already set.
Dated(row) == [row EXCEPT !.expires = Origin(row) + row.days]

\* _FORWARD: the storage moves still offered.
CanMoveTo(storage, target) ==
  \/ storage = "default" /\ target \in {"fridge", "frozen"}
  \/ storage = "fridge" /\ target = "frozen"

IsUntouched(row) == row.status = "active" /\ ~row.snoozed /\ row.source # "user"

\* _is_undoable_add: a user's own duration does not count as touched here.
IsUndoableAdd(row) == row.status = "active" /\ ~row.snoozed

\* Mutant: proposals already decided are made stale as well.
ProposesEver(p, i) == /\ pending[p].what # None
                      /\ pending[p].what.kind = "correct"
                      /\ pending[p].what.item = i

Proposes(p, i) == /\ pending[p].status = "pending"
                  /\ pending[p].what # None
                  /\ pending[p].what.kind = "correct"
                  /\ pending[p].what.item = i

\* expire_for_item: the live corrections of the items in S become stale.
Expired(S) == [p \in Pendings |->
                 IF \E i \in S : Proposes(p, i)
                 THEN [pending[p] EXCEPT !.status = "stale"]
                 ELSE pending[p]]

Changes(i, row) == item' = [item EXCEPT ![i] = row]

Becomes(p, s) == pending' = [pending EXCEPT ![p].status = s]

-----------------------------------------------------------------------------
(* Leaving the pantry: /ate, /toss, /delete and their buttons.  The batch  *)
(* and cooked sheets call set_terminal too.                                *)

\* Mutant: the item is updated without claiming it.
SetTerminalUnclaimed(i, why) ==
  /\ item[i].status # "unborn"
  /\ Changes(i, [item[i] EXCEPT !.status = why, !.snoozed = FALSE])
  /\ pending' = Expired({i})
  /\ outcome' = IF why \in {"eaten", "tossed"}
                THEN [outcome EXCEPT ![i] = why] ELSE outcome
  /\ UNCHANGED <<receipt, recent, actor, refining, today>>

\* The update's own WHERE clause claims the item: only an active one changes.
SetTerminal(i, why) ==
  /\ item[i].status = "active"
  /\ Changes(i, [item[i] EXCEPT !.status = why, !.snoozed = FALSE])
  /\ pending' = Expired({i})
  /\ outcome' = IF why \in {"eaten", "tossed"}
                THEN [outcome EXCEPT ![i] = why] ELSE outcome
  /\ UNCHANGED <<receipt, recent, actor, refining, today>>

Snooze(i) ==
  /\ item[i].status = "active"
  /\ Changes(i, [item[i] EXCEPT !.snoozed = TRUE])
  /\ pending' = Expired({i})
  /\ UNCHANGED <<outcome, receipt, recent, actor, refining, today>>

\* Mutant: the nudge is not clamped to the shortest shelf life.
NudgeUnclamped(i, d) ==
  /\ item[i].status = "active"
  /\ Changes(i, Dated([item[i] EXCEPT !.days = d - 1, !.source = "user"]))
  /\ pending' = Expired({i})
  /\ UNCHANGED <<outcome, receipt, recent, actor, refining, today>>

\* correct_item, from the Correct menu: the handler checks that the item is
\* active and calls it with no await in between.
Nudge(i, d) ==
  /\ item[i].status = "active"
  /\ Changes(i, Dated([item[i] EXCEPT !.days = d, !.source = "user"]))
  /\ pending' = Expired({i})
  /\ UNCHANGED <<outcome, receipt, recent, actor, refining, today>>

-----------------------------------------------------------------------------
(* Moving to the fridge or the freezer waits for a shelf-life search.      *)

\* move_to_storage up to its await: the only look at status and storage.
MoveStart(a, i, target) ==
  /\ actor[a] = Idle
  /\ item[i].status = "active"
  /\ CanMoveTo(item[i].storage, target)
  /\ actor' = [actor EXCEPT ![a] = [at |-> "moving", item |-> i, target |-> target,
                                     day |-> today, loaded |-> item[i]]]
  /\ UNCHANGED <<item, outcome, pending, receipt, recent, refining, today>>

\* What the request makes of the row it loaded.
Moved(row, target, day, d) ==
  Dated([row EXCEPT !.storage = target, !.stored = day, !.days = d,
                    !.source = "estimate", !.snoozed = FALSE])

\* The UPDATE of a flush writes the columns whose value is not the loaded one,
\* and leaves the others as they are by now.  The source of an estimate for
\* one storage never equals the source loaded from another.
Written(row, loaded, new) ==
  [f \in DOMAIN row |-> IF f = "source" \/ new[f] # loaded[f] THEN new[f] ELSE row[f]]

\* Mutant: a move forgets the proposals for the item.
MoveLandQuiet(a, d) ==
  /\ actor[a].at = "moving"
  /\ LET m == actor[a] IN
       Changes(m.item, Written(item[m.item], m.loaded,
                               Moved(m.loaded, m.target, m.day, d)))
  /\ actor' = [actor EXCEPT ![a] = Idle]
  /\ UNCHANGED <<outcome, pending, receipt, recent, refining, today>>

\* ... and after it: the row is written whatever it has become meanwhile.
MoveLand(a, d) ==
  /\ actor[a].at = "moving"
  /\ LET m == actor[a] IN
       /\ Changes(m.item, Written(item[m.item], m.loaded,
                                  Moved(m.loaded, m.target, m.day, d)))
       /\ pending' = Expired({m.item})
  /\ actor' = [actor EXCEPT ![a] = Idle]
  /\ UNCHANGED <<outcome, receipt, recent, refining, today>>

-----------------------------------------------------------------------------
(* Corrections: /correct and replies to the correction prompt.             *)

\* propose_correct's diff against the item as it is read, when the model
\* answers with duration d (an expiry date is turned into one).
DiffFor(row, d) ==
  [days |-> IF d # row.days THEN d ELSE None,
   expires |-> IF Origin(row) + d # row.expires THEN Origin(row) + d ELSE None]

\* The row is read before the call and the diff computed from that reading;
\* the answer may instead change only the name or the category.
ProposeStart(a, i) ==
  /\ actor[a] = Idle
  /\ item[i].status = "active"
  /\ \E diff \in {[days |-> None, expires |-> None]}
                   \cup {DiffFor(item[i], d) : d \in Durations} :
       actor' = [actor EXCEPT ![a] = [at |-> "proposing", item |-> i, diff |-> diff]]
  /\ UNCHANGED <<item, outcome, pending, receipt, recent, refining, today>>

\* create_pending commits the proposal as "pending"; then its card is sent.
Create(a, p, what) ==
  /\ pending[p].status = "free"
  /\ pending' = [pending EXCEPT ![p] =
                    [status |-> "pending", overdue |-> FALSE, what |-> what]]
  /\ actor' = [actor EXCEPT ![a] = [at |-> "sending", pending |-> p]]
  /\ UNCHANGED <<item, outcome, receipt, recent, refining, today>>

\* The answer to the model call is in.
ProposeEnd(a, p) ==
  /\ actor[a].at = "proposing"
  /\ Create(a, p, [kind |-> "correct", item |-> actor[a].item, diff |-> actor[a].diff])

\* The model call fails, or its answer changes nothing or is not valid.
ProposeFails(a) ==
  /\ actor[a].at = "proposing"
  /\ actor' = [actor EXCEPT ![a] = Idle]
  /\ UNCHANGED <<item, outcome, pending, receipt, recent, refining, today>>

\* propose_add reads no item, so its awaits do not show.  An explicit expiry
\* date of today or before is kept, with the least duration there is.
ProposeAdd(a, p) ==
  /\ actor[a] = Idle
  /\ \E d \in Durations, explicit \in BOOLEAN, past \in BOOLEAN :
       /\ past => explicit /\ d = 1
       /\ Create(a, p, [kind |-> "add",
                        add |-> [days |-> d, purchased |-> today,
                                 expires |-> IF past THEN today ELSE today + d,
                                 explicit |-> explicit]])

\* The card is out; set_message_id writes no other column.
ReplySent(a) ==
  /\ actor[a].at = "sending"
  /\ actor' = [actor EXCEPT ![a] = Idle]
  /\ UNCHANGED <<item, outcome, pending, receipt, recent, refining, today>>

\* The send raises: mark_cancelled checks the status of the copy loaded before
\* the send, which is always "pending", and writes over what it is by now.
ReplyFails(a) ==
  /\ actor[a].at = "sending"
  /\ Becomes(actor[a].pending, "cancelled")
  /\ actor' = [actor EXCEPT ![a] = Idle]
  /\ UNCHANGED <<item, outcome, receipt, recent, refining, today>>

\* A row apply_add and the degraded /add insert.
Added(d, expires, purchased, explicit) ==
  [Unborn EXCEPT !.status = "active", !.days = d, !.expires = expires,
                 !.purchased = purchased,
                 !.source = IF explicit THEN "user" ELSE "estimate"]

\* /add with the quota used up: the item is inserted at once, with no proposal
\* and no Undo button.
AddDegraded(i, d) ==
  /\ item[i].status = "unborn"
  /\ Changes(i, Added(d, today + d, today, FALSE))
  /\ UNCHANGED <<outcome, pending, receipt, recent, actor, refining, today>>

-----------------------------------------------------------------------------
(* The Apply and Cancel buttons (_handle_pending_callback): no await before *)
(* the commit.                                                              *)

Tapped(p) == pending[p].status = "pending"

TapOverdue(p) ==
  /\ Tapped(p)
  /\ pending[p].overdue
  /\ Becomes(p, "expired")
  /\ UNCHANGED <<item, outcome, receipt, recent, actor, refining, today>>

TapCancel(p) ==
  /\ Tapped(p)
  /\ ~pending[p].overdue
  /\ Becomes(p, "cancelled")
  /\ UNCHANGED <<item, outcome, receipt, recent, actor, refining, today>>

\* apply_correct: the duration, then the expiry, as proposed.
Corrected(row, diff) ==
  LET lasting == IF diff.days = None THEN row
                 ELSE Dated([row EXCEPT !.days = diff.days, !.source = "user"])
  IN  IF diff.expires = None THEN lasting
      ELSE [lasting EXCEPT !.expires = diff.expires]

TapApplyCorrect(p) ==
  /\ Tapped(p)
  /\ ~pending[p].overdue
  /\ pending[p].what.kind = "correct"
  /\ LET i == pending[p].what.item IN
       \/ /\ item[i].status # "active"
          /\ Becomes(p, "cancelled")
          /\ UNCHANGED item
       \/ /\ item[i].status = "active"
          /\ Changes(i, Corrected(item[i], pending[p].what.diff))
          /\ pending' = [Expired({i}) EXCEPT ![p].status = "applied"]
  /\ UNCHANGED <<outcome, receipt, recent, actor, refining, today>>

TapApplyAdd(p, i) ==
  /\ Tapped(p)
  /\ ~pending[p].overdue
  /\ pending[p].what.kind = "add"
  /\ item[i].status = "unborn"
  /\ LET add == pending[p].what.add IN
       Changes(i, Added(add.days, add.expires, add.purchased, add.explicit))
  /\ recent' = recent \cup {i}
  /\ Becomes(p, "applied")
  /\ UNCHANGED <<outcome, receipt, actor, refining, today>>

\* Mutant: the sweep compares the expiry the wrong way round.
SweepEarly ==
  /\ \E p \in Pendings : Tapped(p) /\ ~pending[p].overdue
  /\ pending' = [p \in Pendings |-> IF Tapped(p) /\ ~pending[p].overdue
                                    THEN [pending[p] EXCEPT !.status = "expired"]
                                    ELSE pending[p]]
  /\ UNCHANGED <<item, outcome, receipt, recent, actor, refining, today>>

\* The scheduler's sweep of the proposals whose ten minutes are over.
SweepExpired ==
  /\ \E p \in Pendings : Tapped(p) /\ pending[p].overdue
  /\ pending' = [p \in Pendings |-> IF Tapped(p) /\ pending[p].overdue
                                    THEN [pending[p] EXCEPT !.status = "expired"]
                                    ELSE pending[p]]
  /\ UNCHANGED <<item, outcome, receipt, recent, actor, refining, today>>

-----------------------------------------------------------------------------
(* Receipts: a photograph is read, its items are inserted in one            *)
(* transaction, and the ones whose shelf life was not cached are refined.   *)

ScanStart(a, r) ==
  /\ actor[a] = Idle
  /\ r \notin receipt
  /\ actor' = [actor EXCEPT ![a] = [at |-> "scanning", receipt |-> r]]
  /\ UNCHANGED <<item, outcome, pending, receipt, recent, refining, today>>

\* The row of an item the photograph shows, bought on day b.
Scanned(r, frozen, d, b) ==
  Dated([Unborn EXCEPT !.status = "active", !.receipt = r, !.days = d,
                       !.purchased = b,
                       !.storage = IF frozen THEN "frozen" ELSE "default",
                       !.stored = IF frozen THEN b ELSE NoDate])

\* The insert of the receipt row decides: a photograph stored meanwhile by
\* another request is a duplicate.  Frozen food is dated like a moved item.
ScanEnd(a) ==
  /\ actor[a].at = "scanning"
  /\ LET r == actor[a].receipt IN
       \/ /\ r \in receipt
          /\ UNCHANGED <<item, receipt, recent, refining>>
       \/ /\ r \notin receipt
          /\ \E S \in SUBSET {i \in Items : item[i].status = "unborn"} :
             \E F, U \in SUBSET S, d \in Durations, b \in 0..today :
               /\ S # {}
               /\ F \cap U = {}
               /\ item' = [i \in Items |-> IF i \in S THEN Scanned(r, i \in F, d, b)
                                           ELSE item[i]]
               /\ refining' = IF U = {} THEN refining
                              ELSE refining \cup
                                   {[receipt |-> r, items |-> U, searching |-> FALSE]}
          /\ receipt' = receipt \cup {r}
          /\ recent' = recent \cup {r}
  /\ actor' = [actor EXCEPT ![a] = Idle]
  /\ UNCHANGED <<outcome, pending, today>>

\* The photograph cannot be read, or shows nothing to keep.
ScanFails(a) ==
  /\ actor[a].at = "scanning"
  /\ actor' = [actor EXCEPT ![a] = Idle]
  /\ UNCHANGED <<item, outcome, pending, receipt, recent, refining, today>>

Refinable(i) == IsUntouched(item[i]) /\ item[i].storage = "default"

\* refine_receipt_items up to its await: the items still eligible.
RefineStart(t) ==
  /\ ~t.searching
  /\ LET S == {i \in t.items : Refinable(i)} IN
       refining' = (refining \ {t}) \cup
                   IF S = {} THEN {}
                   ELSE {[receipt |-> t.receipt, items |-> S, searching |-> TRUE]}
  /\ UNCHANGED <<item, outcome, pending, receipt, recent, actor, today>>

\* Mutant: the rows are written as the snapshot found them eligible.
RefineEndUnchecked(t) ==
  /\ t.searching
  /\ \E found \in [t.items -> Durations \cup {None}] :
       item' = [i \in Items |->
                  IF i \in t.items /\ found[i] # None
                  THEN Dated([item[i] EXCEPT !.days = found[i],
                                             !.source = "websearch"])
                  ELSE item[i]]
  /\ refining' = refining \ {t}
  /\ UNCHANGED <<outcome, pending, receipt, recent, actor, today>>

\* ... and after it: each row is read again before it is written.
RefineEnd(t) ==
  /\ t.searching
  /\ \E found \in [t.items -> Durations \cup {None}] :
       item' = [i \in Items |->
                  IF i \in t.items /\ found[i] # None /\ Refinable(i)
                  THEN Dated([item[i] EXCEPT !.days = found[i],
                                             !.source = "websearch"])
                  ELSE item[i]]
  /\ refining' = refining \ {t}
  /\ UNCHANGED <<outcome, pending, receipt, recent, actor, today>>

-----------------------------------------------------------------------------
(* Undo, for ten minutes after the item or the receipt was stored.          *)

\* Mutant: the receipt goes as soon as one of its items does.
UndoReceiptPartly(r) ==
  /\ r \in receipt \cap recent
  /\ LET gone == {i \in Items : item[i].receipt = r /\ IsUntouched(item[i])}
     IN  /\ item' = [i \in Items |->
               IF i \in gone THEN [item[i] EXCEPT !.status = "removed", !.receipt = None]
               ELSE item[i]]
         /\ pending' = Expired(gone)
         /\ receipt' = IF gone # {} THEN receipt \ {r} ELSE receipt
  /\ UNCHANGED <<outcome, recent, actor, refining, today>>

UndoReceipt(r) ==
  /\ r \in receipt \cap recent
  /\ LET mine == {i \in Items : item[i].receipt = r}
         gone == {i \in mine : IsUntouched(item[i])}
         full == gone = mine
     IN  /\ item' = [i \in Items |->
               [item[i] EXCEPT
                  !.status = IF i \in gone THEN "removed" ELSE @,
                  !.receipt = IF i \in mine /\ full THEN None ELSE @]]
         /\ pending' = Expired(gone)
         /\ receipt' = IF full THEN receipt \ {r} ELSE receipt
  /\ UNCHANGED <<outcome, recent, actor, refining, today>>

UndoAdd(i) ==
  /\ i \in recent
  /\ IsUndoableAdd(item[i])
  /\ Changes(i, [item[i] EXCEPT !.status = "removed"])
  /\ pending' = Expired({i})
  /\ UNCHANGED <<outcome, receipt, recent, actor, refining, today>>

-----------------------------------------------------------------------------
(* Time, and the end of the process.                                        *)

UndoCloses(x) ==
  /\ x \in recent
  /\ recent' = recent \ {x}
  /\ UNCHANGED <<item, outcome, pending, receipt, actor, refining, today>>

PendingTimesOut(p) ==
  /\ Tapped(p)
  /\ ~pending[p].overdue
  /\ pending' = [pending EXCEPT ![p].overdue = TRUE]
  /\ UNCHANGED <<item, outcome, receipt, recent, actor, refining, today>>

Tomorrow ==
  /\ today < LastDay
  /\ today' = today + 1
  /\ UNCHANGED <<item, outcome, pending, receipt, recent, actor, refining>>

\* Requests and background tasks live in memory only.
Restart ==
  /\ refining # {} \/ \E a \in Actors : actor[a] # Idle
  /\ actor' = [a \in Actors |-> Idle]
  /\ refining' = {}
  /\ UNCHANGED <<item, outcome, pending, receipt, recent, today>>

-----------------------------------------------------------------------------
ItemStep(i) ==
  \/ \E why \in Terminal : SetTerminal(i, why)
  \/ Snooze(i)
  \/ \E d \in Durations : Nudge(i, d) \/ AddDegraded(i, d)
  \/ UndoAdd(i)

ActorStep(a) ==
  \/ \E i \in Items, target \in {"fridge", "frozen"} : MoveStart(a, i, target)
  \/ \E d \in Durations : MoveLand(a, d)
  \/ \E i \in Items : ProposeStart(a, i)
  \/ \E p \in Pendings : ProposeEnd(a, p) \/ ProposeAdd(a, p)
  \/ ProposeFails(a)
  \/ ReplySent(a)
  \/ ReplyFails(a)
  \/ \E r \in Receipts : ScanStart(a, r)
  \/ ScanEnd(a)
  \/ ScanFails(a)

PendingStep(p) ==
  \/ TapOverdue(p)
  \/ TapCancel(p)
  \/ TapApplyCorrect(p)
  \/ \E i \in Items : TapApplyAdd(p, i)
  \/ PendingTimesOut(p)

ReceiptStep ==
  \/ \E r \in Receipts : UndoReceipt(r)
  \/ \E t \in refining : RefineStart(t) \/ RefineEnd(t)
  \/ \E x \in recent : UndoCloses(x)

Next == \/ \E i \in Items : ItemStep(i)
        \/ \E a \in Actors : ActorStep(a)
        \/ \E p \in Pendings : PendingStep(p)
        \/ ReceiptStep
        \/ SweepExpired
        \/ Tomorrow
        \/ Restart

Spec == Init /\ [][Next]_vars

\* The sweep is a job of the scheduler's, run every few minutes, and a
\* proposal's ten minutes pass.
FairSpec == /\ Spec
            /\ WF_vars(SweepExpired)
            /\ \A p \in Pendings : WF_vars(PendingTimesOut(p))

-----------------------------------------------------------------------------
(* Properties.                                                              *)

Lifecycle == INSTANCE ItemLifecycle WITH status <- [i \in Items |-> item[i].status]

\* Whatever interleaves, an item leaves the pantry once and for one reason, and
\* its outcome row is written in the same commit and never changed (set_terminal
\* and the two undo paths implement the lifecycle).
KeepsLifecycle == Lifecycle!Spec

\* Every edit a user makes to an item, in the commit that makes it, leaves none
\* of that item's earlier proposals live (the README's behaviour note on
\* corrections).  The refinement is not a user's edit.
UserEdited(i) ==
  \/ item'[i].status # item[i].status
  \/ item'[i].snoozed # item[i].snoozed
  \/ <<item'[i].storage, item'[i].stored>> # <<item[i].storage, item[i].stored>>
  \/ /\ <<item'[i].days, item'[i].expires>> # <<item[i].days, item[i].expires>>
     /\ item'[i].source # "websearch"

EditsEndProposals ==
  [][\A i \in Items, p \in Pendings :
       Proposes(p, i) /\ UserEdited(i) => pending'[p].status # "pending"]_vars

\* A duration the user gave is only ever replaced by an estimate when the item is
\* put in another place to be kept: the refinement that was already searching
\* when the user corrected the item must not win (refine_receipt_items).
UserDurationKept ==
  [][\A i \in Items :
       item[i].source = "user" /\ item'[i].source # "user"
         => item'[i].storage # "default"]_vars

\* Undoing a receipt takes it away only together with every item it brought, and
\* an item always refers to a receipt that exists: no undo, rescan or refinement
\* in any order leaves half a receipt or a dangling reference (undo_receipt).
ReceiptsWhole == \A i \in Items : item[i].receipt # None => item[i].receipt \in receipt

\* Buttons, edits, the sweep and the failed send of its own card compete for a
\* proposal.  Once decided it is never live again, so it is applied at most once
\* and an edit that made it stale keeps it from being applied; the one thing that
\* still changes it is its own send, which may call it cancelled (_set_terminal).
DecisionsStand ==
  [][\A p \in Pendings :
       pending[p].status \notin {"free", "pending"} =>
         \/ pending'[p] = pending[p]
         \/ /\ pending'[p] = [pending[p] EXCEPT !.status = "cancelled"]
            /\ \E a \in Actors : actor[a].at = "sending" /\ actor[a].pending = p]_vars

\* Every proposal is decided in the end, answered or not (sweep_expired).
ProposalsEnd == \A p \in Pendings : (pending[p].status = "pending")
                                      ~> (pending[p].status # "pending")

\* storage_state.py: "Transitions are one-way forward (default -> fridge ->
\* frozen); `frozen` is terminal."
ForwardOnly ==
  [][\A i \in Items :
       item'[i].storage # item[i].storage /\ item[i].status # "unborn"
         => CanMoveTo(item[i].storage, item'[i].storage)]_vars
=============================================================================
