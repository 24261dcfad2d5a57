---------------------------- MODULE BatchSelection ----------------------------
(***************************************************************************)
(* Selecting pantry items on a screen of pages and ending them all at once. *)
(* A selection is a row; every button carries the version of the row that   *)
(* its screen showed, and a tap is carried out only if it claims that       *)
(* version with a conditional UPDATE.  The claim, the change of the row and *)
(* of the items are one transaction; whatever refuses a tap rolls it back.  *)
(* Taps are pressed on a screen and land later, several of them in flight.  *)
(*                                                                         *)
(* Pantry items end by other means too and do not come back.                *)
(***************************************************************************)
EXTENDS Integers, FiniteSets

CONSTANTS Batches,     \* rows of table pantrybatch
          Fingers,     \* taps under way
          LastItem,    \* candidates are the items 1 .. LastItem, in their sort order
          PageSize, MaxSelected,
          Targets,     \* what an ended item may become: eaten, tossed, ...
          MaxVersion,  \* bound: taps on one row
          Void         \* nothing; for an item, that it is still active

Listed == 1..LastItem
Actions == {"cancel", "edit", "apply", "clear", "toggle", "select_page", "confirm", "page"}

Batch == [status : {"selecting", "confirming", "applied", "cancelled"},
          selected : SUBSET Listed, target : Targets \cup {Void}, page : 0..LastItem,
          version : 0..MaxVersion, late : BOOLEAN,
          applied : 0..LastItem, skipped : 0..LastItem]

ASSUME BatchAssumption ==
  /\ Void \notin Batch \cup Targets
  /\ LastItem \in Nat /\ MaxVersion \in Nat
  /\ PageSize \in Nat \ {0} /\ MaxSelected \in Nat \ {0}

VARIABLES batch,   \* [Batches -> a row, or Void]
          ending,  \* [Listed -> the status of a pantry item]
          press    \* [Fingers -> a tap with what its screen showed, or Void]

batchVars == <<batch, ending, press>>

Press == [batch : Batches, action : Actions, version : 0..MaxVersion,
          value : Listed \cup Targets \cup {0, Void},
          selected : SUBSET Listed, target : Targets \cup {Void}]

BatchTypeOK ==
  /\ batch \in [Batches -> Batch \cup {Void}]
  /\ ending \in [Listed -> Targets \cup {Void}]
  /\ press \in [Fingers -> Press \cup {Void}]

BatchInit ==
  /\ batch = [b \in Batches |-> Void]
  /\ ending = [i \in Listed |-> Void]
  /\ press = [f \in Fingers |-> Void]

CreateBatch(b) ==
  /\ batch[b] = Void
  /\ batch' = [batch EXCEPT ![b] =
       [status |-> "selecting", selected |-> {}, target |-> Void, page |-> 0,
        version |-> 0, late |-> FALSE, applied |-> 0, skipped |-> 0]]
  /\ UNCHANGED <<ending, press>>

Active(set) == {i \in set : ending[i] = Void}

\* How many of these the screen goes through page by page.
Pages(n) == IF n = 0 THEN 1 ELSE (n + PageSize - 1) \div PageSize
Shown(row) == IF row.status = "confirming" THEN Cardinality(row.selected) ELSE LastItem

PageItems(row) == {i \in Listed : row.page = (i - 1) \div PageSize}

\* The buttons of a screen and what they carry: an item can be checked while it
\* is active and unchecked always, an ending is chosen for what is selected.
Values(row, action) ==
  CASE action = "toggle"  -> PageItems(row) \cap (row.selected \cup Active(Listed))
    [] action = "confirm" -> IF row.selected = {} THEN {} ELSE Targets
    [] action = "page"    -> {row.page - 1, row.page + 1} \cap 0..(Pages(Shown(row)) - 1)
    [] OTHER              -> {Void}

Buttons(row) ==
  CASE row.status = "selecting"  -> Actions \ {"edit", "apply"}
    [] row.status = "confirming" -> {"edit", "apply", "cancel", "page"}
    [] OTHER                     -> {}

Tap(f, b) ==
  /\ press[f] = Void
  /\ batch[b] # Void /\ batch[b].version < MaxVersion
  /\ \E a \in Buttons(batch[b]) : \E v \in Values(batch[b], a) :
       press' = [press EXCEPT ![f] =
         [batch |-> b, action |-> a, value |-> v, version |-> batch[b].version,
          selected |-> batch[b].selected, target |-> batch[b].target]]
  /\ UNCHANGED <<batch, ending>>

\* Mutant: the version is read but not claimed.
ClaimedLoosely(row, version) == ~row.late /\ row.status \in {"selecting", "confirming"}

\* load_batch refuses what is late, the UPDATE what is closed or out of date.
Claimed(row, version) ==
  ~row.late /\ row.status \in {"selecting", "confirming"} /\ row.version = version

ConfirmedRow(row, target) ==
  [row EXCEPT !.status = "confirming", !.target = target, !.page = 0]

Toggled(row, i) == IF i \in row.selected THEN row.selected \ {i} ELSE row.selected \cup {i}

\* The changed row, or none when the limit refuses it.
WithSelection(row, set) ==
  {r \in {[row EXCEPT !.selected = set]} : Cardinality(set) <= MaxSelected}

\* What a claimed tap other than "apply" makes of the row; none if it is refused.
\* An item that has ended can be unchecked but not checked.
Changed(row, a, v) ==
  CASE a = "cancel" -> {[row EXCEPT !.status = "cancelled"]}
    [] a = "page"   -> {[row EXCEPT !.page = p] : p \in {v} \cap 0..(Pages(Shown(row)) - 1)}
    [] a = "edit" /\ row.status = "confirming" ->
         {[row EXCEPT !.status = "selecting", !.target = Void, !.page = 0]}
    [] a = "clear" /\ row.status = "selecting" -> {[row EXCEPT !.selected = {}]}
    [] a = "toggle" /\ row.status = "selecting" /\ v \in row.selected \cup Active(Listed) ->
         WithSelection(row, Toggled(row, v))
    [] a = "select_page" /\ row.status = "selecting" ->
         WithSelection(row, row.selected \cup Active(PageItems(row)))
    [] a = "confirm" /\ row.status = "selecting" /\ row.selected # {} -> {ConfirmedRow(row, v)}
    [] OTHER -> {}

\* set_terminal is called for what is still active.
Ended(row) == [i \in Listed |-> IF i \in Active(row.selected) THEN row.target ELSE ending[i]]

\* What an applied batch tells: what it ended, and what it found ended.
Counted(row) ==
  [row EXCEPT !.applied = Cardinality(Active(row.selected)),
              !.skipped = Cardinality(row.selected) - Cardinality(Active(row.selected))]

Apply(b, row) ==
  /\ ending' = Ended(row)
  /\ batch' = [batch EXCEPT ![b] = [Counted(row) EXCEPT !.status = "applied", !.version = @ + 1]]

\* change_selection
ChangeSelection(f) ==
  /\ press[f] # Void /\ press' = [press EXCEPT ![f] = Void]
  /\ LET b == press[f].batch
         row == batch[b]
         changed == Changed(row, press[f].action, press[f].value)
     IN IF ~Claimed(row, press[f].version) THEN UNCHANGED <<batch, ending>>
        ELSE \/ /\ press[f].action = "apply" /\ row.status = "confirming"
                /\ Apply(b, row)
             \/ /\ press[f].action # "apply" /\ changed # {} /\ UNCHANGED ending
                /\ \E r \in changed : batch' = [batch EXCEPT ![b] = [r EXCEPT !.version = @ + 1]]
             \/ /\ press[f].action # "apply" /\ changed = {} /\ UNCHANGED <<batch, ending>>

\* Half an hour after it was made.
BatchExpires(b) ==
  /\ batch[b] # Void /\ ~batch[b].late
  /\ batch' = [batch EXCEPT ![b].late = TRUE] /\ UNCHANGED <<ending, press>>

EndElsewhere(i) ==
  /\ ending[i] = Void
  /\ \E target \in Targets : ending' = [ending EXCEPT ![i] = target]
  /\ UNCHANGED <<batch, press>>

BatchNext ==
  \/ \E b \in Batches : CreateBatch(b) \/ BatchExpires(b) \/ \E f \in Fingers : Tap(f, b)
  \/ \E f \in Fingers : ChangeSelection(f)
  \/ \E i \in Listed : EndElsewhere(i)

BatchSpec == BatchInit /\ [][BatchNext]_batchVars

-----------------------------------------------------------------------------
(* Properties.                                                              *)

\* A tap on an old screen "can never confirm a different selection silently":
\* what is applied is what the screen that was tapped showed.
AppliesWhatWasShown ==
  [][\A f \in Fingers, b \in Batches :
       /\ press[f] # Void /\ press'[f] = Void /\ press[f].batch = b
       /\ batch'[b].status = "applied" /\ batch[b].status # "applied"
       => press[f].selected = batch[b].selected /\ press[f].target = batch[b].target]_batchVars

\* However a batch and everything else that ends items interleave, no ending is
\* overwritten by another.
EndingsStay ==
  [][\A i \in Listed : ending[i] # Void => ending'[i] = ending[i]]_batchVars

\* An applied batch has ended the whole of its selection, and tells how much of
\* it was its own doing.
AppliedWhole ==
  \A b \in Batches : batch[b] # Void /\ batch[b].status = "applied" =>
    /\ Active(batch[b].selected) = {} /\ batch[b].target # Void
    /\ batch[b].applied + batch[b].skipped = Cardinality(batch[b].selected)

\* No selection exceeds what one transaction may hold.
SelectionLimited ==
  \A b \in Batches : batch[b] # Void => Cardinality(batch[b].selected) <= MaxSelected

\* The screen is never on a page that its list does not have, also when the list
\* becomes the shorter one of what was selected.
PageExists ==
  \A b \in Batches : batch[b] # Void => batch[b].page < Pages(Shown(batch[b]))

\* A batch, whichever fingers tap its screens.
BatchesSound ==
  [](AppliedWhole /\ SelectionLimited /\ PageExists) /\ AppliesWhatWasShown /\ EndingsStay
=============================================================================
