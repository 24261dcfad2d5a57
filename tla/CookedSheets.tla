----------------------------- MODULE CookedSheets -----------------------------
(***************************************************************************)
(* "I cooked this": the sheet on which a household checks what a meal used  *)
(* up.  A sheet is opened from a day of the plan, whose recipe may be       *)
(* swapped while the sheet is open, or from a /cook result, and is the      *)
(* record of the meal once it is confirmed.  Confirming eats the checked    *)
(* items one commit at a time and then commits the record, so that a crash  *)
(* leaves some of them eaten on a sheet that is still open.                 *)
(*                                                                         *)
(* A recipe is the set of the pantry items it uses.  Each item is used up   *)
(* by other means too; none comes back.                                     *)
(***************************************************************************)
EXTENDS Naturals

CONSTANTS Sheets,    \* rows of table cookedmeal, of one household
          Stock,     \* rows of table pantryitem, by id
          Menu,      \* recipes
          Meals,     \* rows of table mealplanentry, of the active plan
          Unset

ASSUME SheetAssumption ==
  Stock \subseteq Nat /\ Menu \subseteq SUBSET Stock /\ Unset \notin Meals

VARIABLES sheet,     \* [Sheets -> a row, or Unset]
          onHand,    \* the items that are active
          outcomes,  \* [Stock -> rows of table pantryoutcome]
          serving,   \* [Meals -> the recipe of the entry]
          tapped     \* the entry a handler has read and not yet opened, or Unset

sheetVars == <<sheet, onHand, outcomes, serving, tapped>>

Sheet == [meal : Meals \cup {Unset}, key : Menu, listed : SUBSET Stock,
          selected : SUBSET Stock, confirmed : BOOLEAN, consumed : BOOLEAN]

SheetTypeOK ==
  /\ sheet \in [Sheets -> Sheet \cup {Unset}]
  /\ onHand \in SUBSET Stock
  /\ outcomes \in [Stock -> Nat]
  /\ serving \in [Meals -> Menu]
  /\ tapped \in [meal : Meals, key : Menu] \cup {Unset}

SheetInit ==
  /\ sheet = [s \in Sheets |-> Unset]
  /\ onHand = Stock
  /\ outcomes = [i \in Stock |-> 0]
  /\ serving \in [Meals -> Menu]
  /\ tapped = Unset

OpenSheets == {s \in Sheets : sheet[s] # Unset /\ ~sheet[s].confirmed}
NewSheet(s) == sheet[s] = Unset /\ s = CHOOSE r \in Sheets : sheet[r] = Unset

\* _candidates_for: what a sheet shows, from the entry as it is now.
Candidates(s) ==
  onHand \cap IF sheet[s].meal = Unset THEN sheet[s].listed ELSE serving[sheet[s].meal]

-----------------------------------------------------------------------------

TapCooked(m) ==
  /\ tapped = Unset /\ tapped' = [meal |-> m, key |-> serving[m]]
  /\ UNCHANGED <<sheet, onHand, outcomes, serving>>

\* The unconfirmed sheet of an entry, or of a /cook recipe, is used again.
IsOpen(meal, key) ==
  \E s \in OpenSheets : sheet[s].meal = meal /\ (meal = Unset => sheet[s].key = key)

Opened(s, meal, key) ==
  sheet' = [sheet EXCEPT ![s] =
    [meal |-> meal, key |-> key, listed |-> IF meal = Unset THEN key \cap onHand ELSE {},
     selected |-> key \cap onHand, confirmed |-> FALSE, consumed |-> FALSE]]

\* open_sheet goes by the recipe that was read before the tap was answered.
OpenSheet(s) ==
  /\ tapped # Unset /\ tapped' = Unset
  /\ \/ IsOpen(tapped.meal, tapped.key) /\ UNCHANGED sheet
     \/ /\ ~IsOpen(tapped.meal, tapped.key) /\ NewSheet(s)
        /\ Opened(s, tapped.meal, tapped.key)
  /\ UNCHANGED <<onHand, outcomes, serving>>

OpenCookSheet(s, key) ==
  /\ ~IsOpen(Unset, key) /\ NewSheet(s) /\ Opened(s, Unset, key)
  /\ UNCHANGED <<onHand, outcomes, serving, tapped>>

\* _load_row
LoadRow(s) == s \in OpenSheets

Flip(set, i) == IF i \in set THEN set \ {i} ELSE set \cup {i}

Toggle(s, i) ==
  /\ LoadRow(s) /\ i \in Candidates(s)
  /\ sheet' = [sheet EXCEPT ![s].selected = Flip(@, i)]
  /\ UNCHANGED <<onHand, outcomes, serving, tapped>>

\* mark_eaten does nothing to an item that has ended.
Eat(items) ==
  /\ onHand' = onHand \ items
  /\ outcomes' = [i \in Stock |-> IF i \in items \cap onHand THEN outcomes[i] + 1
                                  ELSE outcomes[i]]

\* Mutant: the record is committed before the items.
ConfirmFirst(s, consume) ==
  /\ LoadRow(s) /\ Eat({})
  /\ sheet' = [sheet EXCEPT ![s].confirmed = TRUE, ![s].consumed = consume]
  /\ UNCHANGED <<serving, tapped>>

\* With "nothing used" the meal is recorded and no item is touched.
Confirm(s, consume) ==
  /\ LoadRow(s)
  /\ Eat(IF consume THEN sheet[s].selected ELSE {})
  /\ sheet' = [sheet EXCEPT ![s].confirmed = TRUE, ![s].consumed = consume]
  /\ UNCHANGED <<serving, tapped>>

\* The process ends after the items up to i, which are eaten in order of id.
ConfirmCut(s, i) ==
  /\ LoadRow(s) /\ i \in sheet[s].selected
  /\ Eat({j \in sheet[s].selected : j <= i})
  /\ tapped' = Unset /\ UNCHANGED <<sheet, serving>>

-----------------------------------------------------------------------------

MarkTerminal(i) ==
  /\ i \in onHand /\ Eat({i}) /\ UNCHANGED <<sheet, serving, tapped>>

SwapMeal(m, key) ==
  /\ serving' = [serving EXCEPT ![m] = key]
  /\ UNCHANGED <<sheet, onHand, outcomes, tapped>>

SheetNext ==
  \/ \E m \in Meals : TapCooked(m) \/ \E key \in Menu : SwapMeal(m, key)
  \/ \E s \in Sheets :
       \/ OpenSheet(s)
       \/ \E key \in Menu : OpenCookSheet(s, key)
       \/ \E i \in Stock : Toggle(s, i) \/ ConfirmCut(s, i)
       \/ \E consume \in BOOLEAN : Confirm(s, consume)
  \/ \E i \in Stock : MarkTerminal(i)

SheetSpec == SheetInit /\ [][SheetNext]_sheetVars

-----------------------------------------------------------------------------
(* Properties.                                                              *)

\* However often "cooked" is tapped, and by however many members, an entry of a
\* plan has one sheet that can be confirmed, whatever dish it is given meanwhile,
\* and so has a recipe of /cook.  One that was confirmed may be opened again.
OneSheetPerMeal ==
  \A s, r \in OpenSheets :
    /\ sheet[s].meal = sheet[r].meal
    /\ sheet[s].meal = Unset => sheet[s].key = sheet[r].key
    => s = r

\* A confirmed meal is a record: no later tap on its old message changes it.
RecordsAreFinal ==
  [][\A s \in Sheets : sheet[s] # Unset /\ sheet[s].confirmed => sheet'[s] = sheet[s]]_sheetVars

\* A record that says its items were eaten is true: a crash in the middle of a
\* confirmation leaves the sheet open rather than an item uneaten.
RecordsAreTrue ==
  \A s \in Sheets : sheet[s] # Unset /\ sheet[s].consumed => sheet[s].selected \cap onHand = {}

\* An item that stands on several sheets, or is confirmed again after a crash,
\* counts as eaten once.
EatenOnce == \A i \in Stock : outcomes[i] <= 1 /\ (outcomes[i] = 0 <=> i \in onHand)

\* What the records of cooked meals are worth, whatever crashes or is tapped again.
SheetsSound == [](OneSheetPerMeal /\ RecordsAreTrue /\ EatenOnce) /\ RecordsAreFinal
=============================================================================
