------------------------------ MODULE Shopping -------------------------------
(***************************************************************************)
(* A household's shopping list and its favourite recipes.                   *)
(* Rows are added from the chosen card of a /cook, from a week's plan and    *)
(* by a sentence; they are checked off by a tap on a button that may be      *)
(* days old, by a sentence, and by the transaction that saves a receipt.     *)
(* Every operation is synchronous: handlers interleave between them.         *)
(*                                                                         *)
(* A name is its normalized form, Blank the one with nothing left; a list    *)
(* of names is the set of them, a recipe the set of its ingredients, which    *)
(* stands for its title and address.                                        *)
(***************************************************************************)
EXTENDS Naturals, Sequences, FiniteSets, SequencesExt

CONSTANTS Foods,     \* normalized names
          Blank,     \* the name that normalizes to nothing
          ShopDishes, \* recipes
          MaxListed  \* bound: rows of shoppinglist

ASSUME ShoppingAssumption ==
  /\ IsFiniteSet(Foods) /\ Blank \notin Foods /\ MaxListed \in Nat
  /\ ShopDishes \subseteq SUBSET (Foods \cup {Blank})

VARIABLES listed,     \* table shoppinglist; a row's id is its place
          favorites,  \* table savedrecipe, likewise
          cooked,     \* the household's finished /cook: its cards, chosen_index
          stocked     \* names of the active items that are not past their date

shopVars == <<listed, favorites, cooked, stocked>>

Sayings == SUBSET (Foods \cup {Blank})
Row == [food : Foods, bought : BOOLEAN]

ShopTypeOK ==
  /\ listed \in Seq(Row) /\ Len(listed) <= MaxListed
  /\ favorites \in Seq(ShopDishes)
  /\ cooked.cards \in Seq(ShopDishes) /\ cooked.chosen \in Nat
  /\ stocked \subseteq Foods

ShopInit ==
  /\ listed = <<>> /\ favorites = <<>> /\ stocked = {}
  /\ cooked = [cards |-> <<>>, chosen |-> 0]

-----------------------------------------------------------------------------
PendingRows == {i \in DOMAIN listed : ~listed[i].bought}
PendingFoods == {listed[i].food : i \in PendingRows}

\* As if a food that was ever bought counted as listed.
UnlistedEver(names) == names \ ({listed[i].food : i \in DOMAIN listed} \cup {Blank})
\* What is pending already, or is blank, is not added.
Unlisted(names) == names \ (PendingFoods \cup {Blank})
AddMissing(names) ==
  /\ Len(listed) + Cardinality(Unlisted(names)) <= MaxListed
  /\ listed' = listed \o [n \in 1..Cardinality(Unlisted(names)) |->
                            [food |-> SetToSeq(Unlisted(names))[n], bought |-> FALSE]]
  /\ UNCHANGED <<favorites, cooked, stocked>>

CheckOff(rows) ==
  listed' = [i \in DOMAIN listed |->
               [listed[i] EXCEPT !.bought = @ \/ i \in rows]]

\* check_off_purchased_names
Purchased(names) == {i \in PendingRows : listed[i].food \in names}

-----------------------------------------------------------------------------
\* A /cook ends, is re-run, extended or a card of it is chosen.
Cards == {<<a>> : a \in ShopDishes} \cup (ShopDishes \X ShopDishes)

CardsChange ==
  /\ \E cards \in Cards, index \in 0..1 : cooked' = [cards |-> cards, chosen |-> index]
  /\ UNCHANGED <<listed, favorites, stocked>>

\* Items are eaten, tossed or pass their date, or are added by hand.
PantryMoves ==
  /\ stocked' \in SUBSET Foods
  /\ UNCHANGED <<listed, favorites, cooked>>

\* The card a button of the cook session acts on: the one chosen by now.
Card == IF cooked.chosen < Len(cooked.cards) THEN cooked.cards[cooked.chosen + 1]
        ELSE cooked.cards[1]

CookShop ==
  /\ cooked.cards # <<>>
  /\ AddMissing(Card \ stocked)

SaveCandidate ==
  /\ cooked.cards # <<>>
  /\ \A i \in DOMAIN favorites : favorites[i] # Card
  /\ favorites' = Append(favorites, Card)
  /\ UNCHANGED <<listed, cooked, stocked>>

\* The plan's shopping button: the gaps of its days, as they were when planned.
PlanShop(gaps) == AddMissing(gaps)

SpokenAdd(names) == names # {} /\ AddMissing(names)

SpokenRemove(names) ==
  /\ CheckOff(Purchased(names))
  /\ UNCHANGED <<favorites, cooked, stocked>>

\* A receipt's items enter the pantry and leave the list in one transaction;
\* when that fails, both are rolled back.
ReceiptSaved(names) ==
  /\ stocked' = stocked \cup (names \ {Blank})
  /\ CheckOff(Purchased(names))
  /\ UNCHANGED <<favorites, cooked>>

\* A button of a list shown at any time before.
ShopDone(row) ==
  /\ row \in PendingRows
  /\ CheckOff({row})
  /\ UNCHANGED <<favorites, cooked, stocked>>

ShopNext ==
  \/ CardsChange \/ PantryMoves \/ CookShop \/ SaveCandidate
  \/ \E names \in Sayings : PlanShop(names) \/ SpokenAdd(names)
       \/ SpokenRemove(names) \/ ReceiptSaved(names)
  \/ \E row \in 1..MaxListed : ShopDone(row)

ShopSpec == ShopInit /\ [][ShopNext]_shopVars

-----------------------------------------------------------------------------
(* Properties.                                                              *)

\* A food is listed once while it is still to be bought, whichever of the
\* card, the plan and the sentence asked for it (shopping_service.add_missing).
ListedOnce == \A i, j \in PendingRows : i # j => listed[i].food # listed[j].food

\* A recipe is a favourite once, also when it is saved from a later search.
FavoriteOnce == \A i, j \in DOMAIN favorites : i # j => favorites[i] # favorites[j]

\* A row that was bought is history: it stays as it is, and a food bought
\* before is listed again as a row of its own.
BoughtStays == \A i \in DOMAIN listed :
                 /\ i \in DOMAIN listed' /\ listed'[i].food = listed[i].food
                 /\ listed[i].bought => listed'[i].bought

\* A row leaves the list only by its own button, or when its food is named
\* or is on a receipt whose items are in the pantry by then.
LeavesWhenBought ==
  \A i \in PendingRows : listed'[i].bought =>
    \/ ShopDone(i)
    \/ \E names \in Sayings : /\ listed[i].food \in names
                              /\ SpokenRemove(names) \/ ReceiptSaved(names)

\* After a tap on the card's shopping button all that the card chosen at that
\* time needs is in the pantry or on the list, also what was bought before.
CardIsCovered == CookShop => Card \ {Blank} \subseteq stocked \cup PendingFoods'

\* The list and the favourites as the household relies on them.
ShoppingSound == /\ [](ListedOnce /\ FavoriteOnce)
                 /\ [][BoughtStays /\ LeavesWhenBought /\ CardIsCovered]_shopVars
=============================================================================
