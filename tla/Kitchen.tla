------------------------------ MODULE Kitchen -------------------------------
(***************************************************************************)
(* What a household does with its food, for model checking: its pantry, its   *)
(* cook sessions, its meal plans, its cooked sheets, its batch selections,     *)
(* its shopping list, and the Mini App's workspace it does so in.              *)
(*                                                                          *)
(* No commit of the code spans two of these components except where a module  *)
(* says so, therefore they need not be interleaved with one another: each     *)
(* behaviour chooses a scene, explores every interleaving inside it and        *)
(* leaves the other components as they were.                                  *)
(***************************************************************************)
EXTENDS Pantry, CookSessions, MealPlans, CookedSheets, BatchSelection,
        Shopping, Workspace

VARIABLE scene

planned == <<planVars, cookVars>>
shopped == <<shopVars, batchVars, sheetVars, spaceVars>>

KitchenInit ==
  /\ scene \in {"pantry", "cook", "plans", "sheets", "batches", "shopping",
               "workspace"}
  /\ Init /\ CookInit /\ PlanInit /\ BatchInit /\ ShopInit /\ SheetInit
  /\ SpaceInit
  /\ scene # "sheets" => serving = [m \in Meals |-> CHOOSE menu \in Menu : TRUE]
  /\ scene # "workspace" => member = CHOOSE home \in Homes : TRUE

KitchenNext ==
  /\ UNCHANGED scene
  /\ \/ /\ scene = "pantry" /\ Next
        /\ UNCHANGED <<planned, shopped>>
     \/ /\ scene = "cook" /\ CookNext
        /\ UNCHANGED <<vars, planVars, shopped>>
     \/ /\ scene = "plans" /\ PlanNext
        /\ UNCHANGED <<vars, cookVars, shopped>>
     \/ /\ scene = "sheets" /\ SheetNext
        /\ UNCHANGED <<vars, planned, shopVars, batchVars, spaceVars>>
     \/ /\ scene = "batches" /\ BatchNext
        /\ UNCHANGED <<vars, planned, shopVars, sheetVars, spaceVars>>
     \/ /\ scene = "shopping" /\ ShopNext
        /\ UNCHANGED <<vars, planned, batchVars, sheetVars, spaceVars>>
     \/ /\ scene = "workspace" /\ SpaceNext
        /\ UNCHANGED <<vars, planned, shopVars, batchVars, sheetVars>>

\* Whose tap, request or background task it is makes no difference to the code.
\* (The four sets have the same two members, of which a scene uses one role.)
Interchangeable == Permutations(Actors \cup CookTasks \cup PlanTasks \cup Fingers)

KitchenSpec ==
  KitchenInit /\ [][KitchenNext]_<<scene, vars, planned, shopped>>

-----------------------------------------------------------------------------
\* Every table of a scene holds rows of its type.
KitchenTypeOK ==
  /\ scene = "pantry" => TypeOK
  /\ scene = "cook" => CookTypeOK
  /\ scene = "plans" => PlanTypeOK
  /\ scene = "sheets" => SheetTypeOK
  /\ scene = "batches" => BatchTypeOK
  /\ scene = "shopping" => ShopTypeOK
  /\ scene = "workspace" => SpaceTypeOK

\* However requests, proposals and refinements overlap, an item takes only the steps of
\* its life cycle, an edit of it closes the proposals that were made about it, and
\* the duration a person chose survives (modules Pantry and ItemLifecycle).
PantrySound == KeepsLifecycle /\ EditsEndProposals /\ UserDurationKept
=============================================================================
