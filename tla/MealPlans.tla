------------------------------ MODULE MealPlans ------------------------------
(***************************************************************************)
(* /plan and the swap and cancel buttons of a plan.                         *)
(* A plan is composed and then searched for day by day, each search an      *)
(* await of seconds to minutes in which other members send /plan, swap a    *)
(* day or cancel.  Day n is planned against the pantry less what days 1 to   *)
(* n - 1 use.                                                               *)
(*                                                                         *)
(* A recipe is the set of its ingredients and stands for its external id;   *)
(* of the cost only whether it exceeds the ceiling is kept.  Which recipes  *)
(* a search returns, and which of them scores best, is left open.           *)
(***************************************************************************)
EXTENDS Naturals, FiniteSets

CONSTANTS Plans,      \* rows of table mealplan, of one household
          PlanTasks,  \* handlers that are waiting for the composer or a search
          Names,      \* normalized names of pantry items and ingredients
          Dishes,     \* recipes, each the set of its ingredients
          WeekLength, NoPlan

ASSUME PlanAssumption ==
  WeekLength \in Nat \ {0} /\ Dishes \subseteq SUBSET Names /\ NoPlan \notin Plans

PlanDays == 1..WeekLength

VARIABLES plan,      \* [Plans -> status]
          entry,     \* [Plans -> [PlanDays -> a recipe with its gap, or NoPlan]]
          planTask   \* [PlanTasks -> what it is waiting for]

planVars == <<plan, entry, planTask>>

Entry == [dish : Dishes, gap : SUBSET Names]
Week == [PlanDays -> Entry \cup {NoPlan}]
NoWeek == [d \in PlanDays |-> NoPlan]

Composing == [at : {"composing"}]
Searching == [at : {"searching"}, plan : Plans, day : PlanDays, pool : SUBSET Names,
              week : Week, over : BOOLEAN]
Swapping == [at : {"swapping"}, plan : Plans, day : PlanDays,
             taken : SUBSET Dishes]

PlanTypeOK ==
  /\ plan \in [Plans -> {"none", "draft", "active", "cancelled"}]
  /\ entry \in [Plans -> Week]
  /\ planTask \in [PlanTasks -> Composing \cup Searching \cup Swapping \cup {NoPlan}]

PlanInit ==
  /\ plan = [p \in Plans |-> "none"]
  /\ entry = [p \in Plans |-> NoWeek]
  /\ planTask = [k \in PlanTasks |-> NoPlan]

Proceeds(k, task) == planTask' = [planTask EXCEPT ![k] = task]
Free(k) == planTask[k] = NoPlan
\* Rows are numbered in the order they are made.
NewRow(p) == plan[p] = "none" /\ p = CHOOSE q \in Plans : plan[q] = "none"
Waiting(k, at) == planTask[k] # NoPlan /\ planTask[k].at = at
Taken(week) == {week[d].dish : d \in {e \in PlanDays : week[e] # NoPlan}}

-----------------------------------------------------------------------------
(* /plan                                                                    *)

HandlePlan(k) ==
  /\ Free(k) /\ Proceeds(k, [at |-> "composing"])
  /\ UNCHANGED <<plan, entry>>

\* cancel_active_plans
Cancelled(status) == IF status = "active" THEN "cancelled" ELSE status

\* Composed, or composed by rule when the composer fails.  The plans that are
\* active go now, before anything has been found.
Composed(k, p) ==
  /\ Waiting(k, "composing") /\ NewRow(p)
  /\ plan' = [q \in Plans |-> IF q = p THEN "draft" ELSE Cancelled(plan[q])]
  /\ \E pool \in (SUBSET Names) \ {{}} :
       Proceeds(k, [at |-> "searching", plan |-> p, day |-> 1, pool |-> pool,
                   week |-> NoWeek, over |-> FALSE])
  /\ UNCHANGED entry

\* shopping_list
Gap(dish, pool) == dish \ pool

\* The ceiling ends the plan after the day that exceeded it.
DayDone(task) == task.day = WeekLength \/ task.over

\* What _pick leaves of a search: nothing that another day has.
Fresh(week) == Dishes \ Taken(week)

\* Mutant: what an earlier day uses is still in the pantry for the next.
SearchedInWholePantry(task, dish, over) ==
  [task EXCEPT !.over = @ \/ over,
               !.week[task.day] = IF dish = NoPlan THEN NoPlan
                                  ELSE [dish |-> dish, gap |-> Gap(dish, task.pool)]]

\* A day is found, or skipped when no recipe is left.
Searched(task, dish, over) ==
  [task EXCEPT !.pool = IF dish = NoPlan THEN @ ELSE @ \ dish,
               !.over = @ \/ over,
               !.week[task.day] = IF dish = NoPlan THEN NoPlan
                                  ELSE [dish |-> dish, gap |-> Gap(dish, task.pool)]]

\* After the last day the plan is activated with its entries, also with none.
BuildPlan(k) ==
  /\ Waiting(k, "searching")
  /\ \E dish \in Fresh(planTask[k].week) \cup {NoPlan}, over \in BOOLEAN :
       LET task == Searched(planTask[k], dish, over) IN
       IF DayDone(task)
       THEN /\ plan' = [plan EXCEPT ![task.plan] = "active"]
            /\ entry' = [entry EXCEPT ![task.plan] = task.week]
            /\ Proceeds(k, NoPlan)
       ELSE Proceeds(k, [task EXCEPT !.day = @ + 1]) /\ UNCHANGED <<plan, entry>>

\* An error that no source catches, or a restart: the row stays a draft.
BuildFails(k) ==
  /\ planTask[k] # NoPlan /\ Proceeds(k, NoPlan)
  /\ UNCHANGED <<plan, entry>>

-----------------------------------------------------------------------------
(* The buttons of a plan.                                                   *)

CancelPlan(p) ==
  /\ plan[p] = "active" /\ plan' = [plan EXCEPT ![p] = "cancelled"]
  /\ UNCHANGED <<entry, planTask>>

\* What the plan has on its days, and the pantry, are read before the search.
Swap(k, p, d) ==
  /\ Free(k) /\ plan[p] = "active" /\ entry[p][d] # NoPlan
  /\ Proceeds(k, [at |-> "swapping", plan |-> p, day |-> d,
                 taken |-> Taken(entry[p])])
  /\ UNCHANGED <<plan, entry>>

\* The entry is written whatever has become of the plan.
SwapDay(k) ==
  /\ Waiting(k, "swapping") /\ Proceeds(k, NoPlan)
  /\ LET task == planTask[k] IN
       \/ UNCHANGED entry
       \/ \E dish \in Dishes \ task.taken, pool \in SUBSET Names :
            entry' = [entry EXCEPT ![task.plan][task.day] =
                        [dish |-> dish, gap |-> Gap(dish, pool)]]
  /\ UNCHANGED plan

-----------------------------------------------------------------------------
PlanNext ==
  \/ \E k \in PlanTasks :
       \/ HandlePlan(k) \/ BuildPlan(k) \/ BuildFails(k) \/ SwapDay(k)
       \/ \E p \in Plans : Composed(k, p) \/ \E d \in PlanDays : Swap(k, p, d)
  \/ \E p \in Plans : CancelPlan(p)

PlanSpec == PlanInit /\ [][PlanNext]_planVars

-----------------------------------------------------------------------------
(* Properties.                                                              *)

Activates(p) == plan[p] # "active" /\ plan'[p] = "active"

\* A plan's week is varied when it is made: no recipe on two of its days,
\* although the days are searched one by one.
NoRecipeTwice ==
  [][\A p \in Plans : Activates(p) =>
       \A d, e \in PlanDays :
         d < e /\ entry'[p][d] # NoPlan /\ entry'[p][e] # NoPlan
           => entry'[p][d].dish # entry'[p][e].dish]_planVars

\* "Correct by construction": what two days of a new plan both use is on its
\* shopping list for the later one, so that no pantry item is planned twice.
PantrySpentOnce ==
  [][\A p \in Plans : Activates(p) =>
       \A d, e \in PlanDays :
         d < e /\ entry'[p][d] # NoPlan /\ entry'[p][e] # NoPlan
           => entry'[p][d].dish \cap entry'[p][e].dish \subseteq entry'[p][e].gap]_planVars

\* No day is searched for once the ceiling is known to be exceeded.
CeilingEndsSearch ==
  \A k \in PlanTasks : Waiting(k, "searching") => ~planTask[k].over

\* Replacing is final: neither a search nor a swap that was under way brings
\* back a plan that was cancelled.
CancelledStays ==
  [][\A p \in Plans : plan[p] = "cancelled" => plan'[p] = "cancelled"]_planVars

\* What a household may rely on, whichever handlers overlap.
PlansSound == NoRecipeTwice /\ PantrySpentOnce /\ CancelledStays /\ []CeilingEndsSearch
=============================================================================
