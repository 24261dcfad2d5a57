---------------------------- MODULE RecipeSearch ----------------------------
(***************************************************************************)
(* One search for recipes along the chain of sources: Spoonacular when a   *)
(* key is configured, TheMealDB, and the recipe model as the last resort.  *)
(* A source that fails loses nothing of the others; what it has cost is    *)
(* subtracted from the budget of the next; and the recipes of every source *)
(* are filtered by what the household excludes before any is returned.     *)
(*                                                                         *)
(* A recipe either holds an excluded ingredient or not, and its source     *)
(* either lists its ingredients or leaves the list empty.  The filter reads*)
(* the list.  The model's source filters what it fetched itself, asks once *)
(* more when nothing was left, and has the nutrition model score the rest. *)
(***************************************************************************)
EXTENDS Naturals, Sequences, FiniteSets

CONSTANTS SearchLimits,   \* remaining_cost_micros a caller may set
          MaxCallCost,    \* most one call of a model costs
          Unlimited,      \* no ceiling
          Unpriced        \* a cost that is not known

ASSUME RecipeSearchAssumption ==
  /\ SearchLimits \subseteq Nat \cup {Unlimited}
  /\ MaxCallCost \in Nat
  /\ Unlimited \notin Nat /\ Unpriced \notin Nat

VARIABLE search           \* the search under way, or the last one

Chain == <<"spoonacular", "mealdb", "model">>
CallCosts == 0..MaxCallCost \cup {Unpriced}

\* A recipe as a source returns it.
SourcedRecipe == [excluded : BOOLEAN, listed : BOOLEAN]

ViolatesExclusions(recipe) == recipe.excluded /\ recipe.listed

Allowed(recipes) == {r \in recipes : ~ViolatesExclusions(r)}

-----------------------------------------------------------------------------
(* Costs.                                                                  *)

AddKnownCost(total, cost) ==
  IF cost \in {0, Unpriced} THEN total
  ELSE IF total = Unpriced THEN cost ELSE total + cost

OverBudget(cost, limit) ==
  limit # Unlimited /\ cost # Unpriced /\ cost > limit

RemainingBudget(limit, spent) ==
  CASE limit = Unlimited -> Unlimited
    [] spent = Unpriced -> limit
    [] OTHER -> IF spent > limit THEN 0 ELSE limit - spent

-----------------------------------------------------------------------------
Source == Chain[search.at]

\* A search with this ceiling; keyed and modelled tell which sources exist.
Begun(limit, keyed, modelled, forbids) ==
  [at |-> 1, stage |-> "fetch", limit |-> limit, total |-> Unpriced,
   part |-> Unpriced, kept |-> {}, result |-> {}, forbids |-> forbids,
   sources |-> {"mealdb"} \cup (IF keyed THEN {"spoonacular"} ELSE {})
                          \cup (IF modelled THEN {"model"} ELSE {}),
   spent |-> 0]

Done == search.at > Len(Chain)

SearchInit ==
  \E limit \in SearchLimits, keyed, modelled, forbids \in BOOLEAN :
    search = Begun(limit, keyed, modelled, forbids)

SearchAgain(limit, keyed, modelled, forbids) ==
  /\ Done
  /\ search' = Begun(limit, keyed, modelled, forbids)

-----------------------------------------------------------------------------
(* The chain.                                                              *)

Over(s) == [s EXCEPT !.at = Len(Chain) + 1, !.stage = "fetch", !.kept = {},
                     !.part = Unpriced]
NextSource(s) == [s EXCEPT !.at = @ + 1, !.stage = "fetch", !.kept = {},
                           !.part = Unpriced]

\* A source has answered with these recipes at this cost.
Absorbed(s, recipes, cost) ==
  LET t == [s EXCEPT !.total = AddKnownCost(@, cost)]
      safe == Allowed(recipes)
  IN IF safe # {} THEN Over([t EXCEPT !.result = safe])
     ELSE IF OverBudget(t.total, t.limit) THEN Over(t) ELSE NextSource(t)

\* A source has raised: what its calls have cost is not known to the chain.
Failed(s) == NextSource(s)

Skip ==
  /\ ~Done /\ Source \notin search.sources
  /\ search' = NextSource(search)

\* Spoonacular is asked to exclude; both sources catch their own failures.
FetchSpoonacular(recipes) ==
  /\ ~Done /\ Source = "spoonacular" /\ Source \in search.sources
  /\ search' = Absorbed(search, recipes, Unpriced)

\* Only looked up by the main ingredient: the answer knows no exclusions,
\* and a lookup that fails halfway loses the recipes before it.
FetchMealDb(recipes) ==
  /\ ~Done /\ Source = "mealdb"
  /\ search' = Absorbed(search, recipes, Unpriced)

-----------------------------------------------------------------------------
(* The model's source.                                                     *)

\* What is left for this source.
Left == RemainingBudget(search.limit, search.total)

\* The source has paid for one more call.
Charged(s, cost) ==
  [s EXCEPT !.part = AddKnownCost(@, cost),
            !.spent = IF cost = Unpriced THEN @ ELSE @ + cost]

ModelRuns(stage) == ~Done /\ Source = "model" /\ Source \in search.sources
                 /\ search.stage = stage

\* What the fetch leads to: nothing when over budget or nothing is left, a
\* second fetch when all were excluded, the scores otherwise.
Fetch(recipes, cost) ==
  /\ ModelRuns("fetch") \/ ModelRuns("refetch")
  /\ LET s == Charged(search, cost)
         fit == IF search.forbids THEN Allowed(recipes) ELSE recipes
     IN search' =
          CASE OverBudget(s.part, Left) -> Absorbed(s, {}, s.part)
            [] ~OverBudget(s.part, Left) /\ fit # {} ->
                 [s EXCEPT !.stage = "score", !.kept = fit]
            [] ~OverBudget(s.part, Left) /\ fit = {} ->
                 IF search.stage = "fetch" /\ recipes # {} /\ search.forbids
                 THEN [s EXCEPT !.stage = "refetch"]
                 ELSE Absorbed(s, {}, s.part)

\* The nutrition model scores the kept recipes in order; recipes beyond the
\* scores it returns are dropped.
Score(scored, cost) ==
  /\ ModelRuns("score")
  /\ scored \subseteq search.kept
  /\ LET s == Charged(search, cost) IN search' = Absorbed(s, scored, s.part)

\* One of the calls raises.
ModelFails ==
  /\ ~Done /\ Source = "model" /\ Source \in search.sources
  /\ search' = Failed(search)

\* What the household excludes can only be in a recipe when it excludes.
Offered == IF search.forbids THEN SourcedRecipe ELSE [excluded : {FALSE}, listed : BOOLEAN]

SearchNext ==
  \/ \E limit \in SearchLimits, keyed, modelled, forbids \in BOOLEAN :
       SearchAgain(limit, keyed, modelled, forbids)
  \/ Skip
  \/ \E recipes \in SUBSET Offered :
       \/ FetchSpoonacular(recipes)
       \/ FetchMealDb(recipes)
       \/ \E cost \in CallCosts : Fetch(recipes, cost) \/ Score(recipes, cost)
  \/ ModelFails

SearchSpec == SearchInit /\ [][SearchNext]_search

-----------------------------------------------------------------------------
(* Properties.                                                             *)

\* Type invariant of a search.
SearchTypeOK ==
  /\ search.at \in 1..(Len(Chain) + 1)
  /\ search.stage \in {"fetch", "refetch", "score"}
  /\ search.total \in Nat \cup {Unpriced} /\ search.part \in Nat \cup {Unpriced}
  /\ search.kept \subseteq SourcedRecipe /\ search.result \subseteq SourcedRecipe

\* No recipe known to hold an excluded ingredient is ever returned, whichever
\* source it came from and however its own filter behaved.
ExcludedNeverReturned == \A r \in search.result : ~(r.excluded /\ r.listed)

\* No call is paid for once the known cost is above the ceiling: at most one
\* call, the last, goes beyond it.
CeilingStopsCalls ==
  [][search'.spent > search.spent =>
       search.limit = Unlimited \/ search.spent <= search.limit]_search

\* A search that ends with nothing has asked every source there is, unless
\* it ran into its ceiling.
AllSourcesAsked ==
  [][search.at <= Len(Chain) /\ search'.at > Len(Chain) /\ search'.result = {} =>
       \/ OverBudget(search'.total, search'.limit)
       \/ search.at = Len(Chain)]_search
=============================================================================
