--------------------------- MODULE KitchenProofs ---------------------------
(***************************************************************************)
(* Safety of the components of a household's kitchen, for any number of    *)
(* rows, tasks, items and recipes, and any bounds.  Each has its inductive *)
(* invariant (CookInv, PlanInv, SheetInv, BatchInv, ShopInv, SpaceInv),    *)
(* and the kitchen in which they stand side by side keeps what each of     *)
(* them promises.                                                          *)
(***************************************************************************)
EXTENDS Kitchen, PantryProofs, FiniteSetTheorems, SequenceTheorems, TLAPS

-----------------------------------------------------------------------------
(* CookSessions.                                                           *)
(* One task works on a session, and none on a session that may still be    *)
(* answered or was finished, so nothing takes an answer back while there   *)
(* is a search; and a session is ready or finished only with all three     *)
(* answers.                                                                *)

Fields == {"status", "meal", "cuisine", "purpose", "selected", "over", "late", "cards"}

CookTables ==
  /\ DOMAIN cook = Cooks /\ \A c \in Cooks : DOMAIN cook[c] = Fields
  /\ cookTask \in [CookTasks -> (Cooks \X Waits) \cup {AtRest}]

AllAnswered(c) == cook[c].meal /\ cook[c].cuisine /\ cook[c].purpose

\* What the task that works on a session may find when it goes on.
WorkedOn(c) ==
  Working(c) # {} => AllAnswered(c) /\ cook[c].status \in {"ready", "cancelled", "expired"}

AnsweredInOrder(c) ==
  /\ cook[c].cuisine => cook[c].meal
  /\ cook[c].status \in {"ready", "done"} => AllAnswered(c)

OneWorker ==
  /\ CookTables /\ SingleSearch
  /\ \A c \in Cooks : WorkedOn(c) /\ AnsweredInOrder(c)

-----------------------------------------------------------------------------
(* Who works on a session.                                                 *)

LEMMA RestsNowhere == \A c \in Cooks : AtRest \notin {c} \X (Waits \ {"meal"})
BY CookAssumption

LEMMA WorkEnds ==
  ASSUME CookTables, NEW k \in CookTasks, End(k)
  PROVE  /\ cookTask' \in [CookTasks -> (Cooks \X Waits) \cup {AtRest}]
         /\ \A c \in Cooks : Working(c)' = Working(c) \ {k}
<1>1. /\ cookTask' \in [CookTasks -> (Cooks \X Waits) \cup {AtRest}]
      /\ cookTask'[k] = AtRest /\ \A l \in CookTasks \ {k} : cookTask'[l] = cookTask[l]
  BY DEF CookTables, End
<1>2. QED
  BY <1>1, RestsNowhere DEF Working

LEMMA WorkGoesOn ==
  ASSUME CookTables, NEW k \in CookTasks, NEW c \in Cooks, NEW w \in Waits \ {"meal"}, Wait(k, c, w)
  PROVE  /\ cookTask' \in [CookTasks -> (Cooks \X Waits) \cup {AtRest}]
         /\ Working(c)' = Working(c) \cup {k}
         /\ \A d \in Cooks \ {c} : Working(d)' = Working(d) \ {k}
<1>1. <<c, w>> \in Cooks \X Waits /\ <<c, w>> \in {c} \X (Waits \ {"meal"})
      /\ \A d \in Cooks \ {c} : <<c, w>> \notin {d} \X (Waits \ {"meal"})
  OBVIOUS
<1>2. /\ cookTask' \in [CookTasks -> (Cooks \X Waits) \cup {AtRest}]
      /\ cookTask'[k] = <<c, w>> /\ \A l \in CookTasks \ {k} : cookTask'[l] = cookTask[l]
  BY <1>1 DEF CookTables, Wait
<1>3. QED
  BY <1>1, <1>2 DEF Working

\* Whoever waits before he stores the first answer does not work on the session.
LEMMA NoWork ==
  ASSUME CookTables, NEW k \in CookTasks, FreeTask(k) \/ \E c \in Cooks : At(k, c, "meal")
  PROVE  \A d \in Cooks : k \notin Working(d)
<1>1. \A c, d \in Cooks : <<c, "meal">> \notin {d} \X (Waits \ {"meal"})
  OBVIOUS
<1>2. QED
  BY <1>1, RestsNowhere DEF FreeTask, At, Working

LEMMA MealWaits ==
  ASSUME CookTables, NEW k \in CookTasks, NEW c \in Cooks, FreeTask(k), Wait(k, c, "meal")
  PROVE  /\ cookTask' \in [CookTasks -> (Cooks \X Waits) \cup {AtRest}]
         /\ \A d \in Cooks : Working(d)' = Working(d)
<1>1. <<c, "meal">> \in Cooks \X Waits
      /\ \A d \in Cooks : <<c, "meal">> \notin {d} \X (Waits \ {"meal"})
  BY DEF Waits
<1>2. /\ cookTask' \in [CookTasks -> (Cooks \X Waits) \cup {AtRest}]
      /\ cookTask'[k] = <<c, "meal">> /\ \A l \in CookTasks \ {k} : cookTask'[l] = cookTask[l]
  BY <1>1 DEF CookTables, Wait
<1>3. QED
  BY <1>1, <1>2, NoWork DEF Working

LEMMA AtWork ==
  ASSUME NEW k \in CookTasks, NEW c \in Cooks, NEW w \in Waits \ {"meal"}, At(k, c, w)
  PROVE  k \in Working(c)
BY DEF At, Working

-----------------------------------------------------------------------------
(* The steps.                                                              *)

\* A step that concerns the session c.
LEMMA OneSession ==
  ASSUME OneWorker, CookTables', NEW c \in Cooks,
         \A d \in Cooks \ {c} : cook'[d] = cook[d] /\ Working(d)' = Working(d),
         \A k, l \in Working(c)' : k = l, WorkedOn(c)', AnsweredInOrder(c)'
  PROVE  OneWorker'
<1>1. \A d \in Cooks : WorkedOn(d)' /\ AnsweredInOrder(d)'
  BY DEF OneWorker, WorkedOn, AnsweredInOrder, AllAnswered
<1>2. SingleSearch'
  BY DEF OneWorker, SingleSearch
<1>3. QED
  BY <1>1, <1>2 DEF OneWorker

\* A callback or the sweep changes sessions and leaves the tasks alone.
LEMMA RowSteps ==
  ASSUME OneWorker, UNCHANGED cookTask,
         \/ \E c \in Cooks : \/ HandleCook(c) \/ TapLate(c) \/ TapCuisine(c)
                             \/ TapFinishedLate(c) \/ Adjust(c) \/ TimePasses(c)
         \/ SweepExpiredCooks
  PROVE  OneWorker'
<1>1. \A d \in Cooks : Working(d)' = Working(d)
  BY DEF Working
<1>2. ASSUME NEW c \in Cooks, HandleCook(c) PROVE OneWorker'
  <2>1. /\ cook[c].status = "none"
        /\ cook' = [d \in Cooks |-> IF d = c THEN [cook[c] EXCEPT !.status = "collecting"]
                                    ELSE [cook[d] EXCEPT !.status = Superseded(@)]]
    BY <1>2, CookAssumption DEF HandleCook, NewCook, CreateCookSession
  <2>2. DOMAIN cook' = Cooks /\ \A d \in Cooks : DOMAIN cook'[d] = Fields
    BY <2>1 DEF OneWorker, CookTables
  <2>3. \A d \in Cooks : /\ cook'[d].meal = cook[d].meal
                          /\ cook'[d].cuisine = cook[d].cuisine
                          /\ cook'[d].purpose = cook[d].purpose
    BY <2>1 DEF OneWorker, CookTables, Fields
  <2>4. \A d \in Cooks : cook'[d].status = IF d = c THEN "collecting"
                                            ELSE Superseded(cook[d].status)
    BY <2>1 DEF OneWorker, CookTables, Fields
  <2>5. Working(c) = {}
    BY <2>1 DEF OneWorker, WorkedOn
  <2>6. \A d \in Cooks : /\ WorkedOn(d)'
                          /\ AnsweredInOrder(d)'
    <3> TAKE d \in Cooks
    <3>1. CASE d = c
      BY <1>1, <2>3, <2>4, <2>5, <3>1 DEF OneWorker, WorkedOn, AnsweredInOrder
    <3>2. CASE d # c
      <4>1. cook'[d].status = Superseded(cook[d].status)
        BY <2>4, <3>2
      <4>2. QED
        BY <1>1, <2>3, <4>1 DEF OneWorker, WorkedOn, AnsweredInOrder, AllAnswered, Superseded, Open
    <3>3. QED
      BY <3>1, <3>2
  <2>7. QED
    BY <1>1, <2>2, <2>6 DEF OneWorker, CookTables, SingleSearch
<1>3. ASSUME NEW c \in Cooks,
             TapLate(c) \/ TapFinishedLate(c) \/ TapCuisine(c) \/ Adjust(c) \/ TimePasses(c)
      PROVE  OneWorker'
  <2>1. CookTables' /\ \A d \in Cooks \ {c} : cook'[d] = cook[d] /\ Working(d)' = Working(d)
    BY <1>1, <1>3 DEF TapLate, TapFinishedLate, TapCuisine, Adjust, TimePasses, Marked, OneWorker,
       CookTables, Fields
  <2>2. WorkedOn(c)' /\ AnsweredInOrder(c)'
    <3>1. CASE TapLate(c) \/ TapFinishedLate(c)
      BY <1>1, <3>1 DEF TapLate, TapFinishedLate, Marked, Open, OneWorker, CookTables, Fields, WorkedOn,
         AnsweredInOrder, AllAnswered
    <3>2. CASE TapCuisine(c)
      BY <1>1, <3>2 DEF TapCuisine, Answerable, OneWorker, CookTables, Fields, WorkedOn, AnsweredInOrder,
         AllAnswered
    <3>3. CASE Adjust(c)
      <4>1. Working(c)' = {}
        BY <1>1, <3>3 DEF Adjust, Answerable, OneWorker, WorkedOn
      <4>2. cook'[c].status = "collecting" /\ cook'[c].cuisine = FALSE
        BY <3>3 DEF Adjust, OneWorker, CookTables, Fields
      <4>3. QED
        BY <4>1, <4>2 DEF WorkedOn, AnsweredInOrder
    <3>4. CASE TimePasses(c)
      BY <1>1, <3>4 DEF TimePasses, OneWorker, CookTables, Fields, WorkedOn, AnsweredInOrder, AllAnswered
    <3>5. QED
      BY <1>3, <3>1, <3>2, <3>3, <3>4
  <2>3. \A k, l \in Working(c)' : k = l
    BY <1>1 DEF OneWorker, SingleSearch
  <2>4. QED
    BY <2>1, <2>2, <2>3, OneSession
<1>7. CASE SweepExpiredCooks
  BY <1>1, <1>7 DEF SweepExpiredCooks, Open, OneWorker, CookTables, Fields,
       SingleSearch, WorkedOn, AnsweredInOrder, AllAnswered
<1>8. QED
  BY <1>2, <1>3, <1>7

\* What a search that ends writes.
LEMMA SearchRow ==
  ASSUME OneWorker, NEW c \in Cooks, NEW k \in CookTasks, SearchEnds(c, k)
  PROVE  /\ DOMAIN cook' = Cooks /\ \A d \in Cooks : DOMAIN cook'[d] = Fields
         /\ \A d \in Cooks \ {c} : cook'[d] = cook[d]
         /\ cook'[c].meal = cook[c].meal /\ cook'[c].cuisine = cook[c].cuisine
         /\ cook'[c].purpose = cook[c].purpose /\ cook'[c].status = "done"
<1>1. PICK over \in BOOLEAN, found \in Found :
        cook' = [cook EXCEPT ![c].status = "done", ![c].over = @ \/ over,
                             ![c].cards = Replaced(@, found)]
  BY Zenon DEF SearchEnds
<1> DEFINE cards == Replaced(cook[c].cards, found)
           spent == cook[c].over \/ over
<1>2. cook' = [cook EXCEPT ![c].status = "done", ![c].over = spent, ![c].cards = cards]
  BY <1>1 DEF OneWorker, CookTables, Fields
<1> HIDE DEF cards, spent
<1>3. QED
  BY <1>2 DEF OneWorker, CookTables, Fields

\* Whoever takes one of these steps works on the session.
LEMMA AtHisTurn ==
  ASSUME NEW c \in Cooks, NEW k \in CookTasks,
         \/ Spawn(c, k) \/ AckFails(c, k) \/ RunStart(c, k) \/ Selected(c, k) \/ SearchEnds(c, k)
         \/ RunFails(c, k) \/ MoreStarts(c, k) \/ MoreEnds(c, k)
  PROVE  k \in Working(c)
<1>1. \E w \in Waits \ {"meal"} : cookTask[k] = <<c, w>>
  <2>1. RunFails(c, k) => \E w \in {"selecting", "searching"} : cookTask[k] = <<c, w>>
    BY DEF RunFails
  <2>2. AckFails(c, k) => \E w \in {"claimed", "asked"} : cookTask[k] = <<c, w>>
    BY DEF AckFails
  <2>3. Spawn(c, k) => At(k, c, "claimed")
    BY DEF Spawn
  <2>4. RunStart(c, k) => At(k, c, "spawning")
    BY DEF RunStart
  <2>5. Selected(c, k) => At(k, c, "selecting")
    BY DEF Selected
  <2>6. SearchEnds(c, k) => At(k, c, "searching")
    BY DEF SearchEnds
  <2>7. MoreStarts(c, k) => At(k, c, "asked")
    BY DEF MoreStarts
  <2>8. MoreEnds(c, k) => At(k, c, "more")
    BY DEF MoreEnds
  <2>9. {"claimed", "spawning", "selecting", "searching", "asked", "more"} = Waits \ {"meal"}
    BY DEF Waits
  <2>10. QED
    BY <2>1, <2>2, <2>3, <2>4, <2>5, <2>6, <2>7, <2>8, <2>9 DEF At
<1>2. QED
  BY <1>1 DEF Working

\* A step of the task k, the one that works on c if anybody does: after it, it has
\* gone on with c or ended, and the row has the status it wrote.
LEMMA WorkerSteps ==
  ASSUME OneWorker, NEW c \in Cooks, NEW k \in CookTasks,
         \/ Spawn(c, k) \/ AckFails(c, k) \/ RunStart(c, k) \/ Selected(c, k) \/ SearchEnds(c, k)
         \/ RunFails(c, k) \/ MoreStarts(c, k) \/ MoreEnds(c, k)
  PROVE  OneWorker'
<1>1. k \in Working(c)
  BY AtHisTurn
<1>2. Working(c) = {k} /\ \A d \in Cooks \ {c} : k \notin Working(d)
  BY <1>1 DEF OneWorker, SingleSearch, Working
<1>3. AllAnswered(c) /\ cook[c].status \in {"ready", "cancelled", "expired"}
  BY <1>1 DEF OneWorker, WorkedOn
<1>4. /\ DOMAIN cook' = Cooks /\ \A d \in Cooks : DOMAIN cook'[d] = Fields
      /\ \A d \in Cooks \ {c} : cook'[d] = cook[d]
      /\ cook'[c].meal = cook[c].meal /\ cook'[c].cuisine = cook[c].cuisine
      /\ cook'[c].purpose = cook[c].purpose
  <2>1. CASE cook' = cook \/ \E status \in CookStatus : Marked(c, status)
    BY <2>1 DEF Marked, OneWorker, CookTables, Fields
  <2>2. CASE Selected(c, k)
    BY <2>2 DEF Selected, OneWorker, CookTables, Fields
  <2>3. CASE SearchEnds(c, k)
    BY <2>3, SearchRow
  <2>4. CASE MoreEnds(c, k)
    BY <2>4 DEF MoreEnds, Marked, OneWorker, CookTables, Fields
  <2>5. Spawn(c, k) \/ AckFails(c, k) \/ RunStart(c, k) \/ RunFails(c, k) \/ MoreStarts(c, k)
        => cook' = cook \/ \E status \in CookStatus : Marked(c, status)
    BY DEF Spawn, AckFails, RunStart, RunFails, MoreStarts, CookStatus
  <2>6. QED
    BY <2>1, <2>2, <2>3, <2>4, <2>5
<1>5. \/ \E w \in Waits \ {"meal"} : Wait(k, c, w) /\ cook'[c].status \in {"ready", "cancelled", "expired"}
      \/ End(k)
  <2>1. CASE RunStart(c, k)
    <3>1. CASE End(k)
      BY <3>1
    <3>2. CASE cook[c].status = "ready" /\ cook' = cook
               /\ \E w \in {"selecting", "searching"} : Wait(k, c, w)
      BY <3>2 DEF Waits
    <3>3. QED
      BY <2>1, <3>1, <3>2 DEF RunStart
  <2>2. CASE Selected(c, k)
    <3>1. CASE End(k)
      BY <3>1
    <3>2. CASE Wait(k, c, "searching") /\ cook' = [cook EXCEPT ![c].selected = TRUE]
      BY <1>3, <3>2 DEF OneWorker, CookTables, Fields, Waits
    <3>3. QED
      BY <2>2, <3>1, <3>2 DEF Selected
  <2>3. CASE SearchEnds(c, k) \/ MoreEnds(c, k) \/ RunFails(c, k) \/ AckFails(c, k)
    BY <2>3 DEF SearchEnds, MoreEnds, RunFails, AckFails
  <2>4. CASE Spawn(c, k) \/ MoreStarts(c, k)
    BY <1>3, <2>4 DEF Spawn, MoreStarts, Waits
  <2>5. QED
    BY <2>1, <2>2, <2>3, <2>4
<1>6. CASE \E w \in Waits \ {"meal"} : Wait(k, c, w) /\ cook'[c].status \in {"ready", "cancelled", "expired"}
  <2>1. PICK w \in Waits \ {"meal"} : Wait(k, c, w) /\ cook'[c].status \in {"ready", "cancelled", "expired"}
    BY <1>6, Zenon
  <2>2. /\ cookTask' \in [CookTasks -> (Cooks \X Waits) \cup {AtRest}]
        /\ Working(c)' = Working(c) \cup {k}
        /\ \A d \in Cooks \ {c} : Working(d)' = Working(d) \ {k}
    BY <2>1, WorkGoesOn, Zenon DEF OneWorker
  <2>3. \A d \in Cooks : Working(d)' = Working(d)
    BY <1>2, <2>2
  <2>4. QED
    <3>1. CookTables' /\ WorkedOn(c)' /\ AnsweredInOrder(c)'
      BY <1>3, <1>4, <2>1, <2>2 DEF CookTables, WorkedOn, AnsweredInOrder, AllAnswered
    <3>2. \A j, l \in Working(c)' : j = l
      BY <1>2, <2>3
    <3>3. QED
      BY <1>4, <2>3, <3>1, <3>2, OneSession
<1>7. CASE End(k)
  <2>1. /\ cookTask' \in [CookTasks -> (Cooks \X Waits) \cup {AtRest}]
        /\ \A d \in Cooks : Working(d)' = Working(d) \ {k}
    BY <1>7, WorkEnds DEF OneWorker
  <2>2. Working(c)' = {}
    BY <1>2, <2>1, Zenon
  <2>3. \A d \in Cooks \ {c} : Working(d)' = Working(d)
    BY <1>2, <2>1
  <2>4. QED
    <3>1. CookTables' /\ WorkedOn(c)' /\ AnsweredInOrder(c)'
      BY <1>3, <1>4, <2>1, <2>2 DEF CookTables, WorkedOn, AnsweredInOrder, AllAnswered
    <3>2. \A j, l \in Working(c)' : j = l
      BY <2>2
    <3>3. QED
      BY <1>4, <2>3, <3>1, <3>2, OneSession
<1>8. QED
  BY <1>5, <1>6, <1>7

\* The tap that starts a search, or asks for more, finds nobody at work.
LEMMA StartSteps ==
  ASSUME OneWorker, NEW c \in Cooks, NEW k \in CookTasks, TapPurpose(c, k) \/ TapMore(c, k)
  PROVE  OneWorker'
<1>1. /\ FreeTask(k) /\ cook[c].status \in {"collecting", "done"}
      /\ \E w \in Waits \ {"meal"} : Wait(k, c, w)
  BY DEF TapPurpose, TapMore, Answerable, Waits
<1>2. Working(c) = {}
  BY <1>1 DEF OneWorker, WorkedOn
<1>3. /\ cookTask' \in [CookTasks -> (Cooks \X Waits) \cup {AtRest}] /\ Working(c)' = {k}
      /\ \A d \in Cooks \ {c} : Working(d)' = Working(d)
  BY <1>1, <1>2, WorkGoesOn, NoWork DEF OneWorker
<1>4. /\ DOMAIN cook' = Cooks /\ \A d \in Cooks : DOMAIN cook'[d] = Fields
      /\ \A d \in Cooks \ {c} : cook'[d] = cook[d]
      /\ AllAnswered(c)' /\ cook'[c].cuisine /\ cook'[c].meal /\ cook'[c].status = "ready"
  BY DEF TapPurpose, TapMore, Answerable, Marked, OneWorker, CookTables, Fields, AnsweredInOrder, AllAnswered
<1>5. CookTables' /\ WorkedOn(c)' /\ AnsweredInOrder(c)'
  BY <1>3, <1>4 DEF CookTables, WorkedOn, AnsweredInOrder, AllAnswered
<1>6. \A j, l \in Working(c)' : j = l
  BY <1>3
<1>7. QED
  BY <1>3, <1>4, <1>5, <1>6, OneSession

\* The first answer takes nobody's work away, nor the other answers.
LEMMA MealSteps ==
  ASSUME OneWorker, NEW c \in Cooks, NEW k \in CookTasks, TapMeal(c, k) \/ MealStored(c, k)
  PROVE  OneWorker'
<1>1. /\ cookTask' \in [CookTasks -> (Cooks \X Waits) \cup {AtRest}]
      /\ \A d \in Cooks : Working(d)' = Working(d)
  <2>1. CASE TapMeal(c, k)
    BY <2>1, MealWaits DEF TapMeal, OneWorker
  <2>2. CASE MealStored(c, k)
    <3>1. End(k) /\ At(k, c, "meal")
      BY <2>2 DEF MealStored
    <3>2. QED
      BY <3>1, WorkEnds, NoWork DEF OneWorker
  <2>3. QED
    BY <2>1, <2>2
<1>2. /\ DOMAIN cook' = Cooks /\ \A d \in Cooks : DOMAIN cook'[d] = Fields
      /\ \A d \in Cooks : /\ cook'[d].status = cook[d].status
                          /\ cook'[d].cuisine = cook[d].cuisine
                          /\ cook'[d].purpose = cook[d].purpose
                          /\ cook[d].meal => cook'[d].meal
  BY DEF TapMeal, MealStored, OneWorker, CookTables, Fields
<1>3. QED
  BY <1>1, <1>2 DEF OneWorker, CookTables, SingleSearch, WorkedOn, AnsweredInOrder, AllAnswered

LEMMA CrashStep ==
  ASSUME OneWorker, CookCrash
  PROVE  OneWorker'
<1>1. /\ cookTask' = [k \in CookTasks |-> AtRest] /\ UNCHANGED cook
  BY DEF CookCrash
<1>2. \A c \in Cooks : Working(c)' = {}
  BY <1>1, RestsNowhere DEF Working
<1>3. QED
  BY <1>1, <1>2 DEF OneWorker, CookTables, SingleSearch, WorkedOn, AnsweredInOrder, AllAnswered

LEMMA CookStepSound == OneWorker /\ [CookNext]_cookVars => OneWorker'
<1> SUFFICES ASSUME OneWorker, [CookNext]_cookVars PROVE OneWorker'
  OBVIOUS
<1>1. CASE \/ \E c \in Cooks : \/ HandleCook(c) \/ TapLate(c) \/ TapCuisine(c)
                                \/ TapFinishedLate(c) \/ Adjust(c) \/ TimePasses(c)
           \/ SweepExpiredCooks
  <2>1. UNCHANGED cookTask
    BY <1>1 DEF HandleCook, TapLate, TapCuisine, TapFinishedLate, Adjust, TimePasses,
                SweepExpiredCooks
  <2>2. QED
    BY <1>1, <2>1, RowSteps, Zenon
<1>2. ASSUME NEW c \in Cooks, NEW k \in CookTasks,
             \/ TapMeal(c, k) \/ MealStored(c, k) \/ TapPurpose(c, k) \/ TapMore(c, k)
             \/ Spawn(c, k) \/ AckFails(c, k) \/ RunStart(c, k) \/ Selected(c, k)
             \/ SearchEnds(c, k) \/ RunFails(c, k) \/ MoreStarts(c, k) \/ MoreEnds(c, k)
      PROVE  OneWorker'
  BY <1>2, WorkerSteps, StartSteps, MealSteps
<1>3. CASE CookCrash
  BY <1>3, CrashStep
<1>4. CASE UNCHANGED cookVars
  <2>1. \A c \in Cooks : Working(c)' = Working(c)
    BY <1>4 DEF cookVars, Working
  <2>2. QED
    BY <1>4, <2>1 DEF cookVars, OneWorker, CookTables, SingleSearch, WorkedOn, AnsweredInOrder, AllAnswered
<1>5. QED
  BY <1>1, <1>2, <1>3, <1>4, Zenon DEF CookNext

LEMMA OneWorkerFirst == CookInit => OneWorker
<1> SUFFICES ASSUME CookInit PROVE OneWorker
  OBVIOUS
<1>1. \A c \in Cooks : Working(c) = {}
  BY RestsNowhere DEF CookInit, Working
<1>2. QED
  BY <1>1 DEF CookInit, OneWorker, CookTables, Fields, SingleSearch, WorkedOn, AnsweredInOrder

-----------------------------------------------------------------------------
(* How the work on a session ends, and what becomes of one left behind.    *)

WorkConcluded(c) == Searchers(c) # {} /\ Searchers(c)' = {} => cook'[c].status # "ready"

\* A step that is not a crash moves one task, and the one that ends a search has
\* closed or finished its session.
LEMMA EndConcludes ==
  ASSUME OneWorker, CookNext, ~CookCrash, NEW c \in Cooks
  PROVE  WorkConcluded(c)
<1> SUFFICES ASSUME Searchers(c) # {}, Searchers(c)' = {} PROVE cook'[c].status # "ready"
  BY DEF WorkConcluded
<1>1. PICK k \in CookTasks, w \in {"selecting", "searching", "more"} : At(k, c, w)
  BY DEF Searchers, At
<1>2. /\ cookTask'[k] # cookTask[k]
      /\ \A v \in {"selecting", "searching", "more"} : ~Wait(k, c, v)
  BY <1>1 DEF Searchers, At, Wait, OneWorker, CookTables
<1>3. <<c, w>> # AtRest
  BY CookAssumption DEF Waits
<1>4. ASSUME NEW d \in Cooks, NEW l \in CookTasks,
             \/ TapMeal(d, l) \/ MealStored(d, l) \/ TapPurpose(d, l) \/ Spawn(d, l)
             \/ AckFails(d, l) \/ RunStart(d, l) \/ Selected(d, l) \/ SearchEnds(d, l)
             \/ RunFails(d, l) \/ TapMore(d, l) \/ MoreStarts(d, l) \/ MoreEnds(d, l)
      PROVE  cook'[c].status # "ready"
  <2>1. End(l) \/ \E v \in Waits : Wait(l, d, v)
    BY <1>4 DEF TapMeal, MealStored, TapPurpose, Spawn, AckFails, RunStart, Selected, SearchEnds,
       RunFails, TapMore, MoreStarts, MoreEnds, Waits
  <2>2. l = k
    BY <1>2, <2>1 DEF End, Wait, OneWorker, CookTables
  <2>3. \A v : At(k, d, v) => d = c /\ v = w
    BY <1>1 DEF At
  <2>4. ~FreeTask(k)
    BY <1>1, <1>3 DEF At, FreeTask
  <2>5. CASE Selected(d, l)
    BY <1>2, <2>2, <2>3, <2>5 DEF Selected, OneWorker, CookTables, Fields
  <2>6. CASE SearchEnds(d, l)
    BY <2>2, <2>3, <2>6, SearchRow DEF SearchEnds
  <2>7. CASE RunFails(d, l) \/ MoreEnds(d, l)
    <3>1. d = c
      BY <1>1, <2>2, <2>7 DEF RunFails, MoreEnds, At
    <3>2. QED
      BY <2>7, <3>1 DEF RunFails, MoreEnds, Marked, OneWorker, CookTables, Fields
  <2>8. CASE \/ TapMeal(d, l) \/ TapPurpose(d, l) \/ TapMore(d, l)
    BY <2>2, <2>4, <2>8 DEF TapMeal, TapPurpose, TapMore
  <2>9. CASE \/ MealStored(d, l) \/ Spawn(d, l) \/ RunStart(d, l) \/ MoreStarts(d, l)
    BY <2>2, <2>3, <2>9 DEF MealStored, Spawn, RunStart, MoreStarts
  <2>10. CASE AckFails(d, l)
    BY <1>1, <2>2, <2>10 DEF AckFails, At
  <2>11. QED
    BY <1>4, <2>5, <2>6, <2>7, <2>8, <2>9, <2>10
<1>5. CASE \/ \E d \in Cooks : \/ HandleCook(d) \/ TapLate(d) \/ TapCuisine(d)
                                \/ TapFinishedLate(d) \/ Adjust(d) \/ TimePasses(d)
           \/ SweepExpiredCooks
  BY <1>2, <1>5 DEF HandleCook, TapLate, TapCuisine, TapFinishedLate, Adjust, TimePasses,
     SweepExpiredCooks
<1>6. QED
  BY <1>4, <1>5, Zenon DEF CookNext

Closing(c) == /\ cook'[c].status \in {"ready", "cancelled", "expired"}
              /\ cook'[c].cards = cook[c].cards

\* Nobody works on it, so the step is a tap, /cook or the sweep, or of another session.
LEMMA OnlyClosed ==
  ASSUME OneWorker, CookNext, NEW c \in Cooks, cook[c].status = "ready", Working(c) = {}
  PROVE  Closing(c)
<1>1. ASSUME NEW d \in Cooks, NEW k \in CookTasks,
             \/ TapMeal(d, k) \/ MealStored(d, k) \/ TapPurpose(d, k) \/ TapMore(d, k)
      PROVE  Closing(c)
  <2>1. CASE TapMeal(d, k) \/ MealStored(d, k)
    BY <2>1 DEF TapMeal, MealStored, OneWorker, CookTables, Fields, Closing
  <2>2. CASE TapPurpose(d, k) \/ TapMore(d, k)
    <3>1. d # c
      BY <2>2 DEF TapPurpose, TapMore, Answerable
    <3>2. QED
      BY <2>2, <3>1 DEF TapPurpose, TapMore, Marked, OneWorker, CookTables, Fields, Closing
  <2>3. QED
    BY <1>1, <2>1, <2>2
<1>2. ASSUME NEW d \in Cooks, NEW k \in CookTasks,
             \/ Spawn(d, k) \/ AckFails(d, k) \/ RunStart(d, k) \/ Selected(d, k)
             \/ SearchEnds(d, k) \/ RunFails(d, k) \/ MoreStarts(d, k) \/ MoreEnds(d, k)
      PROVE  Closing(c)
  <2>1. d # c
    BY <1>2, AtHisTurn
  <2>2. cook'[c] = cook[c]
    <3>1. CASE SearchEnds(d, k)
      BY <2>1, <3>1, SearchRow
    <3>2. CASE ~SearchEnds(d, k)
      BY <1>2, <2>1, <3>2 DEF Spawn, AckFails, RunStart, Selected, RunFails, MoreStarts, MoreEnds,
         Marked, OneWorker, CookTables
    <3>3. QED
      BY <3>1, <3>2
  <2>3. QED
    BY <2>2 DEF Closing
<1>3. ASSUME NEW d \in Cooks, HandleCook(d) PROVE Closing(c)
  <2>1. d # c
    BY <1>3, CookAssumption DEF HandleCook, NewCook
  <2>2. cook'[c] = [cook[c] EXCEPT !.status = Superseded(@)]
    BY <1>3, <2>1 DEF HandleCook, CreateCookSession
  <2>3. QED
    BY <2>2 DEF OneWorker, CookTables, Fields, Superseded, Open, Closing
<1>4. ASSUME NEW d \in Cooks,
             TapLate(d) \/ TapFinishedLate(d) \/ TapCuisine(d) \/ Adjust(d) \/ TimePasses(d)
      PROVE  Closing(c)
  BY <1>4 DEF TapLate, TapFinishedLate, TapCuisine, Adjust, TimePasses, Answerable, Marked, OneWorker,
     CookTables, Fields, Closing
<1>5. CASE SweepExpiredCooks \/ CookCrash
  BY <1>5 DEF SweepExpiredCooks, CookCrash, OneWorker, CookTables, Fields, Closing
<1>6. QED
  BY <1>1, <1>2, <1>3, <1>4, <1>5, Zenon DEF CookNext

-----------------------------------------------------------------------------
(* The cards.                                                              *)

\* What is shown after "Show more": the cards seen stay behind, none comes twice.
LEMMA MoreIs ==
  ASSUME NEW old \in Seq(Recipes), IsInjective(old), NEW found \in Found
  PROVE  /\ More(old, found) \in Seq(Recipes) /\ IsInjective(More(old, found))
         /\ IsSuffix(old, More(old, found))
<1>1. IsSuffix(old, old)
  BY DEF IsSuffix, IsPrefix, Reverse
<1>2. CASE Range(found) \subseteq Range(old)
  BY <1>1, <1>2 DEF More
<1>3. CASE ~(Range(found) \subseteq Range(old))
  <2>1. found # <<>>
    BY <1>3 DEF Range
  <2>2. PICK r \in Recipes : found = <<r>>
    BY <2>1 DEF Found
  <2> DEFINE new == <<r>> \o old
             n == Len(old)
  <2>3. /\ new \in Seq(Recipes) /\ Len(new) = n + 1 /\ n \in Nat /\ new[1] = r
        /\ \A i \in 1..n : new[i + 1] = old[i]
    OBVIOUS
  <2>4. r \notin Range(old)
    BY <1>3, <2>2 DEF Range
  <2>5. More(old, found) = new
    BY <1>3, <2>2 DEF More
  <2> HIDE DEF new, n
  <2>6. DOMAIN old = 1..n /\ DOMAIN new = 1..(n + 1)
    BY <2>3 DEF n
  <2>7. IsInjective(new)
    <3> SUFFICES ASSUME NEW i \in 1..(n + 1), NEW j \in 1..(n + 1), new[i] = new[j] PROVE i = j
      BY <2>6 DEF IsInjective
    <3>1. \A k \in 1..(n + 1) : k # 1 => k - 1 \in 1..n /\ new[k] = old[k - 1] /\ new[k] \in Range(old)
      <4>1. ASSUME NEW k \in 1..(n + 1), k # 1
            PROVE  k - 1 \in 1..n /\ new[k] = old[k - 1] /\ new[k] \in Range(old)
        <5>1. k - 1 \in 1..n /\ (k - 1) + 1 = k
          BY <2>3, <4>1
        <5>2. new[k] = old[k - 1]
          BY <2>3, <5>1
        <5>3. QED
          BY <2>6, <5>1, <5>2 DEF Range
      <4>2. QED
        BY <4>1
    <3>2. CASE i = 1 \/ j = 1
      BY <2>3, <2>4, <3>1, <3>2
    <3>3. CASE i # 1 /\ j # 1
      <4>1. /\ i - 1 \in 1..n /\ j - 1 \in 1..n /\ old[i - 1] = old[j - 1]
        BY <3>1, <3>3
      <4>2. i - 1 = j - 1
        BY <2>6, <4>1 DEF IsInjective
      <4>3. QED
        BY <2>3, <4>2
    <3>4. QED
      BY <3>2, <3>3
  <2>8. IsSuffix(old, new)
    <3> DEFINE a == Reverse(old)
               b == Reverse(new)
    <3>1. /\ a \in Seq(Recipes) /\ Len(a) = n /\ \A i \in 1..n : a[i] = old[(n - i) + 1]
      BY <2>3 DEF Reverse, n
    <3>2. /\ b \in Seq(Recipes) /\ Len(b) = n + 1 /\ \A i \in 1..(n + 1) : b[i] = new[((n + 1) - i) + 1]
      BY <2>3 DEF Reverse
    <3> HIDE DEF a, b
    <3>3. \A i \in 1..n : b[i] = a[i]
      <4>1. ASSUME NEW i \in 1..n PROVE b[i] = a[i]
        <5>1. /\ (n - i) + 1 \in 1..n /\ ((n + 1) - i) + 1 = ((n - i) + 1) + 1 /\ i \in 1..(n + 1)
          BY <2>3
        <5>2. new[((n + 1) - i) + 1] = old[(n - i) + 1]
          BY <2>3, <5>1
        <5>3. QED
          BY <3>1, <3>2, <5>1, <5>2
      <4>2. QED
        BY <4>1
    <3>4. SubSeq(a, 1, n) = SubSeq(b, 1, n)
      BY <2>3, <3>1, <3>2, <3>3
    <3>5. QED
      BY <2>3, <3>1, <3>2, <3>4 DEF IsSuffix, IsPrefix, a, b
  <2>9. QED
    BY <2>3, <2>5, <2>7, <2>8
<1>4. QED
  BY <1>2, <1>3

\* What a step may make of the cards of a session.
ShownOnce(c) == cook[c].cards \in Seq(Recipes) /\ IsInjective(cook[c].cards)

CardStep(c) ==
  \/ cook'[c].cards = cook[c].cards
  \/ \E found \in Found : cook'[c].cards = More(cook[c].cards, found)
  \/ \E k \in CookTasks, found \in Found :
       SearchEnds(c, k) /\ cook'[c].cards = Replaced(cook[c].cards, found)

LEMMA CookCardSteps ==
  ASSUME CookTables, CookNext
  PROVE  \A c \in Cooks : CardStep(c)
<1>1. ASSUME NEW c \in Cooks, NEW k \in CookTasks, SearchEnds(c, k)
      PROVE  \A d \in Cooks : CardStep(d)
  <2>1. PICK over \in BOOLEAN, found \in Found :
          cook' = [cook EXCEPT ![c].status = "done", ![c].over = @ \/ over,
                               ![c].cards = Replaced(@, found)]
    BY <1>1, Zenon DEF SearchEnds
  <2> DEFINE cards == Replaced(cook[c].cards, found)
             spent == cook[c].over \/ over
  <2>2. cook' = [cook EXCEPT ![c].status = "done", ![c].over = spent, ![c].cards = cards]
    BY <2>1 DEF CookTables, Fields
  <2> HIDE DEF cards, spent
  <2>3. cook'[c].cards = cards /\ \A d \in Cooks \ {c} : cook'[d] = cook[d]
    BY <2>2 DEF CookTables, Fields
  <2>4. QED
    BY <1>1, <2>3 DEF CardStep, cards
<1>2. ASSUME NEW c \in Cooks, NEW k \in CookTasks, MoreEnds(c, k)
      PROVE  \A d \in Cooks : CardStep(d)
  <2>1. ASSUME NEW found \in Found,
               cook' = [cook EXCEPT ![c].status = "done", ![c].cards = More(@, found)]
        PROVE  \A d \in Cooks : CardStep(d)
    <3> DEFINE cards == More(cook[c].cards, found)
    <3>1. cook' = [cook EXCEPT ![c].status = "done", ![c].cards = cards]
      BY <2>1 DEF CookTables, Fields
    <3> HIDE DEF cards
    <3>2. cook'[c].cards = cards /\ \A d \in Cooks \ {c} : cook'[d] = cook[d]
      BY <3>1 DEF CookTables, Fields
    <3>3. QED
      BY <3>2 DEF CardStep, cards
  <2>2. CASE Marked(c, "done") \/ cook' = [cook EXCEPT ![c].status = "done", ![c].over = TRUE]
    BY <2>2 DEF Marked, CookTables, Fields, CardStep
  <2>3. QED
    BY <1>2, <2>1, <2>2 DEF MoreEnds
<1>3. ASSUME NEW c \in Cooks,
             \/ HandleCook(c) \/ TapLate(c) \/ TapCuisine(c) \/ TapFinishedLate(c)
             \/ Adjust(c) \/ TimePasses(c)
      PROVE  \A d \in Cooks : CardStep(d)
  <2>1. \A d \in Cooks : cook'[d].cards = cook[d].cards
    <3>1. CASE HandleCook(c)
      BY <3>1 DEF HandleCook, CreateCookSession, CookTables, Fields
    <3>2. CASE ~HandleCook(c)
      BY <1>3, <3>2 DEF TapLate, TapCuisine, TapFinishedLate, Adjust, TimePasses, Marked, CookTables, Fields
    <3>3. QED
      BY <3>1, <3>2
  <2>2. QED
    BY <2>1 DEF CardStep
<1>4. ASSUME NEW c \in Cooks, NEW k \in CookTasks,
             \/ TapMeal(c, k) \/ MealStored(c, k) \/ TapPurpose(c, k) \/ Spawn(c, k)
             \/ AckFails(c, k) \/ RunStart(c, k) \/ Selected(c, k) \/ RunFails(c, k)
             \/ TapMore(c, k) \/ MoreStarts(c, k)
      PROVE  \A d \in Cooks : CardStep(d)
  <2>1. \A d \in Cooks : cook'[d].cards = cook[d].cards
    BY <1>4 DEF TapMeal, MealStored, TapPurpose, Spawn, AckFails, RunStart, Selected, RunFails,
       TapMore, MoreStarts, Marked, CookTables, Fields
  <2>2. QED
    BY <2>1 DEF CardStep
<1>5. CASE SweepExpiredCooks \/ CookCrash
  <2>1. \A d \in Cooks : cook'[d].cards = cook[d].cards
    BY <1>5 DEF SweepExpiredCooks, CookCrash, CookTables, Fields
  <2>2. QED
    BY <2>1 DEF CardStep
<1>6. QED
  BY <1>1, <1>2, <1>3, <1>4, <1>5 DEF CookNext

\* Only the task that asked for more, or a crash, ends its wait.
LEMMA MoreTasks ==
  ASSUME CookTables, CookNext, NEW c \in Cooks, NEW k \in CookTasks, NEW l \in CookTasks,
         At(k, c, "more"), cookTask'[k] = AtRest, SearchEnds(c, l)
  PROVE  FALSE
<1>1. k # l
  BY DEF At, SearchEnds
<1>2. cookTask'[k] = cookTask[k] /\ cookTask[k] = <<c, "more">>
  BY <1>1 DEF At, SearchEnds, End, CookTables
<1>3. <<c, "more">> # AtRest
  BY CookAssumption DEF Waits
<1>4. QED
  BY <1>2, <1>3

LEMMA CardsStay ==
  ASSUME CookTables, \A c \in Cooks : ShownOnce(c), CookNext
  PROVE  /\ \A c \in Cooks : ShownOnce(c)'
         /\ \A c \in Cooks : (\E k \in CookTasks : At(k, c, "more") /\ cookTask'[k] = AtRest) =>
              IsSuffix(cook[c].cards, cook'[c].cards) /\ IsInjective(cook'[c].cards)
<1> SUFFICES ASSUME NEW c \in Cooks
             PROVE  /\ ShownOnce(c)'
                    /\ (\E k \in CookTasks : At(k, c, "more") /\ cookTask'[k] = AtRest) =>
                         IsSuffix(cook[c].cards, cook'[c].cards) /\ IsInjective(cook'[c].cards)
  OBVIOUS
<1> DEFINE old == cook[c].cards
<1>1. old \in Seq(Recipes) /\ IsInjective(old)
  BY DEF ShownOnce
<1>2. CardStep(c)
  BY CookCardSteps
<1> HIDE DEF old
<1>3. CASE cook'[c].cards = old
  <2>1. IsSuffix(old, old)
    BY DEF IsSuffix, IsPrefix, Reverse
  <2>2. QED
    BY <1>1, <1>3, <2>1 DEF ShownOnce, old
<1>4. ASSUME NEW found \in Found, cook'[c].cards = More(old, found)
      PROVE  ShownOnce(c)' /\ IsSuffix(old, cook'[c].cards) /\ IsInjective(cook'[c].cards)
  BY <1>1, <1>4, MoreIs DEF ShownOnce
<1>5. ASSUME NEW l \in CookTasks, NEW found \in Found, SearchEnds(c, l),
             cook'[c].cards = Replaced(old, found)
      PROVE  /\ ShownOnce(c)'
             /\ ~\E k \in CookTasks : At(k, c, "more") /\ cookTask'[k] = AtRest
  <2>1. ~\E k \in CookTasks : At(k, c, "more") /\ cookTask'[k] = AtRest
    BY <1>5, MoreTasks
  <2>2. found \in Seq(Recipes) /\ IsInjective(found)
    <3>1. CASE found = <<>>
      BY <3>1 DEF IsInjective
    <3>2. ASSUME NEW r \in Recipes, found = <<r>> PROVE found \in Seq(Recipes) /\ IsInjective(found)
      BY <3>2 DEF IsInjective
    <3>3. QED
      BY <3>1, <3>2 DEF Found
  <2>3. QED
    BY <1>1, <1>5, <2>1, <2>2 DEF ShownOnce, Replaced
<1>6. QED
  BY <1>2, <1>3, <1>4, <1>5 DEF CardStep, old

LEMMA CookTypeKept ==
  ASSUME CookTypeOK, CookTables', \A c \in Cooks : ShownOnce(c), CookNext
  PROVE  CookTypeOK'
<1>1. /\ CookTables /\ cook \in [Cooks -> Cook] /\ \A c \in Cooks : cook[c].cards \in Seq(Recipes)
      /\ {"collecting", "ready", "done", "cancelled", "expired"} \subseteq CookStatus
  BY DEF CookTypeOK, CookTables, Cook, Fields, CookStatus, Open
<1>2. ASSUME NEW c \in Cooks, HandleCook(c)
      PROVE  cook' \in [Cooks -> Cook]
  <2>1. \A d \in Cooks : [cook[d] EXCEPT !.status = Superseded(@)] \in Cook
    BY <1>1 DEF Superseded, Cook
  <2>2. [cook[c] EXCEPT !.status = "collecting"] \in Cook
    BY <1>1 DEF Cook
  <2>3. QED
    BY <1>1, <1>2, <2>1, <2>2 DEF HandleCook, CreateCookSession
<1>3. ASSUME NEW c \in Cooks, NEW s \in CookStatus, Marked(c, s)
      PROVE  cook' \in [Cooks -> Cook]
  BY <1>1, <1>3 DEF Marked, Cook
<1>4. ASSUME NEW c \in Cooks, TapLate(c) \/ TapFinishedLate(c)
      PROVE  cook' \in [Cooks -> Cook]
  BY <1>1, <1>3, <1>4 DEF TapLate, TapFinishedLate
<1>5. ASSUME NEW c \in Cooks, TapCuisine(c)
      PROVE  cook' \in [Cooks -> Cook]
  BY <1>1, <1>5 DEF TapCuisine, Cook
<1>6. ASSUME NEW c \in Cooks, Adjust(c)
      PROVE  cook' \in [Cooks -> Cook]
  <2> DEFINE one == [cook EXCEPT ![c].status = "collecting"]
             two == [one EXCEPT ![c].cuisine = FALSE]
  <2>1. cook' = [two EXCEPT ![c].purpose = FALSE]
    BY <1>6 DEF Adjust
  <2>2. one \in [Cooks -> Cook]
    BY <1>1 DEF Cook
  <2> HIDE DEF one
  <2>3. two \in [Cooks -> Cook]
    BY <2>2 DEF Cook
  <2> HIDE DEF two
  <2>4. QED
    BY <2>1, <2>3 DEF Cook
<1>7. ASSUME NEW c \in Cooks, TimePasses(c)
      PROVE  cook' \in [Cooks -> Cook]
  BY <1>1, <1>7 DEF TimePasses, Cook
<1>8. ASSUME NEW c \in Cooks, NEW k \in CookTasks, TapMeal(c, k) \/ MealStored(c, k)
      PROVE  cook' \in [Cooks -> Cook]
  BY <1>1, <1>8 DEF TapMeal, MealStored, Cook
<1>9. ASSUME NEW c \in Cooks, NEW k \in CookTasks, TapPurpose(c, k)
      PROVE  cook' \in [Cooks -> Cook]
  BY <1>1, <1>9 DEF TapPurpose, Cook
<1>10. ASSUME NEW c \in Cooks, NEW k \in CookTasks,
              \/ Spawn(c, k) \/ AckFails(c, k) \/ RunStart(c, k) \/ RunFails(c, k)
              \/ TapMore(c, k) \/ MoreStarts(c, k)
       PROVE  cook' \in [Cooks -> Cook]
  <2>1. cook' = cook \/ Marked(c, "cancelled") \/ Marked(c, "ready")
    BY <1>10 DEF Spawn, AckFails, RunStart, RunFails, TapMore, MoreStarts
  <2>2. QED
    BY <1>1, <1>3, <2>1
<1>11. ASSUME NEW c \in Cooks, NEW k \in CookTasks, Selected(c, k)
       PROVE  cook' \in [Cooks -> Cook]
  <2>1. CASE cook' = [cook EXCEPT ![c].selected = TRUE]
    BY <1>1, <2>1 DEF Cook
  <2>2. CASE cook' = [cook EXCEPT ![c].selected = TRUE, ![c].over = TRUE, ![c].status = "done"]
    <3> DEFINE one == [cook EXCEPT ![c].selected = TRUE]
               two == [one EXCEPT ![c].over = TRUE]
    <3>1. cook' = [two EXCEPT ![c].status = "done"]
      BY <2>2
    <3>2. one \in [Cooks -> Cook]
      BY <1>1 DEF Cook
    <3> HIDE DEF one
    <3>3. two \in [Cooks -> Cook]
      BY <3>2 DEF Cook
    <3> HIDE DEF two
    <3>4. QED
      BY <1>1, <3>1, <3>3 DEF Cook
  <2>3. QED
    BY <1>11, <2>1, <2>2 DEF Selected
<1>12. ASSUME SweepExpiredCooks PROVE cook' \in [Cooks -> Cook]
  <2>1. \A d \in Cooks : [cook[d] EXCEPT !.status = "expired"] \in Cook
    BY <1>1 DEF Cook
  <2>2. [d \in Cooks |-> IF cook[d].status \in Open /\ cook[d].late
                        THEN [cook[d] EXCEPT !.status = "expired"] ELSE cook[d]]
          \in [Cooks -> Cook]
    BY <1>1, <2>1
  <2>3. QED
    BY <1>12, <2>2, Zenon DEF SweepExpiredCooks
<1>13. ASSUME NEW c \in Cooks, NEW over, over \in BOOLEAN, NEW cards, cards \in Seq(Recipes),
              cook' = [cook EXCEPT ![c].status = "done", ![c].over = over, ![c].cards = cards]
       PROVE  cook' \in [Cooks -> Cook]
  <2> DEFINE one == [cook EXCEPT ![c].status = "done"]
             two == [one EXCEPT ![c].over = over]
  <2>1. cook' = [two EXCEPT ![c].cards = cards]
    BY <1>13
  <2>2. one \in [Cooks -> Cook]
    BY <1>1 DEF Cook
  <2> HIDE DEF one
  <2>3. two \in [Cooks -> Cook]
    BY <1>13, <2>2 DEF Cook
  <2> HIDE DEF two
  <2>4. two[c] \in Cook
    BY <2>3
  <2>5. [two[c] EXCEPT !.cards = cards] \in Cook
    BY <1>13, <2>4 DEF Cook
  <2>6. cook' = [two EXCEPT ![c] = [two[c] EXCEPT !.cards = cards]]
    BY <2>1
  <2>7. QED
    BY <2>3, <2>5, <2>6
<1>14. ASSUME NEW c \in Cooks, NEW k \in CookTasks, SearchEnds(c, k)
       PROVE  cook' \in [Cooks -> Cook]
  <2>1. PICK over \in BOOLEAN, found \in Found :
          cook' = [cook EXCEPT ![c].status = "done", ![c].over = @ \/ over,
                               ![c].cards = Replaced(@, found)]
    BY <1>14, Zenon DEF SearchEnds
  <2> DEFINE cards == Replaced(cook[c].cards, found)
             spent == cook[c].over \/ over
  <2>2. cook' = [cook EXCEPT ![c].status = "done", ![c].over = spent, ![c].cards = cards]
    BY <1>1, <2>1 DEF CookTables, Fields
  <2>3. spent \in BOOLEAN /\ cook'[c].cards = cards
    BY <1>1, <2>2 DEF Cook
  <2> HIDE DEF cards, spent
  <2>4. cards \in Seq(Recipes)
    BY <1>1, <1>14, <2>3, CardsStay DEF ShownOnce, CookNext
  <2>5. QED
    BY <1>13, <2>2, <2>3, <2>4
<1>15. ASSUME NEW c \in Cooks, NEW k \in CookTasks, MoreEnds(c, k)
       PROVE  cook' \in [Cooks -> Cook]
  <2>1. ASSUME NEW found \in Found,
               cook' = [cook EXCEPT ![c].status = "done", ![c].cards = More(@, found)]
        PROVE  cook' \in [Cooks -> Cook]
    <3> DEFINE cards == More(cook[c].cards, found)
    <3>1. cook' = [cook EXCEPT ![c].status = "done", ![c].cards = cards]
      BY <1>1, <2>1 DEF CookTables, Fields
    <3>2. cards \in Seq(Recipes)
      BY <1>1, MoreIs DEF ShownOnce
    <3> HIDE DEF cards
    <3>3. QED
      BY <1>1, <3>1, <3>2 DEF Cook
  <2>2. CASE cook' = [cook EXCEPT ![c].status = "done", ![c].over = TRUE]
    BY <1>1, <2>2 DEF Cook
  <2>3. QED
    BY <1>1, <1>3, <1>15, <2>1, <2>2 DEF MoreEnds
<1>16. cook' \in [Cooks -> Cook]
  <2>1. CASE CookCrash
    BY <1>1, <2>1 DEF CookCrash
  <2>2. ASSUME NEW c \in Cooks, NEW k \in CookTasks,
               \/ TapMeal(c, k) \/ MealStored(c, k) \/ TapPurpose(c, k) \/ Spawn(c, k)
               \/ AckFails(c, k) \/ RunStart(c, k) \/ Selected(c, k) \/ SearchEnds(c, k)
               \/ RunFails(c, k) \/ TapMore(c, k) \/ MoreStarts(c, k) \/ MoreEnds(c, k)
        PROVE  cook' \in [Cooks -> Cook]
    BY <1>8, <1>9, <1>10, <1>11, <1>14, <1>15, <2>2, Zenon
  <2>3. ASSUME NEW c \in Cooks,
               \/ HandleCook(c) \/ TapLate(c) \/ TapCuisine(c) \/ TapFinishedLate(c)
               \/ Adjust(c) \/ TimePasses(c)
        PROVE  cook' \in [Cooks -> Cook]
    BY <1>2, <1>4, <1>5, <1>6, <1>7, <2>3, Zenon
  <2>4. QED
    BY <1>12, <2>1, <2>2, <2>3, Zenon DEF CookNext
<1>17. QED
  BY <1>16 DEF CookTypeOK, CookTables

-----------------------------------------------------------------------------
(* The invariant, and what follows from it.                                *)

CookInv == CookTypeOK /\ OneWorker /\ \A c \in Cooks : ShownOnce(c)

LEMMA CookStarts == CookInit => CookInv
<1> SUFFICES ASSUME CookInit PROVE CookInv
  OBVIOUS
<1>1. CookTypeOK
  BY DEF CookInit, CookTypeOK, Cook, CookStatus, Open
<1>2. \A c \in Cooks : ShownOnce(c)
  <2>1. \A c \in Cooks : cook[c].cards = <<>>
    BY DEF CookInit
  <2>2. <<>> \in Seq(Recipes) /\ IsInjective(<<>>)
    BY DEF IsInjective
  <2>3. QED
    BY <2>1, <2>2 DEF ShownOnce
<1>3. QED
  BY <1>1, <1>2, OneWorkerFirst DEF CookInv

Ending == ~CookCrash => \A c \in Cooks : WorkConcluded(c)

Abandoned == \A c \in Cooks : cook[c].status = "ready" /\ Working(c) = {} => Closing(c)

CardsBehind ==
  \A c \in Cooks : (\E k \in CookTasks : At(k, c, "more") /\ cookTask'[k] = AtRest) =>
     IsSuffix(cook[c].cards, cook'[c].cards) /\ IsInjective(cook'[c].cards)

LEMMA CookGoesOn ==
  ASSUME CookInv, [CookNext]_cookVars
  PROVE  CookInv' /\ [Ending /\ Abandoned /\ CardsBehind]_cookVars
<1>1. OneWorker'
  BY CookStepSound DEF CookInv
<1>2. CASE CookNext
  <2>1. OneWorker /\ CookTables /\ CookTables'
    BY <1>1 DEF CookInv, OneWorker
  <2>2. CookTypeOK'
    BY <1>2, <2>1, CookTypeKept DEF CookInv
  <2>3. (\A c \in Cooks : ShownOnce(c)') /\ CardsBehind
    BY <1>2, <2>1, CardsStay DEF CookInv, CardsBehind
  <2>4. Ending
    BY <1>2, <2>1, EndConcludes DEF Ending
  <2>5. Abandoned
    BY <1>2, <2>1, OnlyClosed DEF Abandoned
  <2>6. QED
    BY <1>1, <2>2, <2>3, <2>4, <2>5 DEF CookInv
<1>3. CASE UNCHANGED cookVars
  <2>1. UNCHANGED <<cook, cookTask>>
    BY <1>3 DEF cookVars
  <2>2. CookTypeOK' /\ \A c \in Cooks : ShownOnce(c)'
    BY <2>1 DEF CookInv, CookTypeOK, ShownOnce
  <2>3. QED
    BY <1>1, <1>3, <2>2 DEF CookInv
<1>4. QED
  BY <1>2, <1>3

\* However the taps of several members, their acknowledgements, /cook, the sweep and
\* crashes interleave with searches of a minute: one task works on a session, it never
\* runs with an answer missing, its end leaves no session at "thinking", a session
\* that was claimed and left keeps its cards and can only be closed, and "Show more"
\* keeps the cards seen and shows none twice (run_cook_and_render, run_cook_more).
THEOREM OneAnsweredSearch == CookSpec => SearchesSound
<1>1. CookInit => CookInv
  BY CookStarts
<1>2. CookInv /\ [CookNext]_cookVars => CookInv' /\ [Ending /\ Abandoned /\ CardsBehind]_cookVars
  BY CookGoesOn
<1>3. CookInv => SingleSearch /\ SearchIsAnswered
  BY DEF CookInv, OneWorker, WorkedOn, AllAnswered, SearchIsAnswered
<1> DEFINE Step == Ending /\ Abandoned /\ CardsBehind
<1>4. [Step]_cookVars => [cookTask' # cookTask /\ ~CookCrash =>
         \A c \in Cooks :
           Searchers(c) # {} /\ Searchers(c)' = {} => cook'[c].status # "ready"]_cookVars
  BY DEF Ending, WorkConcluded
<1>5. [Step]_cookVars => [\A c \in Cooks :
         cook[c].status = "ready" /\ Working(c) = {} =>
           /\ cook'[c].status \in {"ready", "cancelled", "expired"}
           /\ cook'[c].cards = cook[c].cards]_cookVars
  BY DEF Abandoned, Closing
<1>6. [Step]_cookVars => [cookTask' # cookTask =>
         \A c \in Cooks : (\E k \in CookTasks : At(k, c, "more") /\ cookTask'[k] = AtRest) =>
            /\ IsSuffix(cook[c].cards, cook'[c].cards)
            /\ IsInjective(cook'[c].cards)]_cookVars
  BY DEF CardsBehind
<1>7. CookInv /\ [CookNext]_cookVars => CookInv' /\ [Step]_cookVars
  BY <1>2
<1> HIDE DEF Step
<1>8. QED
  BY <1>1, <1>3, <1>4, <1>5, <1>6, <1>7, PTL
  DEF CookSpec, SearchesSound, SearchIsConcluded, AbandonedIsClosed, CardsKept

\* The sessions and the tasks that work on them stay what the table and the code
\* say they are (CookSession).
THEOREM CookTypeCorrect == CookSpec => []CookTypeOK
<1>1. CookInit => CookInv
  BY CookStarts
<1>2. CookInv /\ [CookNext]_cookVars => CookInv'
  BY CookGoesOn
<1>3. CookInv => CookTypeOK
  BY DEF CookInv
<1>4. QED
  BY <1>1, <1>2, <1>3, PTL DEF CookSpec

-----------------------------------------------------------------------------
(* MealPlans.                                                              *)
(* A plan that is searched for is a draft of one task, whose days so far   *)
(* share nothing but what is bought, and what they use is no longer in the *)
(* pool.                                                                   *)

\* A plan that is searched for is a draft of this task alone.  Its week so far
\* repeats no recipe and uses nothing twice, and nothing it uses is in the pool
\* the next day is planned against.
WeekSound(week) ==
  \A d, e \in PlanDays : d < e /\ week[d] # NoPlan /\ week[e] # NoPlan =>
     /\ week[d].dish # week[e].dish
     /\ week[d].dish \cap week[e].dish \subseteq week[e].gap

SearchSound(task) ==
  /\ ~task.over /\ WeekSound(task.week)
  /\ \A d \in PlanDays : d >= task.day => task.week[d] = NoPlan
  /\ \A d \in PlanDays : task.week[d] # NoPlan => task.week[d].dish \cap task.pool = {}

Drafts ==
  \A k \in PlanTasks : Waiting(k, "searching") =>
    /\ plan[planTask[k].plan] = "draft"
    /\ \A l \in PlanTasks :
         Waiting(l, "searching") /\ planTask[l].plan = planTask[k].plan => l = k

PlanInv ==
  /\ PlanTypeOK /\ Drafts
  /\ \A k \in PlanTasks : Waiting(k, "searching") => SearchSound(planTask[k])

\* What a step does to the plans.
PlanStep ==
  /\ \A p \in Plans : Activates(p) => WeekSound(entry'[p])
  /\ \A p \in Plans : plan[p] = "cancelled" => plan'[p] = "cancelled"

LEMMA TasksAre ==
  ASSUME PlanTypeOK, NEW k \in PlanTasks
  PROVE  /\ Waiting(k, "searching") => planTask[k] \in Searching
         /\ Waiting(k, "swapping") => planTask[k] \in Swapping
BY DEF PlanTypeOK, Waiting, Composing, Searching, Swapping

\* A task that is not searching is put in the place of another.
LEMMA OtherTask ==
  ASSUME PlanInv, NEW k \in PlanTasks, NEW task, Proceeds(k, task),
         task \in Composing \cup Swapping \cup {NoPlan}, plan' \in [Plans -> {"none", "draft", "active", "cancelled"}],
         entry' \in [Plans -> Week],
         \A p \in Plans : plan[p] = "draft" => plan'[p] = "draft"
  PROVE  PlanInv'
<1>1. PlanTypeOK'
  BY DEF PlanInv, PlanTypeOK, Proceeds
<1>2. ~Waiting(k, "searching")'
  BY DEF PlanInv, PlanTypeOK, Proceeds, Waiting, Composing, Swapping
<1>3. \A l \in PlanTasks : Waiting(l, "searching")' => planTask'[l] = planTask[l] /\ Waiting(l, "searching")
  BY <1>2 DEF PlanInv, PlanTypeOK, Proceeds, Waiting
<1>4. \A l \in PlanTasks : Waiting(l, "searching") => planTask[l].plan \in Plans
  BY TasksAre DEF PlanInv, Searching
<1>5. Drafts'
  BY <1>3, <1>4 DEF PlanInv, Drafts
<1>6. \A l \in PlanTasks : Waiting(l, "searching")' => SearchSound(planTask'[l])
  BY <1>3 DEF PlanInv
<1>7. QED
  BY <1>1, <1>5, <1>6 DEF PlanInv

\* One more day of a search.
LEMMA DayFound ==
  ASSUME PlanInv, NEW task \in Searching, SearchSound(task),
         NEW dish \in Fresh(task.week) \cup {NoPlan}, NEW over \in BOOLEAN
  PROVE  LET next == Searched(task, dish, over) IN
         /\ next \in Searching /\ next.plan = task.plan /\ next.day = task.day
         /\ WeekSound(next.week)
         /\ ~over => ~next.over
         /\ \A d \in PlanDays : d > task.day => next.week[d] = NoPlan
         /\ \A d \in PlanDays : next.week[d] # NoPlan => next.week[d].dish \cap next.pool = {}
<1> DEFINE new == IF dish = NoPlan THEN NoPlan ELSE [dish |-> dish, gap |-> Gap(dish, task.pool)]
           pool == IF dish = NoPlan THEN task.pool ELSE task.pool \ dish
           week == [task.week EXCEPT ![task.day] = new]
           over2 == task.over \/ over
           next == Searched(task, dish, over)
<1>1. /\ task.day \in PlanDays /\ task.week \in Week /\ task.pool \in SUBSET Names
      /\ task.over \in BOOLEAN /\ task.plan \in Plans /\ task.at = "searching"
      /\ PlanDays \subseteq Nat
  BY PlanAssumption DEF Searching, PlanDays
<1>2. next = [task EXCEPT !.pool = pool, !.over = over2, !.week = week]
  BY DEF Searched, Searching
<1>3. dish # NoPlan => dish \in Dishes /\ dish \notin Taken(task.week) /\ dish \subseteq Names
  BY PlanAssumption DEF Fresh
<1>4. new \in Entry \cup {NoPlan} /\ (new # NoPlan => new.dish = dish /\ new.gap = dish \ task.pool
                                                         /\ dish # NoPlan)
  BY <1>3 DEF Entry, Gap
<1> HIDE DEF new, next
<1>5. week \in Week /\ week[task.day] = new /\ \A d \in PlanDays \ {task.day} : week[d] = task.week[d]
  BY <1>1, <1>4 DEF Week
<1> HIDE DEF week
<1>6. pool \in SUBSET Names /\ pool \subseteq task.pool /\ (dish # NoPlan => dish \cap pool = {})
  BY <1>1
<1> HIDE DEF pool
<1>7. /\ next \in Searching /\ next.plan = task.plan /\ next.day = task.day /\ next.week = week
      /\ next.pool = pool /\ next.over = over2
  BY <1>1, <1>2, <1>5, <1>6 DEF Searching
<1>8. \A d \in PlanDays : task.week[d] # NoPlan =>
        d < task.day /\ task.week[d].dish \in Taken(task.week) /\ task.week[d].dish \cap task.pool = {}
  <2>1. SUFFICES ASSUME NEW d \in PlanDays, task.week[d] # NoPlan
                 PROVE  /\ d < task.day /\ task.week[d].dish \in Taken(task.week)
                        /\ task.week[d].dish \cap task.pool = {}
    OBVIOUS
  <2>2. d < task.day
    <3>1. ~(d >= task.day) /\ d \in Nat /\ task.day \in Nat
      BY <1>1, <2>1 DEF SearchSound
    <3>2. QED
      BY <3>1
  <2>3. task.week[d].dish \in Taken(task.week)
    BY <2>1 DEF Taken
  <2>4. task.week[d].dish \cap task.pool = {}
    BY <2>1 DEF SearchSound
  <2>5. QED
    BY <2>2, <2>3, <2>4
<1>9. WeekSound(week)
  <2>1. SUFFICES ASSUME NEW d \in PlanDays, NEW e \in PlanDays, d < e, week[d] # NoPlan, week[e] # NoPlan
                 PROVE  /\ week[d].dish # week[e].dish
                        /\ week[d].dish \cap week[e].dish \subseteq week[e].gap
    BY DEF WeekSound
  <2>2. d # task.day
    <3>1. SUFFICES ASSUME d = task.day PROVE FALSE
      OBVIOUS
    <3>2. e # task.day /\ week[e] = task.week[e]
      BY <1>1, <1>5, <2>1, <3>1
    <3>3. e < task.day
      BY <1>8, <2>1, <3>2
    <3>4. QED
      BY <1>1, <2>1, <3>1, <3>3
  <2>3. week[d] = task.week[d]
    BY <1>5, <2>2
  <2>4. CASE e = task.day
    <3>1. week[e].dish = dish /\ week[e].gap = dish \ task.pool /\ dish \notin Taken(task.week)
      BY <1>3, <1>4, <1>5, <2>1, <2>4
    <3>2. week[d].dish \in Taken(task.week) /\ week[d].dish \cap task.pool = {}
      BY <1>8, <2>1, <2>3
    <3>3. QED
      BY <3>1, <3>2
  <2>5. CASE e # task.day
    <3>1. week[e] = task.week[e]
      BY <1>5, <2>5
    <3>2. QED
      BY <2>1, <2>3, <3>1 DEF SearchSound, WeekSound
  <2>6. QED
    BY <2>4, <2>5
<1>10. ~over => ~over2
  BY DEF SearchSound
<1>11. \A d \in PlanDays : d > task.day => week[d] = NoPlan
  <2>1. ASSUME NEW d \in PlanDays, d > task.day PROVE d # task.day /\ d >= task.day
    BY <1>1, <2>1
  <2>2. QED
    BY <1>5, <2>1 DEF SearchSound
<1>12. \A d \in PlanDays : week[d] # NoPlan => week[d].dish \cap pool = {}
  <2>1. SUFFICES ASSUME NEW d \in PlanDays, week[d] # NoPlan PROVE week[d].dish \cap pool = {}
    OBVIOUS
  <2>2. CASE d = task.day
    BY <1>4, <1>5, <1>6, <2>1, <2>2
  <2>3. CASE d # task.day
    BY <1>5, <1>6, <1>8, <2>1, <2>3
  <2>4. QED
    BY <2>2, <2>3
<1> HIDE DEF over2
<1>13. QED
  BY <1>7, <1>9, <1>10, <1>11, <1>12 DEF next

LEMMA BuildSound ==
  ASSUME PlanInv, NEW k \in PlanTasks, BuildPlan(k)
  PROVE  PlanInv' /\ PlanStep
<1>1. PICK dish \in Fresh(planTask[k].week) \cup {NoPlan}, over \in BOOLEAN :
        LET task == Searched(planTask[k], dish, over) IN
        IF DayDone(task)
        THEN /\ plan' = [plan EXCEPT ![task.plan] = "active"]
             /\ entry' = [entry EXCEPT ![task.plan] = task.week]
             /\ Proceeds(k, NoPlan)
        ELSE Proceeds(k, [task EXCEPT !.day = @ + 1]) /\ UNCHANGED <<plan, entry>>
  BY DEF BuildPlan
<1> DEFINE task == Searched(planTask[k], dish, over)
           p == planTask[k].plan
<1>2. Waiting(k, "searching") /\ planTask[k] \in Searching /\ SearchSound(planTask[k])
      /\ plan[p] = "draft" /\ p \in Plans /\ PlanTypeOK
  BY TasksAre DEF BuildPlan, PlanInv, Drafts, Searching
<1>3. /\ task \in Searching /\ task.plan = p /\ task.day = planTask[k].day /\ WeekSound(task.week)
      /\ \A d \in PlanDays : d > planTask[k].day => task.week[d] = NoPlan
      /\ \A d \in PlanDays : task.week[d] # NoPlan => task.week[d].dish \cap task.pool = {}
  <2>1. dish \in Fresh(planTask[k].week) \cup {NoPlan} /\ over \in BOOLEAN
    BY <1>1
  <2> DEFINE asked == planTask[k]
  <2>2. asked \in Searching /\ SearchSound(asked) /\ dish \in Fresh(asked.week) \cup {NoPlan}
    BY <1>2, <2>1
  <2>3. task = Searched(asked, dish, over)
    OBVIOUS
  <2> HIDE DEF asked, task
  <2>4. /\ task \in Searching /\ task.plan = asked.plan /\ task.day = asked.day /\ WeekSound(task.week)
        /\ \A d \in PlanDays : d > asked.day => task.week[d] = NoPlan
        /\ \A d \in PlanDays : task.week[d] # NoPlan => task.week[d].dish \cap task.pool = {}
    BY <2>1, <2>2, <2>3, DayFound
  <2>5. QED
    BY <2>4 DEF asked
<1>4. \A l \in PlanTasks : Waiting(l, "searching") => planTask[l].plan \in Plans
  BY TasksAre DEF PlanInv, Searching
<1>5. CASE DayDone(task)
  <2>1. /\ plan' = [plan EXCEPT ![p] = "active"] /\ entry' = [entry EXCEPT ![p] = task.week]
        /\ Proceeds(k, NoPlan)
    BY <1>1, <1>3, <1>5
  <2> HIDE DEF task
  <2>2. task.week \in Week
    BY <1>3 DEF Searching
  <2>3. PlanTypeOK'
    BY <1>2, <2>1, <2>2 DEF PlanTypeOK, Proceeds
  <2>4. \A l \in PlanTasks : Waiting(l, "searching")' =>
          l # k /\ planTask'[l] = planTask[l] /\ Waiting(l, "searching")
    BY <1>2, <2>1 DEF PlanTypeOK, Proceeds, Waiting
  <2>5. Drafts'
    <3>1. ASSUME NEW l \in PlanTasks, Waiting(l, "searching")'
          PROVE  /\ plan'[planTask'[l].plan] = "draft"
                 /\ \A m \in PlanTasks :
                      Waiting(m, "searching")' /\ planTask'[m].plan = planTask'[l].plan => m = l
      <4>1. /\ l # k /\ planTask'[l] = planTask[l] /\ Waiting(l, "searching")
            /\ planTask[l].plan \in Plans /\ planTask[l].plan # p /\ plan[planTask[l].plan] = "draft"
        BY <1>2, <1>4, <2>4, <3>1 DEF PlanInv, Drafts
      <4>2. plan'[planTask[l].plan] = "draft"
        BY <1>2, <2>1, <4>1 DEF PlanTypeOK
      <4>3. QED
        BY <2>4, <4>1, <4>2 DEF PlanInv, Drafts
    <3>2. QED
      BY <3>1 DEF Drafts
  <2>6. \A l \in PlanTasks : Waiting(l, "searching")' => SearchSound(planTask'[l])
    BY <2>4 DEF PlanInv
  <2>7. \A q \in Plans : Activates(q) => q = p
    BY <1>2, <2>1 DEF Activates, PlanTypeOK
  <2>8. WeekSound(entry'[p])
    BY <1>2, <1>3, <2>1 DEF PlanTypeOK
  <2>9. \A q \in Plans : plan[q] = "cancelled" => plan'[q] = "cancelled"
    BY <1>2, <2>1 DEF PlanTypeOK
  <2>10. QED
    BY <2>3, <2>5, <2>6, <2>7, <2>8, <2>9 DEF PlanInv, PlanStep
<1>6. CASE ~DayDone(task)
  <2> DEFINE next == [task EXCEPT !.day = @ + 1]
  <2>1. Proceeds(k, next) /\ UNCHANGED <<plan, entry>>
    BY <1>1, <1>6
  <2>2. task.day # WeekLength /\ ~task.over
    BY <1>6 DEF DayDone
  <2> HIDE DEF task
  <2>3. task.day \in PlanDays /\ task.day + 1 \in PlanDays /\ PlanDays \subseteq Nat
    BY <1>3, <2>2, PlanAssumption DEF Searching, PlanDays
  <2>4. /\ next \in Searching /\ next.plan = p /\ next.day = task.day + 1 /\ next.week = task.week
        /\ next.pool = task.pool /\ next.over = task.over /\ next.at = "searching"
    BY <1>3, <2>3 DEF Searching
  <2> HIDE DEF next
  <2>5. SearchSound(next)
    <3>1. ASSUME NEW d \in PlanDays, d >= task.day + 1 PROVE next.week[d] = NoPlan
      <4>1. d \in Nat /\ task.day \in Nat
        BY <2>3
      <4>2. d > task.day
        BY <3>1, <4>1
      <4>3. QED
        BY <1>3, <2>4, <4>2
    <3>2. QED
      BY <1>3, <2>2, <2>4, <3>1 DEF SearchSound
  <2>6. PlanTypeOK'
    BY <1>2, <2>1, <2>4 DEF PlanTypeOK, Proceeds
  <2>7. /\ planTask'[k] = next
        /\ \A l \in PlanTasks \ {k} : planTask'[l] = planTask[l]
    BY <1>2, <2>1 DEF PlanTypeOK, Proceeds
  <2>8. \A l \in PlanTasks : Waiting(l, "searching")' =>
          Waiting(l, "searching") /\ planTask'[l].plan = planTask[l].plan
    BY <1>2, <2>4, <2>7 DEF Waiting
  <2>9. Drafts'
    BY <2>1, <2>8 DEF PlanInv, Drafts
  <2>10. ASSUME NEW l \in PlanTasks, Waiting(l, "searching")' PROVE SearchSound(planTask'[l])
    <3>1. CASE l = k
      BY <2>5, <2>7, <3>1
    <3>2. CASE l # k
      BY <2>7, <2>8, <2>10, <3>2 DEF PlanInv
    <3>3. QED
      BY <3>1, <3>2
  <2>11. PlanStep
    BY <2>1 DEF PlanStep, Activates
  <2>12. QED
    BY <2>6, <2>9, <2>10, <2>11 DEF PlanInv
<1>7. QED
  BY <1>5, <1>6

LEMMA ComposedSound ==
  ASSUME PlanInv, NEW k \in PlanTasks, NEW p \in Plans, Composed(k, p)
  PROVE  PlanInv' /\ PlanStep
<1>1. /\ Waiting(k, "composing") /\ plan[p] = "none" /\ UNCHANGED entry
      /\ plan' = [q \in Plans |-> IF q = p THEN "draft" ELSE Cancelled(plan[q])]
  BY DEF Composed, NewRow
<1>2. PICK pool \in SUBSET Names :
        Proceeds(k, [at |-> "searching", plan |-> p, day |-> 1, pool |-> pool,
                    week |-> NoWeek, over |-> FALSE])
  BY DEF Composed
<1> DEFINE task == [at |-> "searching", plan |-> p, day |-> 1, pool |-> pool,
                    week |-> NoWeek, over |-> FALSE]
<1>3. NoWeek \in Week /\ 1 \in PlanDays /\ \A d \in PlanDays : NoWeek[d] = NoPlan
  BY PlanAssumption DEF NoWeek, Week, PlanDays
<1>4. /\ task \in Searching /\ task.plan = p /\ task.week = NoWeek /\ ~task.over
  BY <1>3 DEF Searching
<1>5. Proceeds(k, task)
  BY <1>2
<1> HIDE DEF task
<1>6. SearchSound(task)
  BY <1>3, <1>4 DEF SearchSound, WeekSound
<1>7. PlanTypeOK
  BY DEF PlanInv
<1>8. /\ \A q \in Plans : plan[q] \in {"none", "draft", "active", "cancelled"}
      /\ \A q \in Plans : plan'[q] = IF q = p THEN "draft" ELSE Cancelled(plan[q])
      /\ plan' \in [Plans -> {"none", "draft", "active", "cancelled"}]
  BY <1>1, <1>7 DEF PlanTypeOK, Cancelled
<1>9. PlanTypeOK'
  BY <1>1, <1>4, <1>5, <1>7, <1>8 DEF PlanTypeOK, Proceeds
<1>10. planTask'[k] = task /\ \A l \in PlanTasks \ {k} : planTask'[l] = planTask[l]
  BY <1>5, <1>7 DEF PlanTypeOK, Proceeds
<1>11. \A l \in PlanTasks : Waiting(l, "searching") =>
         /\ planTask[l].plan \in Plans /\ plan[planTask[l].plan] = "draft" /\ planTask[l].plan # p
         /\ plan'[planTask[l].plan] = "draft"
  BY <1>1, <1>7, <1>8, TasksAre DEF PlanInv, Drafts, Searching, Cancelled
<1>12. plan'[p] = "draft"
  BY <1>8
<1>13. ASSUME NEW l \in PlanTasks, Waiting(l, "searching")'
       PROVE  l = k \/ (l # k /\ Waiting(l, "searching") /\ planTask'[l] = planTask[l])
  BY <1>10, <1>13 DEF Waiting
<1>14. Drafts'
  <2>1. ASSUME NEW l \in PlanTasks, Waiting(l, "searching")'
        PROVE  /\ plan'[planTask'[l].plan] = "draft"
               /\ \A m \in PlanTasks :
                    Waiting(m, "searching")' /\ planTask'[m].plan = planTask'[l].plan => m = l
    <3>1. CASE l = k
      BY <1>4, <1>10, <1>11, <1>12, <1>13, <3>1
    <3>2. CASE l # k
      BY <1>4, <1>10, <1>11, <1>13, <2>1, <3>2 DEF PlanInv, Drafts
    <3>3. QED
      BY <3>1, <3>2
  <2>2. QED
    BY <2>1 DEF Drafts
<1>15. \A l \in PlanTasks : Waiting(l, "searching")' => SearchSound(planTask'[l])
  BY <1>6, <1>10, <1>13 DEF PlanInv
<1>16. PlanStep
  <2>1. \A q \in Plans : plan'[q] # "active"
    BY <1>8 DEF Cancelled
  <2>2. \A q \in Plans : plan[q] = "cancelled" => plan'[q] = "cancelled"
    BY <1>1, <1>8 DEF Cancelled
  <2>3. QED
    BY <2>1, <2>2 DEF PlanStep, Activates
<1>17. QED
  BY <1>9, <1>14, <1>15, <1>16 DEF PlanInv

LEMMA PlanButtons ==
  ASSUME PlanInv, NEW k \in PlanTasks,
         \/ HandlePlan(k) \/ BuildFails(k) \/ SwapDay(k)
         \/ \E p \in Plans, d \in PlanDays : Swap(k, p, d)
  PROVE  PlanInv' /\ PlanStep
<1>1. /\ plan \in [Plans -> {"none", "draft", "active", "cancelled"}] /\ entry \in [Plans -> Week]
      /\ PlanTypeOK
  BY DEF PlanInv, PlanTypeOK
<1>2. UNCHANGED plan
  BY DEF HandlePlan, BuildFails, SwapDay, Swap
<1>3. PlanStep
  BY <1>2 DEF PlanStep, Activates
<1>4. entry' \in [Plans -> Week]
  <2>1. CASE SwapDay(k)
    <3>1. planTask[k] \in Swapping
      BY <1>1, <2>1, TasksAre DEF SwapDay
    <3>2. CASE UNCHANGED entry
      BY <1>1, <3>2
    <3>3. CASE ~UNCHANGED entry
      <4>1. PICK dish \in Dishes, pool \in SUBSET Names :
              entry' = [entry EXCEPT ![planTask[k].plan][planTask[k].day] =
                          [dish |-> dish, gap |-> Gap(dish, pool)]]
        BY <2>1, <3>3 DEF SwapDay
      <4>2. [dish |-> dish, gap |-> Gap(dish, pool)] \in Entry
        BY PlanAssumption DEF Entry, Gap
      <4>3. QED
        BY <1>1, <3>1, <4>1, <4>2 DEF Week, Swapping
    <3>4. QED
      BY <3>2, <3>3
  <2>2. CASE ~SwapDay(k)
    BY <1>1, <2>2 DEF HandlePlan, BuildFails, Swap
  <2>3. QED
    BY <2>1, <2>2
<1>5. \E task \in Composing \cup Swapping \cup {NoPlan} : Proceeds(k, task)
  <2>1. CASE HandlePlan(k)
    BY <2>1 DEF HandlePlan, Composing
  <2>2. CASE BuildFails(k) \/ SwapDay(k)
    BY <2>2 DEF BuildFails, SwapDay
  <2>3. ASSUME NEW p \in Plans, NEW d \in PlanDays, Swap(k, p, d)
        PROVE  \E task \in Composing \cup Swapping \cup {NoPlan} : Proceeds(k, task)
    <3> DEFINE task == [at |-> "swapping", plan |-> p, day |-> d, taken |-> Taken(entry[p])]
    <3>1. Proceeds(k, task)
      BY <2>3 DEF Swap
    <3>2. entry[p] \in Week
      BY <1>1
    <3>3. \A e \in PlanDays : entry[p][e] # NoPlan => entry[p][e].dish \in Dishes
      BY <3>2 DEF Week, Entry
    <3>4. Taken(entry[p]) \subseteq Dishes
      BY <3>3 DEF Taken
    <3>5. task \in Swapping
      BY <3>4 DEF Swapping
    <3>6. QED
      BY <3>1, <3>5
  <2>4. QED
    BY <2>1, <2>2, <2>3
<1>6. PlanInv'
  BY <1>1, <1>2, <1>4, <1>5, OtherTask
<1>7. QED
  BY <1>3, <1>6

LEMMA CancelSound ==
  ASSUME PlanInv, NEW p \in Plans, CancelPlan(p) PROVE PlanInv' /\ PlanStep
<1>1. plan[p] = "active" /\ plan' = [plan EXCEPT ![p] = "cancelled"] /\ UNCHANGED <<entry, planTask>>
  BY DEF CancelPlan
<1>2. PlanTypeOK /\ PlanTypeOK'
  BY <1>1 DEF PlanInv, PlanTypeOK
<1>3. \A k \in PlanTasks : Waiting(k, "searching")' <=> Waiting(k, "searching")
  BY <1>1 DEF Waiting
<1>4. \A q \in Plans : plan[q] = "draft" => plan'[q] = "draft"
  BY <1>1, <1>2 DEF PlanTypeOK
<1>5. \A k \in PlanTasks : Waiting(k, "searching") => planTask[k].plan \in Plans
  BY <1>2, TasksAre DEF Searching
<1>6. Drafts'
  BY <1>1, <1>3, <1>4, <1>5 DEF PlanInv, Drafts
<1>7. \A k \in PlanTasks : Waiting(k, "searching")' => SearchSound(planTask'[k])
  BY <1>1, <1>3 DEF PlanInv
<1>8. PlanStep
  BY <1>1, <1>2 DEF PlanStep, Activates, PlanTypeOK
<1>9. QED
  BY <1>2, <1>6, <1>7, <1>8 DEF PlanInv

LEMMA PlanSteps == ASSUME PlanInv, [PlanNext]_planVars PROVE PlanInv' /\ PlanStep
<1>1. ASSUME NEW k \in PlanTasks,
             \/ HandlePlan(k) \/ BuildFails(k) \/ SwapDay(k)
             \/ \E p \in Plans, d \in PlanDays : Swap(k, p, d)
      PROVE  PlanInv' /\ PlanStep
  BY <1>1, PlanButtons
<1>2. ASSUME NEW k \in PlanTasks, BuildPlan(k) PROVE PlanInv' /\ PlanStep
  BY <1>2, BuildSound
<1>3. ASSUME NEW k \in PlanTasks, NEW p \in Plans, Composed(k, p) PROVE PlanInv' /\ PlanStep
  BY <1>3, ComposedSound
<1>4. ASSUME NEW p \in Plans, CancelPlan(p) PROVE PlanInv' /\ PlanStep
  BY <1>4, CancelSound
<1>5. CASE UNCHANGED planVars
  BY <1>5 DEF planVars, PlanInv, PlanTypeOK, Drafts, Waiting, PlanStep, Activates
<1>6. QED
  BY <1>1, <1>2, <1>3, <1>4, <1>5 DEF PlanNext

LEMMA PlanInductive == PlanSpec => []PlanInv
<1>1. PlanInit => PlanInv
  BY PlanAssumption DEF PlanInit, PlanInv, PlanTypeOK, Drafts, Waiting, NoWeek, Week
<1>2. PlanInv /\ [PlanNext]_planVars => PlanInv'
  BY PlanSteps
<1>3. QED
  BY <1>1, <1>2, PTL DEF PlanSpec

\* A new plan repeats no recipe and plans no pantry item twice, no search goes on
\* over the ceiling, and a plan that was cancelled stays cancelled, whichever
\* handlers overlap (build_plan, cancel_active_plans, swap_day).
THEOREM PlansAreSound == PlanSpec => PlansSound
<1>1. PlanInv => CeilingEndsSearch
  BY DEF PlanInv, CeilingEndsSearch, SearchSound
<1>2. ASSUME PlanInv, [PlanNext]_planVars
      PROVE  /\ \A p \in Plans : Activates(p) =>
                  \A d, e \in PlanDays :
                    d < e /\ entry'[p][d] # NoPlan /\ entry'[p][e] # NoPlan
                      => entry'[p][d].dish # entry'[p][e].dish
             /\ \A p \in Plans : Activates(p) =>
                  \A d, e \in PlanDays :
                    d < e /\ entry'[p][d] # NoPlan /\ entry'[p][e] # NoPlan
                      => entry'[p][d].dish \cap entry'[p][e].dish \subseteq entry'[p][e].gap
             /\ \A p \in Plans : plan[p] = "cancelled" => plan'[p] = "cancelled"
  BY <1>2, PlanSteps DEF PlanStep, WeekSound
<1>3. QED
  BY <1>1, <1>2, PlanInductive, PTL
     DEF PlanSpec, PlansSound, NoRecipeTwice, PantrySpentOnce, CancelledStays

\* The plans, their weeks and the tasks that search for them stay of their kind.
THEOREM PlanTypeCorrect == PlanSpec => []PlanTypeOK
<1>1. PlanInv => PlanTypeOK
  BY DEF PlanInv
<1>2. QED
  BY <1>1, PlanInductive, PTL

-----------------------------------------------------------------------------
(* CookedSheets.                                                           *)
(* No two open sheets are of one meal, so a meal is confirmed once; and a  *)
(* record says only what was eaten.                                        *)

\* Open sheets differ in their meal, and those of a /cook in their recipe; what is
\* marked as used up belongs to a record; and items and outcomes are counted
\* together.
ConsumedIsConfirmed == \A s \in Sheets : sheet[s] # Unset /\ sheet[s].consumed => sheet[s].confirmed

SheetInv == SheetTypeOK /\ OneSheetPerMeal /\ ConsumedIsConfirmed /\ RecordsAreTrue /\ EatenOnce

\* No step changes a record.
RecordKept(s) == sheet[s] # Unset /\ sheet[s].confirmed => sheet'[s] = sheet[s]

LEMMA SheetRows ==
  ASSUME SheetTypeOK
  PROVE  /\ \A s \in Sheets : sheet[s] # Unset => sheet[s] \in Sheet
         /\ \A s \in OpenSheets : s \in Sheets /\ sheet[s] \in Sheet /\ ~sheet[s].confirmed
         /\ \A key \in Menu : key \subseteq Stock
BY SheetAssumption DEF SheetTypeOK, OpenSheets

\* Items are eaten.
LEMMA Eaten ==
  ASSUME SheetInv, NEW items, Eat(items)
  PROVE  /\ onHand' = onHand \ items /\ onHand' \in SUBSET Stock
         /\ outcomes' \in [Stock -> Nat] /\ EatenOnce'
<1>1. /\ onHand' = onHand \ items /\ onHand \in SUBSET Stock /\ outcomes \in [Stock -> Nat]
      /\ outcomes' = [i \in Stock |-> IF i \in items \cap onHand THEN outcomes[i] + 1 ELSE outcomes[i]]
  BY DEF SheetInv, SheetTypeOK, Eat
<1>2. \A i \in Stock : outcomes'[i] = IF i \in items \cap onHand THEN outcomes[i] + 1 ELSE outcomes[i]
  BY <1>1
<1>3. \A i \in Stock : outcomes[i] \in Nat /\ outcomes[i] <= 1 /\ (outcomes[i] = 0 <=> i \in onHand)
  BY <1>1 DEF SheetInv, EatenOnce
<1>4. outcomes' \in [Stock -> Nat]
  BY <1>1
<1>5. ASSUME NEW i \in Stock PROVE outcomes'[i] <= 1 /\ (outcomes'[i] = 0 <=> i \in onHand')
  <2>1. CASE i \in items \cap onHand
    BY <1>1, <1>2, <1>3, <2>1
  <2>2. CASE i \notin items \cap onHand
    BY <1>1, <1>2, <1>3, <2>2
  <2>3. QED
    BY <2>1, <2>2
<1>6. QED
  BY <1>1, <1>4, <1>5 DEF EatenOnce

\* Some items are eaten, no sheet changes.
LEMMA OnlyEaten ==
  ASSUME SheetInv, NEW items, Eat(items), UNCHANGED sheet,
         serving' \in [Meals -> Menu], tapped' \in [meal : Meals, key : Menu] \cup {Unset}
  PROVE  SheetInv' /\ \A s \in Sheets : RecordKept(s)
<1>1. onHand' = onHand \ items /\ onHand' \in SUBSET Stock /\ outcomes' \in [Stock -> Nat] /\ EatenOnce'
  BY Eaten
<1>2. SheetTypeOK'
  BY <1>1 DEF SheetInv, SheetTypeOK
<1>3. OneSheetPerMeal' /\ ConsumedIsConfirmed'
  BY DEF SheetInv, OneSheetPerMeal, ConsumedIsConfirmed, OpenSheets
<1>4. RecordsAreTrue'
  BY <1>1 DEF SheetInv, RecordsAreTrue
<1>5. QED
  BY <1>1, <1>2, <1>3, <1>4 DEF SheetInv, RecordKept

\* No item is eaten, no sheet changes.
LEMMA Untouched ==
  ASSUME SheetInv, UNCHANGED <<sheet, onHand, outcomes>>,
         serving' \in [Meals -> Menu], tapped' \in [meal : Meals, key : Menu] \cup {Unset}
  PROVE  SheetInv' /\ \A s \in Sheets : RecordKept(s)
<1>1. SheetTypeOK'
  BY DEF SheetInv, SheetTypeOK
<1>2. OneSheetPerMeal' /\ ConsumedIsConfirmed' /\ RecordsAreTrue' /\ EatenOnce'
  BY DEF SheetInv, OneSheetPerMeal, ConsumedIsConfirmed, OpenSheets, RecordsAreTrue, EatenOnce
<1>3. QED
  BY <1>1, <1>2 DEF SheetInv, RecordKept

LEMMA OpenedSound ==
  ASSUME SheetInv, NEW s \in Sheets, NEW meal \in Meals \cup {Unset}, NEW key \in Menu,
         ~IsOpen(meal, key), NewSheet(s), Opened(s, meal, key),
         UNCHANGED <<onHand, outcomes, serving>>, tapped' \in [meal : Meals, key : Menu] \cup {Unset}
  PROVE  SheetInv' /\ \A r \in Sheets : RecordKept(r)
<1> DEFINE row == [meal |-> meal, key |-> key, listed |-> IF meal = Unset THEN key \cap onHand ELSE {},
                   selected |-> key \cap onHand, confirmed |-> FALSE, consumed |-> FALSE]
<1>1. /\ sheet' = [sheet EXCEPT ![s] = row] /\ sheet[s] = Unset /\ key \subseteq Stock
      /\ SheetTypeOK
  BY SheetRows DEF Opened, NewSheet, SheetInv
<1>2. /\ row \in Sheet /\ row.meal = meal /\ row.key = key /\ ~row.confirmed /\ ~row.consumed
  BY <1>1 DEF Sheet
<1> HIDE DEF row
<1>3. sheet'[s] = row /\ \A r \in Sheets \ {s} : sheet'[r] = sheet[r]
  BY <1>1 DEF SheetTypeOK
<1>4. SheetTypeOK'
  BY <1>1, <1>2 DEF SheetTypeOK
<1>5. \A r \in OpenSheets' : r = s \/ (r # s /\ r \in OpenSheets /\ sheet'[r] = sheet[r])
  BY <1>3 DEF OpenSheets
<1>6. \A r \in OpenSheets : ~(sheet[r].meal = meal /\ (meal = Unset => sheet[r].key = key))
  BY DEF IsOpen
<1>7. OneSheetPerMeal'
  <2>1. ASSUME NEW a \in OpenSheets', NEW b \in OpenSheets',
               sheet'[a].meal = sheet'[b].meal,
               sheet'[a].meal = Unset => sheet'[a].key = sheet'[b].key
        PROVE  a = b
    <3>1. CASE a = s
      BY <1>2, <1>3, <1>5, <1>6, <2>1, <3>1
    <3>2. CASE a # s /\ b = s
      BY <1>2, <1>3, <1>5, <1>6, <2>1, <3>2
    <3>3. CASE a # s /\ b # s
      BY <1>5, <2>1, <3>3 DEF SheetInv, OneSheetPerMeal
    <3>4. QED
      BY <3>1, <3>2, <3>3
  <2>2. QED
    BY <2>1 DEF OneSheetPerMeal
<1>8. ConsumedIsConfirmed' /\ RecordsAreTrue'
  <2>1. ASSUME NEW r \in Sheets, sheet'[r] # Unset, sheet'[r].consumed
        PROVE  r # s /\ sheet'[r] = sheet[r]
    BY <1>2, <1>3, <2>1
  <2>2. QED
    BY <2>1 DEF SheetInv, ConsumedIsConfirmed, RecordsAreTrue
<1>9. EatenOnce'
  BY DEF SheetInv, EatenOnce
<1>10. QED
  BY <1>1, <1>3, <1>4, <1>7, <1>8, <1>9 DEF SheetInv, RecordKept

\* A row that stays the sheet of its meal takes the place of an open one.
LEMMA SheetRowSound ==
  ASSUME SheetInv, NEW s \in OpenSheets, NEW row \in Sheet, sheet' = [sheet EXCEPT ![s] = row],
         row.meal = sheet[s].meal, row.key = sheet[s].key,
         row.consumed => row.confirmed /\ row.selected \cap onHand' = {},
         NEW items, Eat(items), UNCHANGED <<serving, tapped>>
  PROVE  SheetInv' /\ \A r \in Sheets : RecordKept(r)
<1>1. onHand' = onHand \ items /\ onHand' \in SUBSET Stock /\ outcomes' \in [Stock -> Nat] /\ EatenOnce'
  BY Eaten
<1>2. SheetTypeOK /\ s \in Sheets /\ ~sheet[s].confirmed
  BY SheetRows DEF SheetInv
<1>3. sheet'[s] = row /\ \A r \in Sheets \ {s} : sheet'[r] = sheet[r]
  BY <1>2 DEF SheetTypeOK
<1>4. SheetTypeOK'
  BY <1>1, <1>2 DEF SheetTypeOK
<1>5. \A r \in OpenSheets' : /\ r \in OpenSheets
                             /\ sheet'[r].meal = sheet[r].meal /\ sheet'[r].key = sheet[r].key
  BY <1>2, <1>3 DEF OpenSheets
<1>6. OneSheetPerMeal'
  BY <1>5 DEF SheetInv, OneSheetPerMeal
<1>7. ConsumedIsConfirmed' /\ RecordsAreTrue'
  <2>1. ASSUME NEW r \in Sheets, sheet'[r] # Unset, sheet'[r].consumed
        PROVE  sheet'[r].confirmed /\ sheet'[r].selected \cap onHand' = {}
    <3>1. CASE r = s
      BY <1>3, <2>1, <3>1
    <3>2. CASE r # s
      BY <1>1, <1>3, <2>1, <3>2 DEF SheetInv, ConsumedIsConfirmed, RecordsAreTrue
    <3>3. QED
      BY <3>1, <3>2
  <2>2. QED
    BY <2>1 DEF ConsumedIsConfirmed, RecordsAreTrue
<1>8. \A r \in Sheets : RecordKept(r)
  BY <1>2, <1>3 DEF RecordKept
<1>9. QED
  BY <1>1, <1>4, <1>6, <1>7, <1>8 DEF SheetInv

LEMMA ToggleSound ==
  ASSUME SheetInv, NEW s \in Sheets, NEW i \in Stock, Toggle(s, i)
  PROVE  SheetInv' /\ \A r \in Sheets : RecordKept(r)
<1> DEFINE row == [sheet[s] EXCEPT !.selected = Flip(sheet[s].selected, i)]
<1>1. s \in OpenSheets /\ sheet' = [sheet EXCEPT ![s] = row]
      /\ UNCHANGED <<onHand, outcomes, serving, tapped>>
  BY DEF Toggle, LoadRow
<1>2. sheet[s] \in Sheet /\ ~sheet[s].confirmed /\ SheetTypeOK
  BY <1>1, SheetRows DEF SheetInv
<1>3. ~sheet[s].consumed
  BY <1>1, <1>2 DEF SheetInv, ConsumedIsConfirmed, OpenSheets
<1>4. /\ row \in Sheet /\ row.meal = sheet[s].meal /\ row.key = sheet[s].key /\ ~row.consumed
  BY <1>2, <1>3 DEF Sheet, Flip
<1>5. Eat({})
  <2>1. outcomes = [j \in Stock |-> outcomes[j]]
    BY <1>2 DEF SheetTypeOK
  <2>2. QED
    BY <1>1, <2>1 DEF Eat
<1> HIDE DEF row
<1>6. QED
  BY <1>1, <1>4, <1>5, SheetRowSound

LEMMA ConfirmSound ==
  ASSUME SheetInv, NEW s \in Sheets, NEW consume \in BOOLEAN, Confirm(s, consume)
  PROVE  SheetInv' /\ \A r \in Sheets : RecordKept(r)
<1> DEFINE row == [sheet[s] EXCEPT !.confirmed = TRUE, !.consumed = consume]
           items == IF consume THEN sheet[s].selected ELSE {}
<1>1. s \in OpenSheets /\ sheet[s] \in Sheet
  BY SheetRows DEF Confirm, LoadRow, SheetInv
<1>2. Eat(items) /\ sheet' = [sheet EXCEPT ![s] = row] /\ UNCHANGED <<serving, tapped>>
  BY DEF Confirm
<1>3. onHand' = onHand \ items
  BY <1>2, Eaten
<1>4. /\ row \in Sheet /\ row.meal = sheet[s].meal /\ row.key = sheet[s].key /\ row.confirmed
      /\ row.selected = sheet[s].selected /\ row.consumed = consume
  BY <1>1 DEF Sheet
<1>5. row.consumed => row.confirmed /\ row.selected \cap onHand' = {}
  BY <1>3, <1>4
<1> HIDE DEF row, items
<1>6. QED
  BY <1>1, <1>2, <1>4, <1>5, SheetRowSound

LEMMA SheetSteps == ASSUME SheetInv, [SheetNext]_sheetVars PROVE SheetInv' /\ \A r \in Sheets : RecordKept(r)
<1>0. /\ serving \in [Meals -> Menu] /\ tapped \in [meal : Meals, key : Menu] \cup {Unset}
  BY DEF SheetInv, SheetTypeOK
<1>1. ASSUME NEW m \in Meals, TapCooked(m) \/ \E key \in Menu : SwapMeal(m, key)
      PROVE  SheetInv' /\ \A r \in Sheets : RecordKept(r)
  <2>1. /\ UNCHANGED <<sheet, onHand, outcomes>>
        /\ serving' \in [Meals -> Menu] /\ tapped' \in [meal : Meals, key : Menu] \cup {Unset}
    BY <1>0, <1>1 DEF TapCooked, SwapMeal
  <2>2. QED
    BY <2>1, Untouched
<1>2. ASSUME NEW s \in Sheets, OpenSheet(s) PROVE SheetInv' /\ \A r \in Sheets : RecordKept(r)
  <2>1. /\ tapped' = Unset /\ tapped.meal \in Meals /\ tapped.key \in Menu
        /\ UNCHANGED <<onHand, outcomes, serving>>
    BY <1>0, <1>2 DEF OpenSheet
  <2>2. CASE UNCHANGED sheet
    BY <1>0, <2>1, <2>2, Untouched
  <2>3. CASE ~UNCHANGED sheet
    <3>1. ~IsOpen(tapped.meal, tapped.key) /\ NewSheet(s) /\ Opened(s, tapped.meal, tapped.key)
      BY <1>2, <2>3 DEF OpenSheet
    <3>2. QED
      BY <2>1, <3>1, OpenedSound
  <2>4. QED
    BY <2>2, <2>3
<1>3. ASSUME NEW s \in Sheets, NEW key \in Menu, OpenCookSheet(s, key)
      PROVE  SheetInv' /\ \A r \in Sheets : RecordKept(r)
  <2>1. /\ ~IsOpen(Unset, key) /\ NewSheet(s) /\ Opened(s, Unset, key)
        /\ UNCHANGED <<onHand, outcomes, serving>> /\ tapped' = tapped
    BY <1>3 DEF OpenCookSheet
  <2>2. QED
    BY <1>0, <2>1, OpenedSound
<1>4. ASSUME NEW s \in Sheets, NEW i \in Stock, ConfirmCut(s, i)
      PROVE  SheetInv' /\ \A r \in Sheets : RecordKept(r)
  BY <1>0, <1>4, OnlyEaten DEF ConfirmCut
<1>5. ASSUME NEW i \in Stock, MarkTerminal(i) PROVE SheetInv' /\ \A r \in Sheets : RecordKept(r)
  BY <1>0, <1>5, OnlyEaten DEF MarkTerminal
<1>6. ASSUME NEW s \in Sheets, NEW i \in Stock, Toggle(s, i)
      PROVE  SheetInv' /\ \A r \in Sheets : RecordKept(r)
  BY <1>6, ToggleSound
<1>7. ASSUME NEW s \in Sheets, NEW consume \in BOOLEAN, Confirm(s, consume)
      PROVE  SheetInv' /\ \A r \in Sheets : RecordKept(r)
  BY <1>7, ConfirmSound
<1>8. CASE UNCHANGED sheetVars
  BY <1>0, <1>8, Untouched DEF sheetVars
<1>9. QED
  BY <1>1, <1>2, <1>3, <1>4, <1>5, <1>6, <1>7, <1>8 DEF SheetNext

LEMMA SheetInductive == SheetSpec => []SheetInv
<1>1. SheetInit => SheetInv
  BY DEF SheetInit, SheetInv, SheetTypeOK, OneSheetPerMeal, ConsumedIsConfirmed, RecordsAreTrue,
         EatenOnce, OpenSheets
<1>2. SheetInv /\ [SheetNext]_sheetVars => SheetInv'
  BY SheetSteps
<1>3. QED
  BY <1>1, <1>2, PTL DEF SheetSpec

\* A meal has one sheet that can be confirmed, a record stays as it is and is true
\* of the items, and an item is eaten once, whatever crashes or is tapped again
\* (open_sheet, confirm, mark_eaten).
THEOREM SheetsAreSound == SheetSpec => SheetsSound
<1>1. SheetInv => OneSheetPerMeal /\ RecordsAreTrue /\ EatenOnce
  BY DEF SheetInv
<1>2. ASSUME SheetInv, [SheetNext]_sheetVars
      PROVE  \A s \in Sheets : sheet[s] # Unset /\ sheet[s].confirmed => sheet'[s] = sheet[s]
  BY <1>2, SheetSteps DEF RecordKept
<1>3. QED
  BY <1>1, <1>2, SheetInductive, PTL DEF SheetSpec, SheetsSound, RecordsAreFinal

\* The rows of cooked meals, of items and of their outcomes stay of their kind.
THEOREM SheetTypeCorrect == SheetSpec => []SheetTypeOK
<1>1. SheetInv => SheetTypeOK
  BY DEF SheetInv
<1>2. QED
  BY <1>1, SheetInductive, PTL

-----------------------------------------------------------------------------
(* BatchSelection.                                                         *)
(* A tap whose version is still the row's was made on a screen that showed *)
(* the row as it is, for whatever changes a row gives it a version it      *)
(* never had; and what is confirmed has an ending to apply.                *)

Live == {"selecting", "confirming"}

BatchRowSound(row) ==
  /\ Cardinality(row.selected) <= MaxSelected
  /\ row.status \in {"confirming", "applied"} => row.target \in Targets
  /\ row.page < Pages(Shown(row))

\* What a tap knows of the row when it lands.
Seen(p) ==
  /\ batch[p.batch] # Void
  /\ p.version < MaxVersion /\ p.version <= batch[p.batch].version
  /\ p.version = batch[p.batch].version
       => p.selected = batch[p.batch].selected /\ p.target = batch[p.batch].target
  /\ p.action = "confirm" => p.value \in Targets

BatchInv ==
  /\ BatchTypeOK /\ AppliedWhole
  /\ \A b \in Batches : batch[b] # Void => BatchRowSound(batch[b])
  /\ \A f \in Fingers : press[f] # Void => Seen(press[f])

-----------------------------------------------------------------------------
(* Pages and selections.                                                   *)

LEMMA PagesOfSome ==
  ASSUME NEW size \in Nat \ {0}, NEW n \in Nat \ {0}
  PROVE  (n + size - 1) \div size \in 1..n
OBVIOUS

LEMMA PagesOfMore ==
  ASSUME NEW size \in Nat \ {0}, NEW m \in Nat, NEW n \in Nat, m <= n
  PROVE  (m \div size) <= (n \div size)
OBVIOUS

\* A list has a page, never more than items, and a longer one not fewer.
LEMMA PagesFacts ==
  /\ \A n \in Nat : Pages(n) \in Nat /\ Pages(n) >= 1 /\ Pages(n) <= n + 1
  /\ \A m, n \in Nat : m <= n => Pages(m) <= Pages(n)
<1>1. \A n \in Nat \ {0} : Pages(n) \in 1..n
  BY PagesOfSome, BatchAssumption DEF Pages
<1>2. Pages(0) = 1
  BY DEF Pages
<1>3. \A n \in Nat : Pages(n) \in Nat /\ Pages(n) >= 1 /\ Pages(n) <= n + 1
  BY <1>1, <1>2
<1>4. ASSUME NEW m \in Nat \ {0}, NEW n \in Nat, m <= n PROVE Pages(m) <= Pages(n)
  <2>1. m + PageSize - 1 \in Nat /\ n + PageSize - 1 \in Nat
        /\ m + PageSize - 1 <= n + PageSize - 1 /\ n # 0
    BY <1>4, BatchAssumption
  <2>2. QED
    BY <2>1, PagesOfMore, BatchAssumption DEF Pages
<1>5. QED
  BY <1>2, <1>3, <1>4

LEMMA SelectionSize ==
  ASSUME NEW set \in SUBSET Listed
  PROVE  IsFiniteSet(set) /\ Cardinality(set) \in 0..LastItem
<1>1. IsFiniteSet(Listed) /\ Cardinality(Listed) = LastItem
  BY FS_Interval, BatchAssumption DEF Listed
<1>2. IsFiniteSet(set) /\ Cardinality(set) <= LastItem
  BY <1>1, FS_Subset
<1>3. QED
  BY <1>2, FS_CardinalityType, BatchAssumption

LEMMA ShownFacts ==
  ASSUME NEW row \in Batch
  PROVE  Shown(row) \in 0..LastItem /\ Shown(row) \in Nat
<1>1. Cardinality(row.selected) \in 0..LastItem
  BY SelectionSize DEF Batch
<1>2. QED
  BY <1>1, BatchAssumption DEF Shown

\* Every button but "apply" leaves a row that is sound, has not been applied and
\* has the version it had.
LEMMA ChangedRow ==
  ASSUME NEW row \in Batch, row.status \in Live, BatchRowSound(row),
         NEW a \in Actions, NEW v, a = "confirm" => v \in Targets,
         NEW r \in Changed(row, a, v)
  PROVE  r \in Batch /\ BatchRowSound(r) /\ r.version = row.version /\ r.status # "applied"
<1>1. /\ 0 \in 0..LastItem /\ row.selected \in SUBSET Listed /\ {} \in SUBSET Listed
      /\ \A n \in Nat : 0 < Pages(n)
  BY PagesFacts, BatchAssumption DEF Batch
<1>2. CASE a = "cancel"
  <2>1. r = [row EXCEPT !.status = "cancelled"]
    BY <1>2 DEF Changed
  <2>2. r \in Batch /\ r.page = row.page /\ r.selected = row.selected /\ r.status = "cancelled"
        /\ r.version = row.version
    BY <2>1 DEF Batch
  <2>3. Shown(r) = LastItem /\ Shown(row) <= LastItem
    BY <2>2, ShownFacts DEF Shown
  <2>4. r.page < Pages(Shown(r))
    <3>1. Pages(Shown(row)) \in Nat /\ Pages(Shown(r)) \in Nat /\ Pages(Shown(row)) <= Pages(Shown(r))
      BY <2>2, <2>3, ShownFacts, PagesFacts
    <3>2. QED
      BY <2>2, <3>1 DEF BatchRowSound, Batch
  <2>5. QED
    BY <2>2, <2>4 DEF BatchRowSound
<1>3. CASE a = "page"
  <2>1. PICK p \in {v} \cap 0..(Pages(Shown(row)) - 1) : r = [row EXCEPT !.page = p]
    BY <1>3, Zenon DEF Changed
  <2>2. p \in 0..LastItem /\ p < Pages(Shown(row))
    BY ShownFacts, PagesFacts, BatchAssumption
  <2>3. r \in Batch /\ r.page = p /\ r.selected = row.selected /\ r.status = row.status
        /\ r.target = row.target /\ r.version = row.version
    BY <2>1, <2>2 DEF Batch
  <2>4. QED
    BY <2>2, <2>3 DEF BatchRowSound, Shown, Live
<1>4. CASE a = "edit"
  <2>1. r = [row EXCEPT !.status = "selecting", !.target = Void, !.page = 0]
    BY <1>4 DEF Changed
  <2>2. r \in Batch /\ r.page = 0 /\ r.selected = row.selected /\ r.status = "selecting"
        /\ r.version = row.version
    BY <1>1, <2>1 DEF Batch
  <2>3. QED
    BY <1>1, <2>2, ShownFacts DEF BatchRowSound
<1>5. CASE a \in {"clear", "toggle", "select_page"}
  <2>1. row.status = "selecting"
        /\ \E set \in SUBSET Listed : r = [row EXCEPT !.selected = set]
                                      /\ Cardinality(set) <= MaxSelected
    <3>1. CASE a = "clear"
      <4>1. row.status = "selecting" /\ r = [row EXCEPT !.selected = {}]
        BY <1>5, <3>1 DEF Changed
      <4>2. Cardinality({}) <= MaxSelected
        BY FS_EmptySet, BatchAssumption
      <4>3. QED
        BY <1>1, <4>1, <4>2
    <3>2. CASE a = "toggle"
      <4>1. row.status = "selecting" /\ v \in row.selected \cup Active(Listed)
            /\ r \in WithSelection(row, Toggled(row, v))
        BY <1>5, <3>2 DEF Changed
      <4>2. Toggled(row, v) \in SUBSET Listed
        BY <1>1, <4>1 DEF Toggled, Active
      <4>3. QED
        BY <4>1, <4>2 DEF WithSelection
    <3>3. CASE a = "select_page"
      <4>1. row.status = "selecting"
            /\ r \in WithSelection(row, row.selected \cup Active(PageItems(row)))
        BY <1>5, <3>3 DEF Changed
      <4>2. row.selected \cup Active(PageItems(row)) \in SUBSET Listed
        BY <1>1 DEF Active, PageItems
      <4>3. QED
        BY <4>1, <4>2 DEF WithSelection
    <3>4. QED
      BY <1>5, <3>1, <3>2, <3>3
  <2>2. PICK set \in SUBSET Listed : r = [row EXCEPT !.selected = set]
                                     /\ Cardinality(set) <= MaxSelected
    BY <2>1, Zenon
  <2>3. r \in Batch /\ r.page = row.page /\ r.selected = set /\ r.status = "selecting"
        /\ r.version = row.version
    BY <2>1, <2>2 DEF Batch
  <2>4. QED
    BY <2>1, <2>2, <2>3 DEF BatchRowSound, Shown
<1>6. CASE a = "confirm"
  <2>1. r = ConfirmedRow(row, v) /\ v \in Targets
    BY <1>6 DEF Changed
  <2>2. r \in Batch /\ r.page = 0 /\ r.selected = row.selected /\ r.status = "confirming"
        /\ r.target = v /\ r.version = row.version
    BY <1>1, <2>1 DEF ConfirmedRow, Batch
  <2>3. QED
    BY <1>1, <2>1, <2>2, ShownFacts DEF BatchRowSound
<1>7. CASE a = "apply"
  BY <1>7 DEF Changed
<1>8. QED
  BY <1>2, <1>3, <1>4, <1>5, <1>6, <1>7 DEF Actions

-----------------------------------------------------------------------------
(* The steps.                                                              *)

\* An applied tap was of the row as it is, and no ending is overwritten.
AsShown ==
  \A f \in Fingers, b \in Batches :
    /\ press[f] # Void /\ press'[f] = Void /\ press[f].batch = b
    /\ batch'[b].status = "applied" /\ batch[b].status # "applied"
    => press[f].selected = batch[b].selected /\ press[f].target = batch[b].target

Stay == \A i \in Listed : ending[i] # Void => ending'[i] = ending[i]

BatchStep == BatchInv' /\ AsShown /\ Stay

LEMMA RowFacts ==
  ASSUME BatchInv, NEW b \in Batches, batch[b] # Void
  PROVE  batch[b] \in Batch /\ BatchRowSound(batch[b])
BY DEF BatchInv, BatchTypeOK

LEMMA TapFacts ==
  ASSUME BatchInv, NEW f \in Fingers, press[f] # Void
  PROVE  press[f] \in Press /\ press[f].batch \in Batches /\ Seen(press[f])
BY DEF BatchInv, BatchTypeOK, Press

\* One row changes, and taps land: a row that is not what it was has a version that
\* no tap of it carries.
LEMMA RowChanges ==
  ASSUME BatchInv, NEW b \in Batches, NEW r \in Batch, BatchRowSound(r),
         batch' = [batch EXCEPT ![b] = r],
         batch[b] # Void =>
           /\ r.version >= batch[b].version
           /\ r.version = batch[b].version
                => r.selected = batch[b].selected /\ r.target = batch[b].target,
         press' \in [Fingers -> Press \cup {Void}],
         \A f \in Fingers : press'[f] # Void => press'[f] = press[f],
         ending' \in [Listed -> Targets \cup {Void}], AppliedWhole'
  PROVE  BatchInv'
<1>1. /\ batch' \in [Batches -> Batch \cup {Void}] /\ batch'[b] = r /\ r # Void
      /\ \A d \in Batches \ {b} : batch'[d] = batch[d]
  BY BatchAssumption DEF BatchInv, BatchTypeOK
<1>2. \A d \in Batches : batch'[d] # Void => BatchRowSound(batch'[d])
  BY <1>1, RowFacts
<1>3. ASSUME NEW f \in Fingers, press'[f] # Void
      PROVE  /\ batch'[press'[f].batch] # Void
             /\ press'[f].version < MaxVersion
             /\ press'[f].version <= batch'[press'[f].batch].version
             /\ press'[f].version = batch'[press'[f].batch].version
                  => /\ press'[f].selected = batch'[press'[f].batch].selected
                     /\ press'[f].target = batch'[press'[f].batch].target
             /\ press'[f].action = "confirm" => press'[f].value \in Targets
  <2>1. press'[f] = press[f] /\ press[f] # Void
    BY <1>3
  <2>2. press[f] \in Press /\ press[f].batch \in Batches /\ Seen(press[f])
    BY <2>1, TapFacts
  <2>3. CASE press[f].batch # b
    BY <1>1, <2>1, <2>2, <2>3 DEF Seen
  <2>4. CASE press[f].batch = b
    <3>1. batch[b] # Void /\ batch[b].version \in Nat /\ r.version \in Nat
          /\ press[f].version \in Nat
      BY <2>2, <2>4, RowFacts, BatchAssumption DEF Seen, Batch, Press
    <3>2. QED
      BY <1>1, <2>1, <2>2, <2>4, <3>1 DEF Seen
  <2>5. QED
    BY <2>3, <2>4
<1>4. QED
  BY <1>1, <1>2, <1>3 DEF BatchInv, BatchTypeOK, Seen

LEMMA CreateStep ==
  ASSUME BatchInv, NEW b \in Batches, CreateBatch(b)
  PROVE  BatchStep
<1> DEFINE r == [status |-> "selecting", selected |-> {}, target |-> Void, page |-> 0,
                 version |-> 0, late |-> FALSE, applied |-> 0, skipped |-> 0]
<1>1. batch' = [batch EXCEPT ![b] = r] /\ batch[b] = Void /\ UNCHANGED <<ending, press>>
  BY DEF CreateBatch
<1>2. r \in Batch /\ r.status = "selecting" /\ r.page = 0 /\ r.selected = {}
  BY BatchAssumption DEF Batch
<1> HIDE DEF r
<1>3. BatchRowSound(r)
  BY <1>2, FS_EmptySet, ShownFacts, PagesFacts, BatchAssumption DEF BatchRowSound
<1>4. batch'[b] = r /\ \A d \in Batches \ {b} : batch'[d] = batch[d]
  BY <1>1 DEF BatchInv, BatchTypeOK
<1>5. AppliedWhole'
  BY <1>1, <1>2, <1>4 DEF BatchInv, AppliedWhole, Active
<1>6. BatchInv'
  BY <1>1, <1>2, <1>3, <1>5, RowChanges DEF BatchInv, BatchTypeOK
<1>7. QED
  BY <1>1, <1>6 DEF BatchStep, AsShown, Stay

LEMMA ExpireStep ==
  ASSUME BatchInv, NEW b \in Batches, BatchExpires(b)
  PROVE  BatchStep
<1> DEFINE r == [batch[b] EXCEPT !.late = TRUE]
<1>1. batch' = [batch EXCEPT ![b] = r] /\ batch[b] # Void /\ UNCHANGED <<ending, press>>
  BY DEF BatchExpires
<1>2. /\ r \in Batch /\ r.status = batch[b].status /\ r.page = batch[b].page
      /\ r.selected = batch[b].selected /\ r.target = batch[b].target
      /\ r.version = batch[b].version /\ r.applied = batch[b].applied
      /\ r.skipped = batch[b].skipped
  <2>1. batch[b] \in Batch
    BY <1>1, RowFacts
  <2>2. QED
    BY <2>1 DEF Batch
<1> HIDE DEF r
<1>3. BatchRowSound(r)
  BY <1>1, <1>2, RowFacts DEF BatchRowSound, Shown
<1>4. batch'[b] = r /\ \A d \in Batches \ {b} : batch'[d] = batch[d]
  BY <1>1 DEF BatchInv, BatchTypeOK
<1>5. AppliedWhole'
  BY <1>1, <1>2, <1>4 DEF BatchInv, AppliedWhole, Active
<1>6. r.version >= batch[b].version
  BY <1>2, BatchAssumption DEF Batch
<1>7. BatchInv'
  BY <1>1, <1>2, <1>3, <1>5, <1>6, RowChanges DEF BatchInv, BatchTypeOK
<1>8. QED
  BY <1>1, <1>7 DEF BatchStep, AsShown, Stay

\* A screen shows its row, and an ending is offered only for what is selected.
LEMMA TapStep ==
  ASSUME BatchInv, NEW f \in Fingers, NEW b \in Batches, Tap(f, b)
  PROVE  BatchStep
<1>1. /\ press[f] = Void /\ batch[b] # Void /\ batch[b].version < MaxVersion
      /\ UNCHANGED <<batch, ending>>
  BY DEF Tap
<1>2. PICK a \in Buttons(batch[b]) : \E v \in Values(batch[b], a) :
        press' = [press EXCEPT ![f] =
          [batch |-> b, action |-> a, value |-> v, version |-> batch[b].version,
           selected |-> batch[b].selected, target |-> batch[b].target]]
  BY Zenon DEF Tap
<1>3. PICK v \in Values(batch[b], a) :
        press' = [press EXCEPT ![f] =
          [batch |-> b, action |-> a, value |-> v, version |-> batch[b].version,
           selected |-> batch[b].selected, target |-> batch[b].target]]
  BY <1>2, Zenon
<1> DEFINE p == [batch |-> b, action |-> a, value |-> v, version |-> batch[b].version,
                 selected |-> batch[b].selected, target |-> batch[b].target]
<1>4. a \in Actions
  BY <1>2 DEF Buttons, Actions
<1>5. v \in Listed \cup Targets \cup {0, Void} /\ (a = "confirm" => v \in Targets)
  <2>1. CASE a = "toggle"
    BY <1>3, <2>1 DEF Values, PageItems
  <2>2. CASE a = "confirm"
    BY <1>3, <2>2 DEF Values
  <2>3. CASE a = "page"
    <3>1. v \in 0..(Pages(Shown(batch[b])) - 1)
      BY <1>3, <2>3 DEF Values
    <3>2. Shown(batch[b]) \in 0..LastItem /\ Shown(batch[b]) \in Nat
      BY <1>1, RowFacts, ShownFacts
    <3>3. v \in 0..LastItem
      BY <3>1, <3>2, PagesFacts, BatchAssumption
    <3>4. QED
      BY <2>3, <3>3, BatchAssumption DEF Listed
  <2>4. CASE a \notin {"toggle", "confirm", "page"}
    BY <1>3, <2>4 DEF Values
  <2>5. QED
    BY <2>1, <2>2, <2>3, <2>4
<1>6. /\ p \in Press /\ p.batch = b /\ p.action = a /\ p.value = v
      /\ p.version = batch[b].version /\ p.selected = batch[b].selected
      /\ p.target = batch[b].target
  BY <1>1, <1>4, <1>5, RowFacts DEF Press, Batch
<1>7. press' = [press EXCEPT ![f] = p]
  BY <1>3
<1> HIDE DEF p
<1>8. /\ press' \in [Fingers -> Press \cup {Void}] /\ press'[f] = p
      /\ \A g \in Fingers \ {f} : press'[g] = press[g]
  BY <1>6, <1>7 DEF BatchInv, BatchTypeOK
<1>9. Seen(p)
  BY <1>1, <1>5, <1>6, RowFacts, BatchAssumption DEF Seen, Batch
<1>10. \A g \in Fingers : press'[g] # Void => Seen(press'[g])
  BY <1>8, <1>9, TapFacts
<1>11. BatchInv'
  BY <1>1, <1>8, <1>10 DEF BatchInv, BatchTypeOK, AppliedWhole, Active, Seen, BatchRowSound, Shown
<1>12. QED
  BY <1>1, <1>8, <1>11 DEF BatchStep, AsShown, Stay

\* What a tap was made on is what it is applied to: its version is still the row's.
LEMMA ApplyStep ==
  ASSUME BatchInv, NEW f \in Fingers, press[f] # Void, NEW b \in Batches, press[f].batch = b,
         Claimed(batch[b], press[f].version), batch[b].status = "confirming", Apply(b, batch[b]),
         press' = [press EXCEPT ![f] = Void]
  PROVE  BatchStep
<1> DEFINE row == batch[b]
           n == Cardinality(Active(row.selected))
           r == [Counted(row) EXCEPT !.status = "applied", !.version = @ + 1]
<1>1. row # Void /\ press[f].version = row.version /\ row.version < MaxVersion
  BY TapFacts DEF Seen, Claimed
<1>2. row \in Batch /\ BatchRowSound(row) /\ row.target \in Targets
  BY <1>1, RowFacts DEF BatchRowSound
<1>3. Active(row.selected) \in SUBSET Listed /\ row.selected \in SUBSET Listed
      /\ Active(row.selected) \subseteq row.selected
  BY <1>2 DEF Active, Batch
<1>4. n \in 0..LastItem /\ Cardinality(row.selected) \in 0..LastItem
      /\ n <= Cardinality(row.selected)
  BY <1>3, SelectionSize, FS_Subset
<1>5. /\ r \in Batch /\ r.status = "applied" /\ r.page = row.page /\ r.selected = row.selected
      /\ r.target = row.target /\ r.version = row.version + 1
      /\ r.applied = n /\ r.skipped = Cardinality(row.selected) - n
  <2>1. n \in 0..LastItem /\ Cardinality(row.selected) - n \in 0..LastItem
        /\ row.version + 1 \in 0..MaxVersion
    BY <1>1, <1>2, <1>4, BatchAssumption DEF Batch
  <2>2. r = [[[row EXCEPT !.applied = n, !.skipped = Cardinality(row.selected) - n]
                EXCEPT !.status = "applied"] EXCEPT !.version = row.version + 1]
    BY <1>2 DEF Counted, Batch
  <2> HIDE DEF n, r
  <2>3. QED
    BY <1>2, <2>1, <2>2 DEF Batch
<1>6. batch' = [batch EXCEPT ![b] = r] /\ ending' = Ended(row)
  BY DEF Apply
<1> HIDE DEF n, r
<1>7. BatchRowSound(r)
  <2>1. Shown(row) <= LastItem /\ Shown(r) = LastItem
    BY <1>2, <1>5, ShownFacts DEF Shown
  <2>2. Pages(Shown(row)) \in Nat /\ Pages(Shown(r)) \in Nat
        /\ Pages(Shown(row)) <= Pages(Shown(r))
    BY <1>2, <2>1, ShownFacts, PagesFacts, BatchAssumption
  <2>3. QED
    BY <1>2, <1>5, <2>2 DEF BatchRowSound, Batch
<1>8. /\ ending' \in [Listed -> Targets \cup {Void}] /\ Stay
      /\ \A i \in row.selected : ending'[i] # Void
  BY <1>2, <1>3, <1>6, BatchAssumption DEF Ended, Active, Stay, BatchInv, BatchTypeOK
<1>9. /\ press' \in [Fingers -> Press \cup {Void}] /\ press'[f] = Void
      /\ \A g \in Fingers \ {f} : press'[g] = press[g]
  BY DEF BatchInv, BatchTypeOK
<1>10. batch'[b] = r /\ \A d \in Batches \ {b} : batch'[d] = batch[d]
  BY <1>5, <1>6 DEF BatchInv, BatchTypeOK
<1>11. AppliedWhole'
  <2> SUFFICES ASSUME NEW d \in Batches, batch'[d] # Void, batch'[d].status = "applied"
               PROVE  /\ {i \in batch'[d].selected : ending'[i] = Void} = {}
                      /\ batch'[d].target # Void
                      /\ batch'[d].applied + batch'[d].skipped = Cardinality(batch'[d].selected)
    BY DEF AppliedWhole, Active
  <2>1. CASE d = b
    BY <1>2, <1>4, <1>5, <1>8, <1>10, <2>1, BatchAssumption
  <2>2. CASE d # b
    <3>1. batch[d] \in Batch /\ {i \in batch[d].selected : ending[i] = Void} = {}
          /\ batch[d].target # Void
          /\ batch[d].applied + batch[d].skipped = Cardinality(batch[d].selected)
      BY <1>10, <2>2, RowFacts DEF BatchInv, AppliedWhole, Active
    <3>2. QED
      BY <1>8, <1>10, <2>2, <3>1 DEF Batch, Stay
  <2>3. QED
    BY <2>1, <2>2
<1>12. BatchInv'
  <2>1. r.version >= row.version /\ r.version # row.version
    BY <1>2, <1>5, BatchAssumption DEF Batch
  <2>2. \A g \in Fingers : press'[g] # Void => press'[g] = press[g]
    BY <1>9
  <2>3. QED
    BY <1>5, <1>6, <1>7, <1>8, <1>9, <1>11, <2>1, <2>2, RowChanges
<1>13. AsShown
  <2> SUFFICES ASSUME NEW g \in Fingers, NEW d \in Batches, press[g] # Void, press'[g] = Void,
                      press[g].batch = d, batch'[d].status = "applied",
                      batch[d].status # "applied"
               PROVE  press[g].selected = batch[d].selected /\ press[g].target = batch[d].target
    BY DEF AsShown
  <2>1. g = f /\ d = b
    BY <1>9
  <2>2. QED
    BY <1>1, <2>1, TapFacts DEF Seen
<1>14. QED
  BY <1>8, <1>12, <1>13 DEF BatchStep

LEMMA ChangeStep ==
  ASSUME BatchInv, NEW f \in Fingers, press[f] # Void, NEW b \in Batches, press[f].batch = b,
         Claimed(batch[b], press[f].version),
         NEW c \in Changed(batch[b], press[f].action, press[f].value),
         batch' = [batch EXCEPT ![b] = [c EXCEPT !.version = @ + 1]],
         press' = [press EXCEPT ![f] = Void], UNCHANGED ending
  PROVE  BatchStep
<1> DEFINE row == batch[b]
           r == [c EXCEPT !.version = @ + 1]
<1>1. /\ row # Void /\ press[f] \in Press /\ press[f].version = row.version
      /\ row.version < MaxVersion /\ row.status \in Live
      /\ press[f].action = "confirm" => press[f].value \in Targets
  BY TapFacts DEF Seen, Claimed, Live
<1>2. row \in Batch /\ BatchRowSound(row) /\ press[f].action \in Actions
  BY <1>1, RowFacts DEF Press
<1>3. c \in Batch /\ BatchRowSound(c) /\ c.version = row.version /\ c.status # "applied"
  BY <1>1, <1>2, ChangedRow
<1>4. /\ r \in Batch /\ r.status = c.status /\ r.page = c.page /\ r.selected = c.selected
      /\ r.target = c.target /\ r.version = row.version + 1
  BY <1>1, <1>2, <1>3, BatchAssumption DEF Batch
<1>5. batch' = [batch EXCEPT ![b] = r]
  OBVIOUS
<1> HIDE DEF r
<1>6. BatchRowSound(r)
  BY <1>3, <1>4 DEF BatchRowSound, Shown
<1>7. batch'[b] = r /\ \A d \in Batches \ {b} : batch'[d] = batch[d]
  BY <1>4, <1>5 DEF BatchInv, BatchTypeOK
<1>8. /\ press' \in [Fingers -> Press \cup {Void}]
      /\ \A g \in Fingers : press'[g] # Void => press'[g] = press[g]
      /\ \A g \in Fingers : press[g] # Void /\ press'[g] = Void => g = f
  BY DEF BatchInv, BatchTypeOK
<1>9. AppliedWhole'
  BY <1>3, <1>4, <1>7 DEF BatchInv, AppliedWhole, Active
<1>10. r.version >= row.version /\ r.version # row.version
  BY <1>2, <1>4, BatchAssumption DEF Batch
<1>11. BatchInv'
  BY <1>4, <1>5, <1>6, <1>8, <1>9, <1>10, RowChanges DEF BatchInv, BatchTypeOK
<1>12. QED
  BY <1>3, <1>4, <1>7, <1>8, <1>11 DEF BatchStep, AsShown, Stay

\* A tap that is refused is forgotten.
LEMMA RefusedStep ==
  ASSUME BatchInv, NEW f \in Fingers, press' = [press EXCEPT ![f] = Void], UNCHANGED <<batch, ending>>
  PROVE  BatchStep
<1>1. /\ press' \in [Fingers -> Press \cup {Void}]
      /\ \A g \in Fingers : press'[g] # Void => press'[g] = press[g]
  BY DEF BatchInv, BatchTypeOK
<1>2. BatchInv'
  BY <1>1 DEF BatchInv, BatchTypeOK, AppliedWhole, Active, Seen, BatchRowSound, Shown
<1>3. QED
  BY <1>2 DEF BatchStep, AsShown, Stay

LEMMA LandStep ==
  ASSUME BatchInv, NEW f \in Fingers, ChangeSelection(f)
  PROVE  BatchStep
<1> DEFINE b == press[f].batch
           changed == Changed(batch[b], press[f].action, press[f].value)
<1>1. press[f] # Void /\ press' = [press EXCEPT ![f] = Void] /\ b \in Batches
  BY TapFacts DEF ChangeSelection
<1>2. \/ UNCHANGED <<batch, ending>>
      \/ Claimed(batch[b], press[f].version) /\ batch[b].status = "confirming" /\ Apply(b, batch[b])
      \/ /\ Claimed(batch[b], press[f].version) /\ UNCHANGED ending
         /\ \E r \in changed : batch' = [batch EXCEPT ![b] = [r EXCEPT !.version = @ + 1]]
  BY Zenon DEF ChangeSelection
<1> HIDE DEF b, changed
<1>3. CASE UNCHANGED <<batch, ending>>
  BY <1>1, <1>3, RefusedStep
<1>4. CASE Claimed(batch[b], press[f].version) /\ batch[b].status = "confirming" /\ Apply(b, batch[b])
  BY <1>1, <1>4, ApplyStep DEF b
<1>5. CASE /\ Claimed(batch[b], press[f].version) /\ UNCHANGED ending
           /\ \E r \in changed : batch' = [batch EXCEPT ![b] = [r EXCEPT !.version = @ + 1]]
  <2>1. PICK r \in changed : batch' = [batch EXCEPT ![b] = [r EXCEPT !.version = @ + 1]]
    BY <1>5, Zenon
  <2>2. QED
    BY <1>1, <1>5, <2>1, ChangeStep DEF b, changed
<1>6. QED
  BY <1>2, <1>3, <1>4, <1>5

\* Another door ends an item that had not ended.
LEMMA ElsewhereStep ==
  ASSUME BatchInv, NEW i \in Listed, EndElsewhere(i)
  PROVE  BatchStep
<1>1. /\ UNCHANGED <<batch, press>> /\ ending' \in [Listed -> Targets \cup {Void}] /\ Stay
  BY DEF EndElsewhere, BatchInv, BatchTypeOK, Stay
<1>2. AppliedWhole'
  <2> SUFFICES ASSUME NEW d \in Batches, batch[d] # Void, batch[d].status = "applied"
               PROVE  /\ {j \in batch[d].selected : ending'[j] = Void} = {}
                      /\ batch[d].target # Void
                      /\ batch[d].applied + batch[d].skipped = Cardinality(batch[d].selected)
    BY <1>1 DEF AppliedWhole, Active
  <2>1. batch[d] \in Batch /\ {j \in batch[d].selected : ending[j] = Void} = {}
        /\ batch[d].target # Void
        /\ batch[d].applied + batch[d].skipped = Cardinality(batch[d].selected)
    BY RowFacts DEF BatchInv, AppliedWhole, Active
  <2>2. QED
    BY <1>1, <2>1 DEF Batch, Stay
<1>3. BatchInv'
  BY <1>1, <1>2 DEF BatchInv, BatchTypeOK, Seen, BatchRowSound, Shown
<1>4. QED
  BY <1>1, <1>3 DEF BatchStep, AsShown

-----------------------------------------------------------------------------
(* The theorem.                                                            *)

LEMMA BatchStarts == BatchInit => BatchInv
BY DEF BatchInit, BatchInv, BatchTypeOK, AppliedWhole

LEMMA BatchStepSound == BatchInv /\ [BatchNext]_batchVars => BatchStep
<1> SUFFICES ASSUME BatchInv, [BatchNext]_batchVars PROVE BatchStep
  OBVIOUS
<1>1. ASSUME NEW b \in Batches, CreateBatch(b) \/ BatchExpires(b) PROVE BatchStep
  BY <1>1, CreateStep, ExpireStep
<1>2. ASSUME NEW f \in Fingers, NEW b \in Batches, Tap(f, b) PROVE BatchStep
  BY <1>2, TapStep
<1>3. ASSUME NEW f \in Fingers, ChangeSelection(f) PROVE BatchStep
  BY <1>3, LandStep
<1>4. ASSUME NEW i \in Listed, EndElsewhere(i) PROVE BatchStep
  BY <1>4, ElsewhereStep
<1>5. CASE UNCHANGED batchVars
  BY <1>5 DEF batchVars, BatchInv, BatchTypeOK, AppliedWhole, Active, Seen, BatchRowSound, Shown, BatchStep,
     AsShown, Stay
<1>6. QED
  BY <1>1, <1>2, <1>3, <1>4, <1>5, Zenon DEF BatchNext

LEMMA BatchInvGives == BatchInv => AppliedWhole /\ SelectionLimited /\ PageExists
BY DEF BatchInv, BatchRowSound, SelectionLimited, PageExists

\* Whichever fingers tap which old screens, and whatever ends items elsewhere: what
\* is applied is what the tapped screen showed, it is applied whole and counted once,
\* no ending is overwritten, and limit and pages hold (change_selection).
THEOREM BatchesAreSound == BatchSpec => BatchesSound
<1>1. BatchInit => BatchInv
  BY BatchStarts
<1>2. BatchInv /\ [BatchNext]_batchVars => BatchInv' /\ [AsShown]_batchVars /\ [Stay]_batchVars
  BY BatchStepSound DEF BatchStep
<1>3. BatchInv => AppliedWhole /\ SelectionLimited /\ PageExists
  BY BatchInvGives
<1>4. QED
  BY <1>1, <1>2, <1>3, PTL
     DEF BatchSpec, BatchesSound, AppliesWhatWasShown, EndingsStay, AsShown, Stay

\* Every row and tap is of its type: no page beyond the items, no version beyond the taps.
THEOREM BatchTypeCorrect == BatchSpec => []BatchTypeOK
<1>1. BatchInit => BatchInv
  BY BatchStarts
<1>2. BatchInv /\ [BatchNext]_batchVars => BatchInv'
  BY BatchStepSound DEF BatchStep
<1>3. BatchInv => BatchTypeOK
  BY DEF BatchInv
<1>4. QED
  BY <1>1, <1>2, <1>3, PTL DEF BatchSpec

-----------------------------------------------------------------------------
(* Shopping.                                                               *)
(* The foods of the list that are not bought are all different, since      *)
(* whatever is added was not among them.                                   *)

ShopInv == ShopTypeOK /\ ListedOnce /\ FavoriteOnce

\* What a step does to the rows.
ShopStep == BoughtStays /\ LeavesWhenBought /\ CardIsCovered

\* The names of a set in some order.
LEMMA InSomeOrder ==
  ASSUME NEW names, IsFiniteSet(names)
  PROVE  /\ Cardinality(names) \in Nat
         /\ SetToSeq(names) \in [1..Cardinality(names) -> names]
         /\ \A m, n \in 1..Cardinality(names) : SetToSeq(names)[m] = SetToSeq(names)[n] => m = n
         /\ \A food \in names : \E n \in 1..Cardinality(names) : SetToSeq(names)[n] = food
<1> DEFINE size == Cardinality(names)
           order == SetToSeq(names)
<1>1. size \in Nat /\ ExistsBijection(1..size, names)
  BY FS_CardinalityType
<1>2. \E f \in [1..size -> names] : IsInjective(f)
  BY <1>1 DEF ExistsBijection, Bijection, Injection
<1>3. order \in [1..size -> names] /\ IsInjective(order)
  BY <1>2 DEF SetToSeq
<1>4. IsFiniteSet(1..size) /\ Cardinality(1..size) = size
  <2>1. 1 \in Int /\ size \in Int
    BY <1>1
  <2>2. Cardinality(1..size) = IF 1 > size THEN 0 ELSE size - 1 + 1
    BY <2>1, FS_Interval
  <2>3. QED
    BY <1>1, <2>1, <2>2, FS_Interval
<1> HIDE DEF size, order
<1>5. order \in Injection(1..size, names)
  BY <1>3 DEF Injection
<1>6. order \in Surjection(1..size, names)
  BY <1>4, <1>5, FS_Injection DEF size
<1>7. QED
  BY <1>1, <1>3, <1>6 DEF IsInjective, Surjection, size, order

LEMMA ListedRows ==
  ASSUME ShopTypeOK
  PROVE  /\ Len(listed) \in Nat /\ DOMAIN listed = 1..Len(listed)
         /\ listed \in [1..Len(listed) -> Row]
         /\ \A i \in DOMAIN listed : listed[i] \in Row
BY LenProperties DEF ShopTypeOK

\* The rows that a list of names adds.
NewRows(names) ==
  [n \in 1..Cardinality(Unlisted(names)) |->
     [food |-> SetToSeq(Unlisted(names))[n], bought |-> FALSE]]

LEMMA NewRowsAre ==
  ASSUME ShopTypeOK, NEW names \in Sayings
  PROVE  /\ NewRows(names) \in Seq(Row) /\ Len(NewRows(names)) = Cardinality(Unlisted(names))
         /\ \A n \in 1..Len(NewRows(names)) :
               NewRows(names)[n].food \in Unlisted(names) /\ ~NewRows(names)[n].bought
         /\ \A m, n \in 1..Len(NewRows(names)) :
               NewRows(names)[m].food = NewRows(names)[n].food => m = n
         /\ \A food \in Unlisted(names) : \E n \in 1..Len(NewRows(names)) :
               NewRows(names)[n].food = food
<1> DEFINE new == Unlisted(names)
           size == Cardinality(new)
           order == SetToSeq(new)
           rows == [n \in 1..size |-> [food |-> order[n], bought |-> FALSE]]
<1>1. new \subseteq Foods /\ IsFiniteSet(new)
  <2>1. new \subseteq Foods
    BY DEF Sayings, Unlisted
  <2>2. IsFiniteSet(Foods)
    BY ShoppingAssumption
  <2>3. QED
    BY <2>1, <2>2, FS_Subset
<1>2. /\ size \in Nat /\ order \in [1..size -> new]
      /\ \A m, n \in 1..size : order[m] = order[n] => m = n
      /\ \A food \in new : \E n \in 1..size : order[n] = food
  BY <1>1, InSomeOrder
<1>3. NewRows(names) = rows
  BY DEF NewRows
<1> HIDE DEF new, size, order
<1>4. rows \in [1..size -> Row]
  BY <1>1, <1>2 DEF Row
<1>5. rows \in Seq(Row) /\ Len(rows) = size
  BY <1>2, <1>4, SeqDef
<1>6. \A n \in 1..size : rows[n].food = order[n] /\ rows[n].bought = FALSE
  OBVIOUS
<1> HIDE DEF rows
<1>7. /\ \A n \in 1..size : rows[n].food \in new /\ ~rows[n].bought
      /\ \A m, n \in 1..size : rows[m].food = rows[n].food => m = n
      /\ \A food \in new : \E n \in 1..size : rows[n].food = food
  BY <1>2, <1>6
<1>8. QED
  BY <1>3, <1>5, <1>7 DEF new, size

\* Names are added to the list.
LEMMA NamesAdded ==
  ASSUME ShopInv, NEW names \in Sayings, AddMissing(names)
  PROVE  /\ ShopInv' /\ BoughtStays /\ \A i \in PendingRows : ~listed'[i].bought
         /\ names \ {Blank} \subseteq PendingFoods'
<1> DEFINE rows == NewRows(names)
           was == Len(listed)
           more == Len(rows)
           new == Unlisted(names)
<1>1. /\ listed' = listed \o rows /\ was + more <= MaxListed
      /\ UNCHANGED <<favorites, cooked, stocked>> /\ ShopTypeOK
  BY NewRowsAre DEF AddMissing, ShopInv, NewRows
<1>2. /\ rows \in Seq(Row)
      /\ \A n \in 1..more : rows[n].food \in new /\ ~rows[n].bought
      /\ \A m, n \in 1..more : rows[m].food = rows[n].food => m = n
      /\ \A food \in new : \E n \in 1..more : rows[n].food = food
  BY <1>1, NewRowsAre
<1>3. listed \in Seq(Row) /\ was \in Nat /\ more \in Nat
  BY <1>1, <1>2, LenProperties DEF ShopTypeOK
<1>4. /\ listed' \in Seq(Row) /\ Len(listed') = was + more
      /\ \A i \in 1..was + more : listed'[i] = IF i <= was THEN listed[i] ELSE rows[i - was]
  BY <1>1, <1>2, <1>3, ConcatProperties
<1>5. DOMAIN listed = 1..was /\ DOMAIN listed' = 1..was + more
  BY <1>3, <1>4, LenProperties
<1> HIDE DEF rows, was, more, new
<1>6. \A i \in 1..was : i \in 1..was + more /\ listed'[i] = listed[i]
  BY <1>3, <1>4
<1>7. \A n \in 1..more : was + n \in 1..was + more /\ listed'[was + n] = rows[n]
  <2>1. ASSUME NEW n \in 1..more PROVE was + n \in 1..was + more /\ listed'[was + n] = rows[n]
    <3>1. n \in Nat /\ 1 <= n /\ n <= more
      BY <1>3, <2>1
    <3>2. was + n \in 1..was + more /\ ~(was + n <= was) /\ (was + n) - was = n
      BY <1>3, <3>1
    <3>3. QED
      BY <1>4, <3>2
  <2>2. QED
    BY <2>1
<1>8. \A i \in 1..was + more : i \in 1..was \/ \E n \in 1..more : i = was + n
  <2>1. ASSUME NEW i \in 1..was + more, ~(i \in 1..was) PROVE i - was \in 1..more /\ i = was + (i - was)
    BY <1>3, <2>1
  <2>2. QED
    BY <2>1
<1>9. ShopTypeOK'
  <2>1. Len(listed') <= MaxListed
    BY <1>1, <1>4 DEF was, more
  <2>2. QED
    BY <1>1, <1>4, <2>1 DEF ShopTypeOK
<1>10. \A i \in PendingRows : i \in 1..was /\ ~listed[i].bought /\ ~listed'[i].bought /\ i \in PendingRows'
  BY <1>5, <1>6 DEF PendingRows
<1>11. \A food \in new : food \notin PendingFoods /\ food # Blank
  BY DEF new, Unlisted
<1>12. ListedOnce'
  <2>1. ASSUME NEW i \in 1..was, NEW n \in 1..more, ~listed[i].bought PROVE listed[i].food # rows[n].food
    <3>1. listed[i].food \in PendingFoods
      BY <1>5, <2>1 DEF PendingFoods, PendingRows
    <3>2. QED
      BY <1>2, <1>11, <3>1
  <2>2. ASSUME NEW i \in PendingRows', NEW j \in PendingRows', listed'[i].food = listed'[j].food
        PROVE  i = j
    <3>1. i \in 1..was + more /\ j \in 1..was + more /\ ~listed'[i].bought /\ ~listed'[j].bought
      BY <1>5, <2>2 DEF PendingRows
    <3>2. CASE i \in 1..was /\ j \in 1..was
      <4>1. i \in PendingRows /\ j \in PendingRows /\ listed[i].food = listed[j].food
        BY <1>5, <1>6, <2>2, <3>1, <3>2 DEF PendingRows
      <4>2. QED
        BY <4>1 DEF ShopInv, ListedOnce
    <3>3. CASE i \in 1..was /\ j \notin 1..was
      <4>1. PICK n \in 1..more : j = was + n
        BY <1>8, <3>1, <3>3
      <4>2. QED
        BY <1>6, <1>7, <2>1, <2>2, <3>1, <3>3, <4>1
    <3>4. CASE i \notin 1..was /\ j \in 1..was
      <4>1. PICK n \in 1..more : i = was + n
        BY <1>8, <3>1, <3>4
      <4>2. QED
        BY <1>6, <1>7, <2>1, <2>2, <3>1, <3>4, <4>1
    <3>5. CASE i \notin 1..was /\ j \notin 1..was
      <4>1. PICK m \in 1..more : i = was + m
        BY <1>8, <3>1, <3>5
      <4>2. PICK n \in 1..more : j = was + n
        BY <1>8, <3>1, <3>5
      <4>3. QED
        BY <1>2, <1>7, <2>2, <4>1, <4>2
    <3>6. QED
      BY <3>2, <3>3, <3>4, <3>5
  <2>3. QED
    BY <2>2 DEF ListedOnce
<1>13. FavoriteOnce'
  BY <1>1 DEF ShopInv, FavoriteOnce
<1>14. BoughtStays
  BY <1>5, <1>6 DEF BoughtStays
<1>15. names \ {Blank} \subseteq PendingFoods'
  <2>1. ASSUME NEW food \in names \ {Blank} PROVE food \in PendingFoods'
    <3>1. CASE food \in new
      <4>1. PICK n \in 1..more : rows[n].food = food
        BY <1>2, <3>1
      <4>2. was + n \in PendingRows' /\ listed'[was + n].food = food
        BY <1>2, <1>5, <1>7, <4>1 DEF PendingRows
      <4>3. QED
        BY <4>2 DEF PendingFoods
    <3>2. CASE food \notin new
      <4>1. food \in PendingFoods
        BY <2>1, <3>2 DEF new, Unlisted
      <4>2. PICK i \in PendingRows : listed[i].food = food
        BY <4>1 DEF PendingFoods
      <4>3. i \in PendingRows' /\ listed'[i].food = food
        BY <1>6, <1>10, <4>2
      <4>4. QED
        BY <4>3 DEF PendingFoods
    <3>3. QED
      BY <3>1, <3>2
  <2>2. QED
    BY <2>1
<1>16. QED
  BY <1>9, <1>10, <1>12, <1>13, <1>14, <1>15 DEF ShopInv

\* The card chosen is one of the cards.
LEMMA CardIs ==
  ASSUME cooked.cards \in Seq(ShopDishes), cooked.chosen \in Nat, cooked.cards # <<>>
  PROVE  Card \in ShopDishes
<1> DEFINE cards == cooked.cards
           chosen == cooked.chosen
<1>1. /\ Len(cards) \in Nat /\ Len(cards) > 0
      /\ \A n \in 1..Len(cards) : cards[n] \in ShopDishes
  BY LenProperties, EmptySeq, ElementOfSeq
<1>2. 1 \in 1..Len(cards)
  BY <1>1
<1>3. chosen < Len(cards) => chosen + 1 \in 1..Len(cards)
  BY <1>1
<1>4. QED
  BY <1>1, <1>2, <1>3 DEF Card

\* Rows are checked off.
LEMMA CheckedOff ==
  ASSUME ShopInv, NEW rows, CheckOff(rows), UNCHANGED <<favorites, cooked>>,
         stocked' \subseteq Foods
  PROVE  /\ ShopInv' /\ BoughtStays
         /\ \A i \in PendingRows : listed'[i].bought => i \in rows
<1>1. ShopTypeOK
  BY DEF ShopInv
<1>2. /\ Len(listed) \in Nat /\ DOMAIN listed = 1..Len(listed)
      /\ listed \in [1..Len(listed) -> Row] /\ \A i \in DOMAIN listed : listed[i] \in Row
  BY <1>1, ListedRows
<1>3. \A i \in DOMAIN listed : [listed[i] EXCEPT !.bought = @ \/ i \in rows] \in Row
  BY <1>2 DEF Row
<1>4. listed' \in [1..Len(listed) -> Row]
  BY <1>2, <1>3 DEF CheckOff
<1>5. listed' \in Seq(Row) /\ Len(listed') = Len(listed) /\ DOMAIN listed' = DOMAIN listed
  BY <1>2, <1>4, SeqDef
<1>6. \A i \in DOMAIN listed : /\ listed'[i].food = listed[i].food
                               /\ listed'[i].bought = (listed[i].bought \/ i \in rows)
  BY <1>2 DEF CheckOff, Row
<1>7. ShopTypeOK'
  BY <1>1, <1>5 DEF ShopTypeOK
<1>8. PendingRows' \subseteq PendingRows
  BY <1>5, <1>6 DEF PendingRows
<1>9. ListedOnce'
  BY <1>6, <1>8 DEF ShopInv, ListedOnce, PendingRows
<1>10. FavoriteOnce'
  BY DEF ShopInv, FavoriteOnce
<1>11. BoughtStays
  BY <1>5, <1>6 DEF BoughtStays
<1>12. \A i \in PendingRows : listed'[i].bought => i \in rows
  BY <1>6 DEF PendingRows
<1>13. QED
  BY <1>7, <1>9, <1>10, <1>11, <1>12 DEF ShopInv

LEMMA FavoriteSaved ==
  ASSUME ShopInv, SaveCandidate
  PROVE  ShopInv' /\ UNCHANGED <<listed, cooked, stocked>>
<1>1. /\ favorites \in Seq(ShopDishes) /\ cooked.cards \in Seq(ShopDishes) /\ cooked.chosen \in Nat
      /\ cooked.cards # <<>> /\ favorites' = Append(favorites, Card)
      /\ \A i \in DOMAIN favorites : favorites[i] # Card
      /\ UNCHANGED <<listed, cooked, stocked>>
  BY DEF ShopInv, ShopTypeOK, SaveCandidate
<1>2. Card \in ShopDishes
  BY <1>1, CardIs
<1>3. favorites' \in Seq(ShopDishes)
  BY <1>1, <1>2, AppendProperties
<1>4. Len(favorites) \in Nat /\ DOMAIN favorites = 1..Len(favorites)
  BY <1>1, LenProperties
<1>5. DOMAIN favorites' = 1..Len(favorites) + 1 /\ favorites'[Len(favorites) + 1] = Card
      /\ \A i \in 1..Len(favorites) : favorites'[i] = favorites[i]
  <2>1. Len(favorites') = Len(favorites) + 1
    BY <1>1, <1>2, AppendProperties
  <2>2. \A i \in 1..Len(favorites) + 1 :
           favorites'[i] = IF i <= Len(favorites) THEN favorites[i] ELSE Card
    BY <1>1, <1>2, AppendProperties
  <2>3. QED
    BY <1>3, <1>4, <2>1, <2>2, LenProperties
<1>6. FavoriteOnce'
  <2>1. ASSUME NEW i \in DOMAIN favorites', NEW j \in DOMAIN favorites', i # j,
               favorites'[i] = favorites'[j]
        PROVE  FALSE
    <3>1. CASE i \in 1..Len(favorites) /\ j \in 1..Len(favorites)
      BY <1>4, <1>5, <2>1, <3>1 DEF ShopInv, FavoriteOnce
    <3>2. CASE i = Len(favorites) + 1 /\ j \in 1..Len(favorites)
      BY <1>1, <1>4, <1>5, <2>1, <3>2
    <3>3. CASE i \in 1..Len(favorites) /\ j = Len(favorites) + 1
      BY <1>1, <1>4, <1>5, <2>1, <3>3
    <3>4. QED
      BY <1>4, <1>5, <2>1, <3>1, <3>2, <3>3
  <2>2. QED
    BY <2>1 DEF FavoriteOnce
<1>7. ShopTypeOK'
  BY <1>1, <1>3 DEF ShopInv, ShopTypeOK
<1>8. ListedOnce'
  BY <1>1 DEF ShopInv, ListedOnce, PendingRows
<1>9. QED
  BY <1>1, <1>6, <1>7, <1>8 DEF ShopInv

LEMMA CardsAre == ASSUME NEW cards \in Cards PROVE cards \in Seq(ShopDishes)
<1>1. CASE cards \in {<<a>> : a \in ShopDishes}
  <2>1. PICK a \in ShopDishes : cards = <<a>>
    BY <1>1
  <2>2. QED
    BY <2>1
<1>2. CASE cards \in ShopDishes \X ShopDishes
  <2>1. PICK a \in ShopDishes, b \in ShopDishes : cards = <<a, b>>
    BY <1>2
  <2>2. QED
    BY <2>1
<1>3. QED
  BY <1>1, <1>2 DEF Cards

LEMMA ShopSteps == ASSUME ShopInv, [ShopNext]_shopVars PROVE ShopInv' /\ [ShopStep]_shopVars
<1>1. ShopTypeOK
  BY DEF ShopInv
<1>2. ASSUME UNCHANGED <<listed, favorites>>, ShopTypeOK', ~CookShop
      PROVE  ShopInv' /\ ShopStep
  <2>1. ListedOnce' /\ FavoriteOnce'
    BY <1>2 DEF ShopInv, ListedOnce, PendingRows, FavoriteOnce
  <2>2. ShopStep
    BY <1>2 DEF ShopStep, BoughtStays, LeavesWhenBought, CardIsCovered, PendingRows
  <2>3. QED
    BY <1>2, <2>1, <2>2 DEF ShopInv
<1>3. CASE CookShop
  <2>1. /\ Card \in ShopDishes /\ AddMissing(Card \ stocked)
    BY <1>1, <1>3, CardIs DEF CookShop, ShopTypeOK
  <2>2. Card \ stocked \in Sayings
    BY <2>1, ShoppingAssumption DEF Sayings
  <2>3. /\ ShopInv' /\ BoughtStays /\ \A i \in PendingRows : ~listed'[i].bought
        /\ (Card \ stocked) \ {Blank} \subseteq PendingFoods'
    BY <2>1, <2>2, NamesAdded
  <2>4. QED
    BY <2>3 DEF ShopStep, LeavesWhenBought, CardIsCovered
<1>4. ASSUME ~CookShop, NEW names \in Sayings, PlanShop(names) \/ SpokenAdd(names)
      PROVE  ShopInv' /\ ShopStep
  <2>1. AddMissing(names)
    BY <1>4 DEF PlanShop, SpokenAdd
  <2>2. ShopInv' /\ BoughtStays /\ \A i \in PendingRows : ~listed'[i].bought
    BY <2>1, NamesAdded
  <2>3. QED
    BY <1>4, <2>2 DEF ShopStep, LeavesWhenBought, CardIsCovered
<1>5. ASSUME ~CookShop, NEW names \in Sayings, SpokenRemove(names) \/ ReceiptSaved(names)
      PROVE  ShopInv' /\ ShopStep
  <2>1. CheckOff(Purchased(names)) /\ UNCHANGED <<favorites, cooked>> /\ stocked' \subseteq Foods
    BY <1>1, <1>5 DEF SpokenRemove, ReceiptSaved, ShopTypeOK, Sayings
  <2>2. /\ ShopInv' /\ BoughtStays
        /\ \A i \in PendingRows : listed'[i].bought => i \in Purchased(names)
    BY <2>1, CheckedOff
  <2>3. \A i \in PendingRows : listed'[i].bought => listed[i].food \in names
    BY <2>2 DEF Purchased
  <2>4. LeavesWhenBought
    BY <1>5, <2>3 DEF LeavesWhenBought
  <2>5. QED
    BY <1>5, <2>2, <2>4 DEF ShopStep, CardIsCovered
<1>6. ASSUME ~CookShop, NEW row \in 1..MaxListed, ShopDone(row)
      PROVE  ShopInv' /\ ShopStep
  <2>1. CheckOff({row}) /\ UNCHANGED <<favorites, cooked>> /\ stocked' \subseteq Foods
    BY <1>1, <1>6 DEF ShopDone, ShopTypeOK
  <2>2. /\ ShopInv' /\ BoughtStays
        /\ \A i \in PendingRows : listed'[i].bought => i = row
    BY <2>1, CheckedOff
  <2>3. LeavesWhenBought
    BY <1>6, <2>2 DEF LeavesWhenBought
  <2>4. QED
    BY <1>6, <2>2, <2>3 DEF ShopStep, CardIsCovered
<1>7. ASSUME ~CookShop, SaveCandidate PROVE ShopInv' /\ ShopStep
  <2>1. ShopInv' /\ UNCHANGED <<listed, cooked, stocked>>
    BY <1>7, FavoriteSaved
  <2>2. ShopStep
    BY <1>7, <2>1 DEF ShopStep, BoughtStays, LeavesWhenBought, CardIsCovered, PendingRows
  <2>3. QED
    BY <2>1, <2>2
<1>8. CASE ~CookShop /\ CardsChange
  <2>1. PICK cards \in Cards, index \in 0..1 : cooked' = [cards |-> cards, chosen |-> index]
    BY <1>8 DEF CardsChange
  <2>2. cards \in Seq(ShopDishes) /\ index \in Nat
    BY <2>1, CardsAre
  <2>3. ShopTypeOK' /\ UNCHANGED <<listed, favorites>>
    BY <1>1, <1>8, <2>1, <2>2 DEF CardsChange, ShopTypeOK
  <2>4. QED
    BY <1>2, <1>8, <2>3
<1>9. CASE ~CookShop /\ PantryMoves
  BY <1>1, <1>2, <1>9 DEF PantryMoves, ShopTypeOK
<1>10. CASE UNCHANGED shopVars
  BY <1>10 DEF shopVars, ShopInv, ShopTypeOK, ListedOnce, FavoriteOnce, PendingRows
<1>11. QED
  BY <1>3, <1>4, <1>5, <1>6, <1>7, <1>8, <1>9, <1>10 DEF ShopNext

LEMMA ShopInductive == ShopSpec => []ShopInv
<1>1. ShopInit => ShopInv
  <2>1. <<>> \in Seq(Row) /\ <<>> \in Seq(ShopDishes) /\ Len(<<>>) = 0 /\ DOMAIN <<>> = {}
    OBVIOUS
  <2>2. QED
    BY <2>1, ShoppingAssumption
    DEF ShopInit, ShopInv, ShopTypeOK, ListedOnce, FavoriteOnce, PendingRows
<1>2. ShopInv /\ [ShopNext]_shopVars => ShopInv'
  BY ShopSteps
<1>3. QED
  BY <1>1, <1>2, PTL DEF ShopSpec

\* A food is on the list once while it is to be bought and a recipe once among the
\* favourites, what was bought stays bought, a row leaves the list only when its
\* food was, and what the chosen card needs is in the pantry or on the list
\* (add_missing, check_off_purchased_names, save_candidate).
THEOREM ShoppingIsSound == ShopSpec => ShoppingSound
<1>1. ShopInv => ListedOnce /\ FavoriteOnce
  BY DEF ShopInv
<1>2. ShopInv /\ [ShopNext]_shopVars
      => [BoughtStays /\ LeavesWhenBought /\ CardIsCovered]_shopVars
  BY ShopSteps DEF ShopStep
<1>3. QED
  BY <1>1, <1>2, ShopInductive, PTL DEF ShopSpec, ShoppingSound

\* The rows of the list and of the favourites are what their tables say they are.
THEOREM ShopTypeCorrect == ShopSpec => []ShopTypeOK
<1>1. ShopInv => ShopTypeOK
  BY DEF ShopInv
<1>2. QED
  BY <1>1, ShopInductive, PTL

-----------------------------------------------------------------------------
(* Workspace.                                                              *)
(* A running action belongs to the workspace's household or has been       *)
(* cancelled, and then nothing is left for it to show; and a workspace     *)
(* remembers every request that was begun in it, while its ids only grow.  *)

CardsOf(home) == [key : 1..LastCard, edit : 0..LastEdit, home : {home}]

OneHousehold == space # Vacant => space.cards \in Seq(CardsOf(space.home))

BusyAtHome ==
  Busy => /\ space # Vacant
          /\ action.live => action.home = space.home
          /\ ~action.live => space.cards = <<>>

ReadInSpace == reading # {} => space # Vacant

IdsGrow ==
  /\ space # Vacant => space.id <= opened
  /\ screen.id <= opened
  /\ \A q \in Calls : body[q] # Vacant => body[q].id <= opened

BegunIsKnown ==
  \A q \in Calls :
    /\ begun[q] <= 1
    /\ begun[q] # 0 => /\ body[q] # Vacant
                       /\ space # Vacant /\ body[q].id = space.id => q \in space.asked

SpaceInv ==
  /\ SpaceTypeOK /\ OneHousehold /\ BusyAtHome /\ ReadInSpace /\ IdsGrow
  /\ BegunIsKnown /\ CardsBounded
-----------------------------------------------------------------------------
(* Cards.                                                                  *)

LEMMA CardsAreShown ==
  ASSUME NEW home \in Homes \cup {Vacant}, NEW cards \in Seq(CardsOf(home))
  PROVE  cards \in Seq(ShownCard)
<1>1. CardsOf(home) \subseteq ShownCard
  BY DEF CardsOf, ShownCard
<1>2. QED
  BY <1>1, SeqMonotonic

\* Receipts rendered again stay the cards of their household, as many as they were.
LEMMA RenderedCards ==
  ASSUME NEW home, NEW cards \in Seq(CardsOf(home)), NEW again
  PROVE  /\ Rendered(cards, again) \in Seq(CardsOf(home))
         /\ Len(Rendered(cards, again)) = Len(cards)
<1> DEFINE n == Len(cards)
           card(i) == IF cards[i].key \in again /\ cards[i].edit < LastEdit
                      THEN [cards[i] EXCEPT !.edit = @ + 1] ELSE cards[i]
<1>1. n \in Nat /\ DOMAIN cards = 1..n
  BY LenProperties
<1>2. \A i \in 1..n : card(i) \in CardsOf(home)
  <2> TAKE i \in 1..n
  <2>1. cards[i] \in CardsOf(home)
    BY ElementOfSeq
  <2>2. CASE cards[i].key \in again /\ cards[i].edit < LastEdit
    <3>1. cards[i].edit \in Nat /\ cards[i].edit + 1 \in 0..LastEdit
      BY <2>1, <2>2, WorkspaceAssumption DEF CardsOf
    <3>2. [cards[i] EXCEPT !.edit = @ + 1] \in CardsOf(home)
      BY <2>1, <3>1 DEF CardsOf
    <3>3. QED
      BY <2>2, <3>2
  <2>3. CASE ~(cards[i].key \in again /\ cards[i].edit < LastEdit)
    BY <2>1, <2>3
  <2>4. QED
    BY <2>2, <2>3
<1> HIDE DEF card
<1>3. [i \in 1..n |-> card(i)] \in [1..n -> CardsOf(home)]
  BY <1>2
<1>4. Rendered(cards, again) = [i \in 1..n |-> card(i)]
  BY <1>1 DEF Rendered, card
<1>5. Rendered(cards, again) \in Seq(CardsOf(home))
  BY <1>1, <1>3, <1>4, SeqDef
<1>6. DOMAIN Rendered(cards, again) = 1..Len(Rendered(cards, again))
      /\ Len(Rendered(cards, again)) \in Nat
  BY <1>5, LenProperties
<1>7. QED
  BY <1>1, <1>4, <1>5, <1>6

\* Of too many cards the newest are kept.
LEMMA KeptCards ==
  ASSUME NEW home, NEW cards \in Seq(CardsOf(home))
  PROVE  Kept(cards) \in Seq(CardsOf(home)) /\ Len(Kept(cards)) <= MaxCards
<1>1. Len(cards) \in Nat /\ MaxCards \in Nat
  BY LenProperties, WorkspaceAssumption
<1>2. CASE Len(cards) > MaxCards
  <2> DEFINE m == Len(cards) - MaxCards + 1
  <2>1. m \in 1..(Len(cards) + 1) /\ m \in Int /\ Len(cards) \in Int
    BY <1>1, <1>2
  <2>2. \A i \in m..Len(cards) : cards[i] \in CardsOf(home)
    BY <2>1, ElementOfSeq
  <2>3. /\ SubSeq(cards, m, Len(cards)) \in Seq(CardsOf(home))
        /\ Len(SubSeq(cards, m, Len(cards))) =
             IF m <= Len(cards) THEN Len(cards) - m + 1 ELSE 0
    BY <2>1, <2>2, SubSeqProperties
  <2>4. QED
    BY <1>1, <1>2, <2>3 DEF Kept
<1>3. CASE ~(Len(cards) > MaxCards)
  BY <1>1, <1>3 DEF Kept
<1>4. QED
  BY <1>2, <1>3

LEMMA RemainingCards ==
  ASSUME NEW home, NEW cards \in Seq(CardsOf(home)), NEW i \in DOMAIN cards
  PROVE  RemoveAt(cards, i) \in Seq(CardsOf(home))
<1>1. Len(cards) \in Nat /\ i \in 1..Len(cards)
  BY LenProperties
<1>2. \A j \in 1..Len(cards) : cards[j] \in CardsOf(home)
  BY ElementOfSeq
<1>3. SubSeq(cards, 1, i - 1) \in Seq(CardsOf(home))
  <2>1. \A j \in 1..(i - 1) : cards[j] \in CardsOf(home)
    BY <1>1, <1>2
  <2>2. 1 \in Int /\ i - 1 \in Int
    BY <1>1
  <2>3. QED
    BY <2>1, <2>2, SubSeqProperties
<1>4. SubSeq(cards, i + 1, Len(cards)) \in Seq(CardsOf(home))
  <2>1. \A j \in (i + 1)..Len(cards) : cards[j] \in CardsOf(home)
    BY <1>1, <1>2
  <2>2. i + 1 \in Int /\ Len(cards) \in Int
    BY <1>1
  <2>3. QED
    BY <2>1, <2>2, SubSeqProperties
<1>5. QED
  BY <1>3, <1>4, ConcatProperties DEF RemoveAt

-----------------------------------------------------------------------------
(* What every request does first.                                          *)

LEMMA SpaceFacts ==
  ASSUME SpaceInv, space # Vacant
  PROVE  /\ space \in OpenSpace /\ space.id \in Nat /\ space.home \in Homes \cup {Vacant}
         /\ space.cards \in Seq(CardsOf(space.home)) /\ space.asked \subseteq Calls
BY DEF SpaceInv, SpaceTypeOK, OpenSpace, OneHousehold

LEMMA ActionFacts ==
  ASSUME SpaceInv, Busy
  PROVE  action \in RunningAction /\ action.live \in BOOLEAN /\ space # Vacant
BY DEF SpaceInv, SpaceTypeOK, Busy, RunningAction, BusyAtHome

\* A workspace whose cards change, of the same household.
LEMMA CardsMove ==
  ASSUME SpaceInv, space # Vacant, NEW cards \in Seq(CardsOf(space.home))
  PROVE  LET s == [space EXCEPT !.cards = cards]
         IN  /\ s \in OpenSpace /\ s # Vacant /\ s.cards = cards
             /\ s.id = space.id /\ s.home = space.home /\ s.asked = space.asked
<1>1. cards \in Seq(ShownCard)
  BY SpaceFacts, CardsAreShown
<1>2. QED
  BY <1>1, SpaceFacts, WorkspaceAssumption DEF OpenSpace

LEMMA EmptiedSpace ==
  ASSUME SpaceInv, space # Vacant
  PROVE  /\ Emptied(space) \in OpenSpace /\ Emptied(space) # Vacant
         /\ Emptied(space).cards = <<>> /\ Emptied(space).home = member
         /\ Emptied(space).id = space.id /\ Emptied(space).asked = space.asked
<1>1. member \in Homes \cup {Vacant} /\ <<>> \in Seq(ShownCard)
  BY EmptySeq DEF SpaceInv, SpaceTypeOK
<1>2. QED
  BY <1>1, SpaceFacts, WorkspaceAssumption DEF Emptied, OpenSpace

\* The workspace a request works in, and the action it may cancel.
Served ==
  /\ space' \in OpenSpace /\ space' # Vacant /\ action' \in RunningAction \cup {Vacant}
  /\ opened' \in 0..LastSpace /\ opened <= opened' /\ space'.id <= opened'
  /\ OneHousehold' /\ BusyAtHome' /\ BegunIsKnown' /\ CardsBounded'
  /\ Busy /\ space # Vacant /\ action' = action => space'.cards = space.cards

LEMMA GetServes ==
  ASSUME SpaceInv, NEW again, Get(again), UNCHANGED <<member, body, begun>>
  PROVE  Served
<1>1. opened \in Nat /\ LastSpace \in Nat /\ opened <= LastSpace
  BY WorkspaceAssumption DEF SpaceInv, SpaceTypeOK
<1>2. \A home : <<>> \in Seq(CardsOf(home)) /\ Len(<<>>) <= MaxCards
  BY EmptySeq, WorkspaceAssumption
<1>3. CASE NoSpace
  <2> DEFINE new == [id |-> opened + 1, home |-> member, cards |-> <<>>, asked |-> {}]
  <2>1. space' = new /\ opened' = opened + 1 /\ opened < LastSpace /\ ~Switched
    BY <1>3 DEF Get, NoSpace, Switched
  <2>2. action' = action /\ action = Vacant
    BY <1>3, <2>1 DEF Get, NoSpace, SpaceInv, BusyAtHome, Busy
  <2>3. new \in OpenSpace
    <3>1. opened + 1 \in 1..LastSpace
      BY <1>1, <2>1
    <3>2. <<>> \in Seq(ShownCard)
      BY EmptySeq
    <3>3. QED
      BY <3>1, <3>2 DEF OpenSpace, SpaceInv, SpaceTypeOK
  <2>4. new # Vacant
    BY <2>3, WorkspaceAssumption
  <2>5. opened' \in 0..LastSpace /\ opened <= opened' /\ space'.id <= opened'
    BY <1>1, <2>1
  <2>6. OneHousehold' /\ BusyAtHome' /\ CardsBounded'
    BY <1>2, <2>1, <2>2 DEF OneHousehold, BusyAtHome, CardsBounded, Busy
  <2>7. BegunIsKnown'
    <3>1. \A q \in Calls : body[q] # Vacant => body[q].id # opened + 1
      <4> TAKE q \in Calls
      <4> HAVE body[q] # Vacant
      <4>1. body[q].id \in 1..LastSpace /\ body[q].id <= opened
        BY DEF SpaceInv, SpaceTypeOK, IdsGrow, ClientRequest
      <4>2. QED
        BY <1>1, <4>1
    <3>2. QED
      BY <2>1, <3>1 DEF SpaceInv, BegunIsKnown
  <2>8. QED
    BY <1>3, <2>1, <2>2, <2>3, <2>4, <2>5, <2>6, <2>7 DEF Served, NoSpace
<1>4. CASE Switched
  <2>1. space # Vacant /\ ~NoSpace
    BY <1>4 DEF Switched, NoSpace
  <2>2. space' = Emptied(space) /\ opened' = opened
    BY <1>4, <2>1 DEF Get
  <2>3. action' = IF Busy THEN [action EXCEPT !.live = FALSE] ELSE action
    BY <1>4 DEF Get
  <2>4. /\ action' \in RunningAction \cup {Vacant}
        /\ action' # Vacant => ~action'.live
        /\ action' # Vacant => Busy
    BY <2>3, ActionFacts DEF Busy, RunningAction
  <2>5. OneHousehold' /\ BusyAtHome' /\ CardsBounded'
    BY <1>2, <2>1, <2>2, <2>4, EmptiedSpace DEF OneHousehold, BusyAtHome, CardsBounded, Busy
  <2>6. BegunIsKnown'
    BY <2>1, <2>2, EmptiedSpace DEF SpaceInv, BegunIsKnown
  <2>7. Busy /\ action' = action => space'.cards = space.cards
    <3> SUFFICES ASSUME Busy, action' = action PROVE space'.cards = space.cards
      OBVIOUS
    <3>1. ~action.live
      BY <2>4 DEF Busy
    <3>2. space.cards = <<>>
      BY <3>1 DEF SpaceInv, BusyAtHome
    <3>3. QED
      BY <2>1, <2>2, <3>2, EmptiedSpace
  <2>8. space'.id <= opened'
    BY <2>1, <2>2, EmptiedSpace DEF SpaceInv, IdsGrow
  <2>9. QED
    BY <1>1, <2>1, <2>2, <2>4, <2>5, <2>6, <2>7, <2>8, EmptiedSpace DEF Served
<1>5. CASE ~NoSpace /\ ~Switched
  <2> DEFINE cards == IF Busy THEN space.cards ELSE Rendered(space.cards, again)
  <2>1. space # Vacant /\ action' = action /\ opened' = opened
    BY <1>5 DEF Get, NoSpace
  <2>2. space' = [space EXCEPT !.cards = cards]
    BY <1>5 DEF Get
  <2>3. cards \in Seq(CardsOf(space.home)) /\ Len(cards) = Len(space.cards)
    BY <2>1, SpaceFacts, RenderedCards
  <2>4. Busy => cards = space.cards
    OBVIOUS
  <2> HIDE DEF cards
  <2>5. /\ space' \in OpenSpace /\ space' # Vacant /\ space'.cards = cards
        /\ space'.id = space.id /\ space'.home = space.home /\ space'.asked = space.asked
    BY <2>1, <2>2, <2>3, CardsMove
  <2>6. OneHousehold' /\ CardsBounded'
    BY <2>1, <2>3, <2>5 DEF OneHousehold, CardsBounded, SpaceInv, Busy
  <2>7. BusyAtHome'
    BY <2>1, <2>4, <2>5 DEF BusyAtHome, SpaceInv, Busy
  <2>8. BegunIsKnown'
    BY <2>1, <2>5 DEF SpaceInv, BegunIsKnown
  <2>9. QED
    BY <1>1, <2>1, <2>4, <2>5, <2>6, <2>7, <2>8 DEF Served, SpaceInv, SpaceTypeOK, IdsGrow
<1>6. QED
  BY <1>3, <1>4, <1>5

-----------------------------------------------------------------------------
(* The steps.                                                              *)

\* A request never changes the cards of an action that goes on.
Undisturbed ==
  Busy /\ space # Vacant /\ space' # Vacant /\ action' = action /\ reading' # reading
    => space'.cards = space.cards

SpaceStep == SpaceInv' /\ Undisturbed

LEMMA RequestSteps ==
  ASSUME SpaceInv, NEW again, WorkspaceState(again) \/ \E q \in Calls : Post(q, again)
  PROVE  SpaceStep
<1>1. CASE WorkspaceState(again)
  <2>1. UNCHANGED <<member, body, reading, begun, shown>> /\ screen' = Screen(space')
    BY <1>1 DEF WorkspaceState
  <2>2. Served
    BY <1>1, <2>1, GetServes DEF WorkspaceState
  <2>3. screen' \in [id : 0..LastSpace, cards : Seq(ShownCard)] /\ screen'.id = space'.id
    BY <2>1, <2>2 DEF Screen, Served, OpenSpace
  <2>4. SpaceTypeOK'
    BY <2>1, <2>2, <2>3 DEF Served, SpaceInv, SpaceTypeOK
  <2>5. IdsGrow'
    <3>1. \A q \in Calls : body[q] # Vacant => body[q].id <= opened'
      <4> TAKE q \in Calls
      <4> HAVE body[q] # Vacant
      <4>1. body[q].id \in 1..LastSpace /\ body[q].id <= opened
        BY DEF SpaceInv, SpaceTypeOK, IdsGrow, ClientRequest
      <4>2. QED
        BY <2>2, <4>1, WorkspaceAssumption DEF Served, SpaceInv, SpaceTypeOK
    <3>2. QED
      BY <2>1, <2>2, <2>3, <3>1 DEF Served, IdsGrow
  <2>6. QED
    BY <2>1, <2>2, <2>4, <2>5 DEF Served, SpaceInv, ReadInSpace, SpaceStep, Undisturbed
<1>2. ASSUME NEW q \in Calls, Post(q, again) PROVE SpaceStep
  <2>1. UNCHANGED <<member, screen, body, begun, shown>> /\ reading' = reading \cup {q}
        /\ body[q] # Vacant
    BY <1>2 DEF Post
  <2>2. Served
    BY <1>2, <2>1, GetServes DEF Post
  <2>3. SpaceTypeOK'
    BY <2>1, <2>2 DEF Served, SpaceInv, SpaceTypeOK
  <2>4. IdsGrow'
    <3>1. opened \in Nat /\ opened' \in Nat /\ opened <= opened' /\ screen.id \in Nat
      BY <2>2 DEF Served, SpaceInv, SpaceTypeOK
    <3>2. \A p \in Calls : body[p] # Vacant => body[p].id \in Nat
      BY DEF SpaceInv, SpaceTypeOK, ClientRequest
    <3>3. QED
      BY <2>1, <2>2, <3>1, <3>2 DEF Served, SpaceInv, IdsGrow
  <2>5. QED
    BY <2>1, <2>2, <2>3, <2>4 DEF Served, SpaceInv, ReadInSpace, SpaceStep, Undisturbed
<1>3. QED
  BY <1>1, <1>2

\* A request is made from the screen, so of a workspace that was opened.
LEMMA ComposeStep ==
  ASSUME SpaceInv, NEW q \in Calls, Compose(q)
  PROVE  SpaceStep
<1>1. /\ UNCHANGED <<member, space, action, screen, reading, begun, opened, shown>>
      /\ body[q] = Vacant /\ screen.id > 0
  BY DEF Compose
<1>2. PICK card \in Range(screen.cards) \cup {Vacant} :
        body' = [body EXCEPT ![q] = [id |-> screen.id, card |-> card]]
  BY Zenon DEF Compose
<1>3. screen.id \in 1..LastSpace /\ screen.cards \in Seq(ShownCard) /\ screen.id <= opened
  BY <1>1, WorkspaceAssumption DEF SpaceInv, SpaceTypeOK, IdsGrow
<1>4. card \in ShownCard \cup {Vacant}
  BY <1>3, ElementOfSeq DEF Range
<1> DEFINE request == [id |-> screen.id, card |-> card]
<1>5. request \in ClientRequest /\ request.id = screen.id
  BY <1>3, <1>4 DEF ClientRequest
<1> HIDE DEF request
<1>6. /\ body' \in [Calls -> ClientRequest \cup {Vacant}]
      /\ body'[q] = request /\ \A p \in Calls \ {q} : body'[p] = body[p]
  BY <1>2, <1>5 DEF SpaceInv, SpaceTypeOK, request
<1>7. q \notin reading /\ begun[q] = 0
  BY <1>1 DEF SpaceInv, SpaceTypeOK, BegunIsKnown
<1>8. SpaceTypeOK'
  BY <1>1, <1>6, <1>7 DEF SpaceInv, SpaceTypeOK
<1>9. IdsGrow'
  BY <1>1, <1>3, <1>5, <1>6 DEF SpaceInv, IdsGrow
<1>10. BegunIsKnown'
  BY <1>1, <1>6, <1>7 DEF SpaceInv, BegunIsKnown
<1>11. QED
  BY <1>1, <1>8, <1>9, <1>10
     DEF SpaceInv, OneHousehold, BusyAtHome, ReadInSpace, CardsBounded, Busy, SpaceStep, Undisturbed

\* A request is begun only in the workspace it was made in, which then knows it.
LEMMA SubmitStep ==
  ASSUME SpaceInv, NEW q \in Calls, Submit(q)
  PROVE  SpaceStep
<1>1. /\ q \in reading /\ reading' = reading \ {q} /\ space # Vacant /\ body[q] # Vacant
      /\ UNCHANGED <<member, body, opened, shown>>
  BY DEF Submit, SpaceInv, ReadInSpace, SpaceTypeOK
<1>2. Screen(space) \in [id : 0..LastSpace, cards : Seq(ShownCard)] /\ Screen(space).id = space.id
  BY <1>1, SpaceFacts DEF Screen, OpenSpace
<1>3. /\ screen' \in [id : 0..LastSpace, cards : Seq(ShownCard)]
      /\ screen'.id <= opened
  BY <1>1, <1>2 DEF Submit, SpaceInv, SpaceTypeOK, IdsGrow
<1>4. CASE body[q].id = space.id /\ q \notin space.asked /\ Acceptable(q)
  <2> DEFINE s == [space EXCEPT !.asked = @ \cup {q}]
             a == [call |-> q, home |-> space.home, live |-> TRUE]
  <2>1. space' = s /\ action' = a /\ begun' = [begun EXCEPT ![q] = @ + 1] /\ ~Busy
    BY <1>4 DEF Submit, Acceptable
  <2>2. /\ s \in OpenSpace /\ s.cards = space.cards /\ s.id = space.id /\ s.home = space.home
        /\ s.asked = space.asked \cup {q}
    BY <1>1, SpaceFacts DEF OpenSpace
  <2>3. a \in RunningAction /\ a.live = TRUE /\ a.home = space.home
    BY <1>1, SpaceFacts DEF RunningAction
  <2> HIDE DEF s, a
  <2>4. s # Vacant /\ a # Vacant
    BY <2>2, <2>3, WorkspaceAssumption
  <2>5. begun[q] = 0
    <3>1. begun[q] # 0 => q \in space.asked
      BY <1>1, <1>4 DEF SpaceInv, BegunIsKnown
    <3>2. QED
      BY <1>4, <3>1
  <2>6. begun' \in [Calls -> Nat] /\ begun'[q] = 1 /\ \A p \in Calls \ {q} : begun'[p] = begun[p]
    BY <2>1, <2>5 DEF SpaceInv, SpaceTypeOK
  <2>7. SpaceTypeOK'
    BY <1>1, <1>3, <2>1, <2>2, <2>3, <2>6 DEF SpaceInv, SpaceTypeOK
  <2>8. OneHousehold' /\ BusyAtHome' /\ ReadInSpace' /\ CardsBounded'
    BY <1>1, <2>1, <2>2, <2>3, <2>4
       DEF SpaceInv, OneHousehold, BusyAtHome, ReadInSpace, CardsBounded, Busy
  <2>9. IdsGrow'
    BY <1>1, <1>3, <2>1, <2>2 DEF SpaceInv, IdsGrow
  <2>10. BegunIsKnown'
    BY <1>1, <1>4, <2>1, <2>2, <2>6 DEF SpaceInv, BegunIsKnown
  <2>11. QED
    BY <2>1, <2>7, <2>8, <2>9, <2>10 DEF SpaceInv, SpaceStep, Undisturbed
<1>5. CASE ~(body[q].id = space.id /\ q \notin space.asked /\ Acceptable(q))
  <2>1. UNCHANGED <<space, action, begun>>
    BY <1>5 DEF Submit
  <2>2. SpaceTypeOK' /\ IdsGrow'
    BY <1>1, <1>3, <2>1 DEF SpaceInv, SpaceTypeOK, IdsGrow
  <2>3. QED
    BY <1>1, <2>1, <2>2
       DEF SpaceInv, OneHousehold, BusyAtHome, ReadInSpace, CardsBounded, BegunIsKnown, Busy,
           SpaceStep, Undisturbed
<1>6. QED
  BY <1>4, <1>5

\* The action's cards change and nothing else: it shows, edits or deletes one.
LEMMA ActionChangesCards ==
  ASSUME SpaceInv, NEW cards \in Seq(CardsOf(space.home)), Busy, action.live,
         space' = [space EXCEPT !.cards = cards], shown' \in 0..LastCard,
         UNCHANGED <<member, action, screen, body, reading, begun, opened>>
  PROVE  SpaceStep
<1>1. space # Vacant
  BY DEF SpaceInv, BusyAtHome
<1>2. /\ space' \in OpenSpace /\ space' # Vacant /\ space'.cards = cards
      /\ space'.id = space.id /\ space'.home = space.home /\ space'.asked = space.asked
  BY <1>1, CardsMove
<1>3. SpaceTypeOK'
  BY <1>2 DEF SpaceInv, SpaceTypeOK
<1>4. OneHousehold' /\ BusyAtHome' /\ ReadInSpace' /\ CardsBounded'
  BY <1>2 DEF SpaceInv, OneHousehold, BusyAtHome, ReadInSpace, CardsBounded, Busy
<1>5. IdsGrow' /\ BegunIsKnown'
  BY <1>1, <1>2 DEF SpaceInv, IdsGrow, BegunIsKnown
<1>6. QED
  BY <1>3, <1>4, <1>5 DEF SpaceInv, SpaceStep, Undisturbed

LEMMA AnswerStep ==
  ASSUME SpaceInv, Answer
  PROVE  SpaceStep
<1> DEFINE card == [key |-> shown + 1, edit |-> 0, home |-> action.home]
<1>1. /\ Busy /\ action.live /\ shown < LastCard /\ shown' = shown + 1
      /\ space' = [space EXCEPT !.cards = Append(@, card)]
      /\ UNCHANGED <<member, action, screen, body, reading, begun, opened>>
  BY DEF Answer
<1>2. space # Vacant /\ action.home = space.home
  BY <1>1 DEF SpaceInv, BusyAtHome
<1>3. shown + 1 \in 1..LastCard
  BY <1>1, WorkspaceAssumption DEF SpaceInv, SpaceTypeOK
<1>4. card \in CardsOf(space.home)
  BY <1>2, <1>3, WorkspaceAssumption DEF CardsOf
<1> HIDE DEF card
<1>5. Append(space.cards, card) \in Seq(CardsOf(space.home))
  BY <1>2, <1>4, SpaceFacts, AppendProperties
<1>6. space' = [space EXCEPT !.cards = Append(space.cards, card)]
  BY <1>1
<1>7. shown' \in 0..LastCard
  BY <1>1, <1>3
<1>8. QED
  BY <1>1, <1>5, <1>6, <1>7, ActionChangesCards

LEMMA SpaceCardSteps ==
  ASSUME SpaceInv, NEW i \in DOMAIN space.cards, EditText(i) \/ Delete(i)
  PROVE  SpaceStep
<1>1. /\ Busy /\ action.live
      /\ UNCHANGED <<member, action, screen, body, reading, begun, opened, shown>>
  BY DEF EditText, Delete
<1>2. shown' \in 0..LastCard /\ space.cards \in Seq(CardsOf(space.home))
  BY <1>1, ActionFacts, SpaceFacts DEF SpaceInv, SpaceTypeOK
<1>3. CASE EditText(i)
  <2> DEFINE cards == Rendered(space.cards, {space.cards[i].key})
  <2>1. space' = [space EXCEPT !.cards = cards]
    BY <1>3 DEF EditText
  <2>2. cards \in Seq(CardsOf(space.home))
    BY <1>2, RenderedCards
  <2>3. QED
    BY <1>1, <1>2, <2>1, <2>2, ActionChangesCards
<1>4. CASE Delete(i)
  <2> DEFINE cards == RemoveAt(space.cards, i)
  <2>1. space' = [space EXCEPT !.cards = cards]
    BY <1>4 DEF Delete
  <2>2. cards \in Seq(CardsOf(space.home))
    BY <1>2, RemainingCards
  <2>3. QED
    BY <1>1, <1>2, <2>1, <2>2, ActionChangesCards
<1>5. QED
  BY <1>3, <1>4

\* Whatever an action has shown, what it leaves behind is bounded.
LEMMA ActionEndsStep ==
  ASSUME SpaceInv, ActionEnds
  PROVE  SpaceStep
<1>1. /\ Busy /\ action' = Vacant /\ space # Vacant
      /\ space' = [space EXCEPT !.cards = Kept(space.cards)]
      /\ UNCHANGED <<member, screen, body, reading, begun, opened, shown>>
  BY ActionFacts DEF ActionEnds
<1>2. Kept(space.cards) \in Seq(CardsOf(space.home)) /\ Len(Kept(space.cards)) <= MaxCards
  BY <1>1, SpaceFacts, KeptCards
<1>3. /\ space' \in OpenSpace /\ space' # Vacant /\ space'.cards = Kept(space.cards)
      /\ space'.id = space.id /\ space'.home = space.home /\ space'.asked = space.asked
  BY <1>1, <1>2, CardsMove
<1>4. SpaceTypeOK'
  BY <1>1, <1>3 DEF SpaceInv, SpaceTypeOK
<1>5. OneHousehold' /\ BusyAtHome' /\ ReadInSpace' /\ CardsBounded'
  BY <1>1, <1>2, <1>3 DEF SpaceInv, OneHousehold, BusyAtHome, ReadInSpace, CardsBounded, Busy
<1>6. IdsGrow' /\ BegunIsKnown'
  BY <1>1, <1>3 DEF SpaceInv, IdsGrow, BegunIsKnown
<1>7. QED
  BY <1>1, <1>4, <1>5, <1>6 DEF SpaceInv, SpaceStep, Undisturbed

LEMMA WorldSteps ==
  ASSUME SpaceInv, (\E home \in Homes \cup {Vacant} : Moves(home)) \/ SpaceExpires \/ Close
  PROVE  SpaceStep
<1>1. ASSUME NEW home \in Homes \cup {Vacant}, Moves(home) PROVE SpaceStep
  BY <1>1 DEF Moves, SpaceInv, SpaceTypeOK, OneHousehold, BusyAtHome, ReadInSpace, IdsGrow,
              BegunIsKnown, CardsBounded, Busy, SpaceStep, Undisturbed
<1>2. CASE SpaceExpires
  BY <1>2 DEF SpaceExpires, SpaceInv, SpaceTypeOK, OneHousehold, BusyAtHome, ReadInSpace, IdsGrow,
              BegunIsKnown, CardsBounded, Busy, SpaceStep, Undisturbed
<1>3. CASE Close
  BY <1>3 DEF Close, SpaceInv, SpaceTypeOK, OneHousehold, BusyAtHome, ReadInSpace, IdsGrow,
              BegunIsKnown, CardsBounded, Busy, SpaceStep, Undisturbed
<1>4. QED
  BY <1>1, <1>2, <1>3

-----------------------------------------------------------------------------
(* The theorem.                                                            *)

LEMMA SpaceStarts == SpaceInit => SpaceInv
<1> SUFFICES ASSUME SpaceInit PROVE SpaceInv
  OBVIOUS
<1>1. /\ member \in Homes /\ space = Vacant /\ action = Vacant /\ reading = {}
      /\ screen = [id |-> 0, cards |-> <<>>] /\ opened = 0 /\ shown = 0
      /\ body = [q \in Calls |-> Vacant] /\ begun = [q \in Calls |-> 0]
  BY DEF SpaceInit
<1>2. screen \in [id : 0..LastSpace, cards : Seq(ShownCard)] /\ screen.id = 0
  BY <1>1, EmptySeq, WorkspaceAssumption
<1>3. SpaceTypeOK
  BY <1>1, <1>2, WorkspaceAssumption DEF SpaceTypeOK
<1>4. QED
  BY <1>1, <1>2, <1>3
     DEF SpaceInv, OneHousehold, BusyAtHome, ReadInSpace, IdsGrow, BegunIsKnown, CardsBounded, Busy

LEMMA SpaceStepSound == SpaceInv /\ [SpaceNext]_spaceVars => SpaceStep
<1> SUFFICES ASSUME SpaceInv, [SpaceNext]_spaceVars PROVE SpaceStep
  OBVIOUS
<1>1. ASSUME NEW again \in SUBSET (1..LastCard),
             WorkspaceState(again) \/ \E q \in Calls : Post(q, again)
      PROVE  SpaceStep
  BY <1>1, RequestSteps
<1>2. ASSUME NEW q \in Calls, Compose(q) \/ Submit(q) PROVE SpaceStep
  BY <1>2, ComposeStep, SubmitStep
<1>3. CASE Answer \/ ActionEnds
  BY <1>3, AnswerStep, ActionEndsStep
<1>4. ASSUME NEW i \in DOMAIN space.cards, EditText(i) \/ Delete(i) PROVE SpaceStep
  BY <1>4, SpaceCardSteps
<1>5. CASE (\E home \in Homes \cup {Vacant} : Moves(home)) \/ SpaceExpires \/ Close
  BY <1>5, WorldSteps
<1>6. CASE UNCHANGED spaceVars
  BY <1>6 DEF spaceVars, SpaceInv, SpaceTypeOK, OneHousehold, BusyAtHome, ReadInSpace, IdsGrow,
              BegunIsKnown, CardsBounded, Busy, SpaceStep, Undisturbed
<1>7. QED
  BY <1>1, <1>2, <1>3, <1>4, <1>5, <1>6, Zenon DEF SpaceNext

LEMMA SpaceInvGives == SpaceInv => BegunOnce /\ CardsOfOneHousehold /\ CardsBounded
<1> SUFFICES ASSUME SpaceInv PROVE BegunOnce /\ CardsOfOneHousehold /\ CardsBounded
  OBVIOUS
<1>1. BegunOnce /\ CardsBounded
  BY DEF SpaceInv, BegunIsKnown, BegunOnce
<1>2. CardsOfOneHousehold
  <2> SUFFICES ASSUME space # Vacant, NEW card \in Range(space.cards)
               PROVE  card.home = space.home
    BY DEF CardsOfOneHousehold
  <2>1. card \in CardsOf(space.home)
    BY SpaceFacts, ElementOfSeq DEF Range
  <2>2. QED
    BY <2>1 DEF CardsOf
<1>3. QED
  BY <1>1, <1>2

\* However requests are repeated, whatever workspace they reach, and however the
\* user moves meanwhile: each is begun at most once, no card of another household
\* is in the workspace, what is kept is bounded, and a running action's cards are
\* its own (Workspace.submit, workspace_for and _run of mini_app/service.py).
THEOREM WorkspaceIsSound == SpaceSpec => WorkspaceSound
<1>1. SpaceInit => SpaceInv
  BY SpaceStarts
<1>2. SpaceInv /\ [SpaceNext]_spaceVars => SpaceInv' /\ [Undisturbed]_spaceVars
  BY SpaceStepSound DEF SpaceStep
<1>3. SpaceInv => BegunOnce /\ CardsOfOneHousehold /\ CardsBounded
  BY SpaceInvGives
<1>4. QED
  BY <1>1, <1>2, <1>3, PTL DEF SpaceSpec, WorkspaceSound, ActionUndisturbed, Undisturbed

\* Every part of the workspace is of its type, its ids within their bounds.
THEOREM SpaceTypeCorrect == SpaceSpec => []SpaceTypeOK
<1>1. SpaceInit => SpaceInv
  BY SpaceStarts
<1>2. SpaceInv /\ [SpaceNext]_spaceVars => SpaceInv'
  BY SpaceStepSound DEF SpaceStep
<1>3. SpaceInv => SpaceTypeOK
  BY DEF SpaceInv
<1>4. QED
  BY <1>1, <1>2, <1>3, PTL DEF SpaceSpec

-----------------------------------------------------------------------------
(* The kitchen.  A step of it is a step of the component of its scene and    *)
(* leaves the others as they were, so a behaviour of the kitchen is one of   *)
(* each of them, and keeps what each of them promises.                      *)

LEMMA EachKeepsToItself ==
  ASSUME [KitchenNext]_<<scene, vars, planned, shopped>>
  PROVE  /\ [Next]_vars /\ [CookNext]_cookVars /\ [PlanNext]_planVars
         /\ [SheetNext]_sheetVars /\ [BatchNext]_batchVars /\ [ShopNext]_shopVars
         /\ [SpaceNext]_spaceVars
<1>1. CASE KitchenNext
  BY <1>1, Zenon DEF KitchenNext, planned, shopped
<1>2. CASE UNCHANGED <<scene, vars, planned, shopped>>
  BY <1>2 DEF planned, shopped
<1>3. QED
  BY <1>1, <1>2

LEMMA EachStarts ==
  ASSUME KitchenInit
  PROVE  Init /\ CookInit /\ PlanInit /\ SheetInit /\ BatchInit /\ ShopInit /\ SpaceInit
BY DEF KitchenInit

\* A behaviour of the kitchen is a behaviour of every component of it.
THEOREM KitchenHolds ==
  KitchenSpec => Spec /\ CookSpec /\ PlanSpec /\ SheetSpec /\ BatchSpec /\ ShopSpec /\ SpaceSpec
BY EachStarts, EachKeepsToItself, PTL
   DEF KitchenSpec, Spec, CookSpec, PlanSpec, SheetSpec, BatchSpec, ShopSpec, SpaceSpec

\* Whatever the scene, every table of it holds rows of its type.
THEOREM KitchenTypeCorrect == KitchenSpec => []KitchenTypeOK
<1>1. /\ TypeOK /\ CookTypeOK /\ PlanTypeOK /\ SheetTypeOK /\ BatchTypeOK /\ ShopTypeOK /\ SpaceTypeOK
      => KitchenTypeOK
  BY DEF KitchenTypeOK
<1>2. QED
  BY <1>1, KitchenHolds, TypeCorrect, CookTypeCorrect, PlanTypeCorrect, SheetTypeCorrect,
     BatchTypeCorrect, ShopTypeCorrect, SpaceTypeCorrect, PTL

\* The pantry of a kitchen keeps its life cycle, its proposals end with an edit,
\* and the duration a person chose survives, whatever the other components do.
THEOREM PantryIsSound == KitchenSpec => PantrySound
BY KitchenHolds, LivesOnce, EditsEnd, DurationKept, PTL DEF PantrySound

\* Recipe searches, meal plans, cooked sheets, batches, shopping lists and the
\* Mini App keep their own promises wherever they stand side by side.
THEOREM KitchenKeepsItsWord ==
  KitchenSpec => /\ SearchesSound /\ PlansSound /\ SheetsSound /\ BatchesSound
                 /\ ShoppingSound /\ WorkspaceSound
BY KitchenHolds, OneAnsweredSearch, PlansAreSound, SheetsAreSound, BatchesAreSound,
   ShoppingIsSound, WorkspaceIsSound, PTL
=============================================================================
