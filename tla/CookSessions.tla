----------------------------- MODULE CookSessions -----------------------------
(***************************************************************************)
(* /cook: three questions, a search, and what may be done with its cards.  *)
(* /cook closes the sessions of the household that are still open.  Every  *)
(* answer is a callback, which several members may send at once: it is     *)
(* claimed with a conditional UPDATE where it starts something, and the    *)
(* search that the last one starts is a task of its own, with awaits       *)
(* during which /cook, the sweep and other callbacks run.                  *)
(*                                                                         *)
(* Of an answer only that it was given is kept, of the cost only whether   *)
(* it exceeds the ceiling, and of the cards which recipes they show.       *)
(***************************************************************************)
EXTENDS Naturals, Sequences, SequencesExt

CONSTANTS Cooks,       \* rows of table cooksession, of one household, numbered as made
          CookTasks,   \* handlers and background searches that are waiting
          Recipes,     \* with an id at their source; one without counts as new
          AtRest

\* What a task is awaiting: an edited message; the acknowledgement of a tap that has
\* claimed the session, for its search ("claimed") or for more ("asked"); its turn
\* on the event loop; a model.
Waits == {"meal", "claimed", "spawning", "selecting", "searching", "asked", "more"}

ASSUME CookAssumption == Cooks \subseteq Nat /\ AtRest \notin Cooks \X Waits

VARIABLES cook, cookTask

cookVars == <<cook, cookTask>>

Open == {"collecting", "ready"}
CookStatus == Open \cup {"done", "cancelled", "expired", "none"}

Cook == [status : CookStatus, meal : BOOLEAN, cuisine : BOOLEAN, purpose : BOOLEAN,
         selected : BOOLEAN, over : BOOLEAN, late : BOOLEAN,
         cards : Seq(Recipes)]

CookTypeOK ==
  /\ cook \in [Cooks -> Cook]
  /\ cookTask \in [CookTasks -> (Cooks \X Waits) \cup {AtRest}]

CookInit ==
  /\ cook = [c \in Cooks |->
       [status |-> "none", meal |-> FALSE, cuisine |-> FALSE, purpose |-> FALSE,
        selected |-> FALSE, over |-> FALSE, late |-> FALSE, cards |-> <<>>]]
  /\ cookTask = [k \in CookTasks |-> AtRest]

At(k, c, w) == cookTask[k] = <<c, w>>
FreeTask(k) == cookTask[k] = AtRest
NewCook(c) == \A d \in Cooks : cook[d].status = "none" <=> d >= c
Wait(k, c, w) == cookTask' = [cookTask EXCEPT ![k] = <<c, w>>]
End(k) == cookTask' = [cookTask EXCEPT ![k] = AtRest]
Marked(c, s) == cook' = [cook EXCEPT ![c].status = s]

-----------------------------------------------------------------------------
(* /cook and the callbacks.                                                 *)

\* supersede_active
Superseded(status) == IF status \in Open THEN "cancelled" ELSE status

CreateCookSession(c) ==
  cook' = [d \in Cooks |-> IF d = c THEN [cook[c] EXCEPT !.status = "collecting"]
                           ELSE [cook[d] EXCEPT !.status = Superseded(@)]]

HandleCook(c) == NewCook(c) /\ CreateCookSession(c) /\ UNCHANGED cookTask

\* A callback finds its session answerable, or marks it expired and stops.
Answerable(c, s) == cook[c].status = s /\ ~cook[c].late

TapLate(c) ==
  /\ cook[c].status \in Open /\ cook[c].late
  /\ Marked(c, "expired") /\ UNCHANGED cookTask

\* The first question is edited into the second before the answer is stored,
\* and the answer is stored whatever became of the session meanwhile.
TapMeal(c, k) ==
  /\ Answerable(c, "collecting") /\ ~cook[c].meal /\ FreeTask(k)
  /\ Wait(k, c, "meal") /\ UNCHANGED cook

MealStored(c, k) ==
  /\ At(k, c, "meal") /\ End(k)
  /\ \/ cook' = [cook EXCEPT ![c].meal = TRUE]
     \/ UNCHANGED cook

TapCuisine(c) ==
  /\ Answerable(c, "collecting") /\ cook[c].meal /\ ~cook[c].cuisine
  /\ cook' = [cook EXCEPT ![c].cuisine = TRUE]
  /\ UNCHANGED cookTask

\* Mutant: the last answer is read, edited into the message and then stored.
TapPurposeLate(c, k) ==
  /\ cook[c].status # "none" /\ cook[c].cuisine /\ FreeTask(k)
  /\ cook' = [cook EXCEPT ![c].purpose = TRUE, ![c].status = "ready"]
  /\ Wait(k, c, "claimed")

\* The last answer claims the session; "thinking" is shown, the tap acknowledged.
TapPurpose(c, k) ==
  /\ Answerable(c, "collecting") /\ cook[c].cuisine /\ ~cook[c].purpose
  /\ FreeTask(k)
  /\ cook' = [cook EXCEPT ![c].purpose = TRUE, ![c].status = "ready"]
  /\ Wait(k, c, "claimed")

Spawn(c, k) == At(k, c, "claimed") /\ Wait(k, c, "spawning") /\ UNCHANGED cook

\* The acknowledgement is awaited outside any try.  Where it raises, the handler
\* ends and what it claimed stays claimed.
AckFails(c, k) ==
  /\ cookTask[k] \in {c} \X {"claimed", "asked"}
  /\ End(k) /\ UNCHANGED cook

-----------------------------------------------------------------------------
(* run_cook_and_render                                                      *)

\* The session is gone or was closed, the user is gone, or his model clients
\* cannot be had, which raises: nothing is done.  The allowance is used up, or
\* too little is left in the pantry: it is cancelled.  Items selected by an
\* earlier run are used again as long as one of them is active.
RunStart(c, k) ==
  /\ At(k, c, "spawning")
  /\ \/ End(k) /\ UNCHANGED cook
     \/ cook[c].status = "ready" /\ End(k) /\ Marked(c, "cancelled")
     \/ cook[c].status = "ready" /\ Wait(k, c, "selecting") /\ UNCHANGED cook
     \/ cook[c].status = "ready" /\ cook[c].selected /\ Wait(k, c, "searching")
        /\ UNCHANGED cook

\* The selection is stored with its cost, which may already be too much.
Selected(c, k) ==
  /\ At(k, c, "selecting")
  /\ \/ /\ ~cook[c].over /\ Wait(k, c, "searching")
        /\ cook' = [cook EXCEPT ![c].selected = TRUE]
     \/ /\ End(k)
        /\ cook' = [cook EXCEPT ![c].selected = TRUE, ![c].over = TRUE, ![c].status = "done"]

\* At most one card at a time, with recipes that may be shown already.
Found == {<<>>} \cup {<<r>> : r \in Recipes}

\* The cards found replace the ones shown; none found leaves them.
Replaced(old, found) == IF found = <<>> THEN old ELSE found

SearchEnds(c, k) ==
  /\ At(k, c, "searching") /\ End(k)
  /\ \E over \in BOOLEAN, found \in Found :
       cook' = [cook EXCEPT ![c].status = "done", ![c].over = @ \/ over,
                            ![c].cards = Replaced(@, found)]

RunFails(c, k) ==
  /\ cookTask[k] \in {c} \X {"selecting", "searching"}
  /\ End(k) /\ Marked(c, "cancelled")

-----------------------------------------------------------------------------
(* More recipes, and the same session asked again.                          *)

\* A finished session that is late is expired by the callback.
TapFinishedLate(c) ==
  /\ cook[c].status = "done" /\ cook[c].late
  /\ Marked(c, "expired") /\ UNCHANGED cookTask

\* The tap claims the session, and the search follows its acknowledgement.
TapMore(c, k) ==
  /\ Answerable(c, "done") /\ FreeTask(k)
  /\ Wait(k, c, "asked") /\ Marked(c, "ready")

MoreStarts(c, k) == At(k, c, "asked") /\ Wait(k, c, "more") /\ UNCHANGED cook

\* run_cook_more: the card found goes in front, unless it was shown before.
More(old, found) == IF Range(found) \subseteq Range(old) THEN old ELSE found \o old

\* Nothing is searched over the ceiling, and nothing kept of a search that
\* went over it.  A failure too ends with the session finished again.
MoreEnds(c, k) ==
  /\ At(k, c, "more") /\ End(k)
  /\ \/ Marked(c, "done")
     \/ /\ ~cook[c].over
        /\ \E found \in Found :
             cook' = [cook EXCEPT ![c].status = "done", ![c].cards = More(@, found)]
     \/ ~cook[c].over /\ cook' = [cook EXCEPT ![c].status = "done", ![c].over = TRUE]

\* The meal and the items selected stay as they are.
Adjust(c) ==
  /\ Answerable(c, "done")
  /\ cook' = [cook EXCEPT ![c].status = "collecting", ![c].cuisine = FALSE,
                          ![c].purpose = FALSE]
  /\ UNCHANGED cookTask

-----------------------------------------------------------------------------
(* Time and restarts.                                                       *)

\* Ten minutes after /cook, so for the sessions in the order they were made.
TimePasses(c) ==
  /\ cook[c].status # "none" /\ ~cook[c].late
  /\ \A d \in Cooks : d < c => cook[d].late
  /\ cook' = [cook EXCEPT ![c].late = TRUE] /\ UNCHANGED cookTask

\* The job that expires what is open and late, every few minutes.
SweepExpiredCooks ==
  /\ \E c \in Cooks : cook[c].status \in Open /\ cook[c].late
  /\ cook' = [c \in Cooks |-> IF cook[c].status \in Open /\ cook[c].late
                              THEN [cook[c] EXCEPT !.status = "expired"] ELSE cook[c]]
  /\ UNCHANGED cookTask

CookCrash ==
  /\ \E k \in CookTasks : cookTask[k] # AtRest
  /\ cookTask' = [k \in CookTasks |-> AtRest] /\ UNCHANGED cook

CookNext ==
  \/ \E c \in Cooks :
       \/ HandleCook(c) \/ TapLate(c) \/ TapCuisine(c) \/ TapFinishedLate(c)
       \/ Adjust(c) \/ TimePasses(c)
       \/ \E k \in CookTasks :
            \/ TapMeal(c, k) \/ MealStored(c, k) \/ TapPurpose(c, k) \/ Spawn(c, k)
            \/ AckFails(c, k) \/ RunStart(c, k)
            \/ Selected(c, k) \/ SearchEnds(c, k) \/ RunFails(c, k)
            \/ TapMore(c, k) \/ MoreStarts(c, k) \/ MoreEnds(c, k)
  \/ SweepExpiredCooks \/ CookCrash

CookSpec == CookInit /\ [][CookNext]_cookVars

-----------------------------------------------------------------------------
(* Properties.                                                              *)

Working(c) == {k \in CookTasks : cookTask[k] \in {c} \X (Waits \ {"meal"})}

\* Taps that arrive together start one search, and a search under way is
\* neither started again nor asked for more: two tasks never work on one session.
SingleSearch == \A c \in Cooks : \A k, l \in Working(c) : k = l

\* A search never runs with an answer missing, whatever was adjusted meanwhile.
SearchIsAnswered ==
  \A c \in Cooks : Working(c) # {} => cook[c].meal /\ cook[c].cuisine /\ cook[c].purpose

\* Whoever has begun to search for a session does not leave it at "thinking":
\* when the search ends, other than by a crash, the session is out of "ready".
\* The handler that claimed it may end before (AckFails, RunStart).
Searchers(c) == {k \in CookTasks : cookTask[k] \in {c} \X {"selecting", "searching", "more"}}

SearchIsConcluded ==
  [][cookTask' # cookTask /\ ~CookCrash =>
       \A c \in Cooks :
         Searchers(c) # {} /\ Searchers(c)' = {} => cook'[c].status # "ready"]_cookVars

\* A session that was claimed and is worked on by nobody, for an acknowledgement
\* that failed or a crash, keeps its cards and is only ever closed: no tap, late
\* handler or search takes it for one that is finished or still to be answered.
AbandonedIsClosed ==
  [][\A c \in Cooks :
       cook[c].status = "ready" /\ Working(c) = {} =>
         /\ cook'[c].status \in {"ready", "cancelled", "expired"}
         /\ cook'[c].cards = cook[c].cards]_cookVars

\* "Show more" only adds: the cards a member saw stay behind the new ones and no
\* recipe is shown twice, also when the search fails or goes over the ceiling.
CardsKept ==
  [][cookTask' # cookTask =>
       \A c \in Cooks : (\E k \in CookTasks : At(k, c, "more") /\ cookTask'[k] = AtRest) =>
          /\ IsSuffix(cook[c].cards, cook'[c].cards)
          /\ IsInjective(cook'[c].cards)]_cookVars

\* The searches of a session, while they are under way and when they end.
SearchesSound == /\ [](SingleSearch /\ SearchIsAnswered)
                 /\ SearchIsConcluded /\ AbandonedIsClosed /\ CardsKept
=============================================================================
