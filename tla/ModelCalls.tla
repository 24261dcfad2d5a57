----------------------------- MODULE ModelCalls -----------------------------
(***************************************************************************)
(* One request to a model provider, as the clients of the capability seams *)
(* make it.  A client is described by its policy: how often a failed       *)
(* request is tried again, whether a reply that does not fit the schema is *)
(* sent back once for repair, whether the model may call the search tool   *)
(* in between, whether the provider itself searches the web for it at a    *)
(* fee, and whether a failure is raised or answered as "unknown".          *)
(*                                                                         *)
(* The provider may answer with a reply of known or unknown cost that fits *)
(* the schema, does not fit it, or holds no text at all; it may fail in a  *)
(* way that is worth another try or not; and a model with the search tool  *)
(* may ask for any number of searches.  A request that times out may have  *)
(* been billed: only replies received are counted.                         *)
(***************************************************************************)
EXTENDS Naturals

CONSTANTS Callers,      \* names of clients, a subset of ClientNames
          Tries,        \* DEFAULT_ATTEMPTS of with_transport_retry
          MaxSearches,  \* _MAX_SEARCH_CALLS
          MaxAsked,     \* most searches a reply asks for
          Unknown       \* a cost that could not be computed

ASSUME ModelCallsAssumption ==
  /\ Tries \in Nat \ {0} /\ MaxSearches \in Nat \ {0} /\ MaxAsked \in Nat
  /\ Unknown \notin Nat

VARIABLE call           \* the request under way, or the last one

-----------------------------------------------------------------------------
(* The policies of the clients.                                            *)

\* Any failure of a request is tried again; a reply is taken or refused once.
Plain == [tries |-> Tries, picky |-> FALSE, turns |-> 1, mute |-> "refused",
          tools |-> FALSE, grounding |-> "none", evidence |-> FALSE,
          degrades |-> FALSE]

\* As Plain, and the provider may search the web before it replies.
Searching == [Plain EXCEPT !.grounding = "charged"]

\* Receipts: the reply is validated and sent back once with the errors.
AnthropicReceipt == [Plain EXCEPT !.turns = 2, !.mute = "repaired"]
OpenAIReceipt == Searching
GeminiReceipt == Plain

\* Corrections, /add and the food profile: the text is taken out of the
\* reply before the validation that is repaired.  GeminiStructured also serves
\* selection, nutrition and translations.
AnthropicText == [Plain EXCEPT !.turns = 2]
OpenAIText == Searching
GeminiStructured == Plain

\* Selection and nutrition.
AnthropicCook == [Plain EXCEPT !.turns = 2, !.mute = "repaired"]
OpenAICook == [Plain EXCEPT !.turns = 2, !.mute = "repaired", !.picky = TRUE]

\* Recipes are searched for by the provider.  Every client adds its fee to the
\* cost of the tokens, except that of Gemini.
AnthropicRecipe == [AnthropicCook EXCEPT !.grounding = "charged"]
OpenAIRecipe == [OpenAICook EXCEPT !.grounding = "charged"]
GeminiRecipe == [Plain EXCEPT !.grounding = "omitted"]

\* DeepSeek: as many turns as searches and one to answer.  Selection and
\* nutrition are not offered the tool; a model that asks for it is refused.
DeepSeekText == [Plain EXCEPT !.turns = MaxSearches + 1, !.tools = TRUE]
DeepSeekCook == [Plain EXCEPT !.tools = TRUE]

\* Shelf-life lookups never raise.
DeepSeekSearch == [DeepSeekText EXCEPT !.evidence = TRUE, !.degrades = TRUE]
GeminiSearch == [Searching EXCEPT !.degrades = TRUE]
AnthropicSearch == [GeminiSearch EXCEPT !.tries = 1]

\* Translations, not retried by the first two.
AnthropicTranslation == [Plain EXCEPT !.tries = 1]
OpenAITranslation == [Plain EXCEPT !.tries = 1]
DeepSeekTranslation == Plain

Policies ==
  [AnthropicReceipt |-> AnthropicReceipt, OpenAIReceipt |-> OpenAIReceipt,
   GeminiReceipt |-> GeminiReceipt, AnthropicText |-> AnthropicText,
   OpenAIText |-> OpenAIText, GeminiStructured |-> GeminiStructured,
   AnthropicCook |-> AnthropicCook, OpenAICook |-> OpenAICook,
   AnthropicRecipe |-> AnthropicRecipe, OpenAIRecipe |-> OpenAIRecipe,
   GeminiRecipe |-> GeminiRecipe, DeepSeekText |-> DeepSeekText,
   DeepSeekCook |-> DeepSeekCook, DeepSeekSearch |-> DeepSeekSearch,
   GeminiSearch |-> GeminiSearch, AnthropicSearch |-> AnthropicSearch,
   AnthropicTranslation |-> AnthropicTranslation,
   OpenAITranslation |-> OpenAITranslation,
   DeepSeekTranslation |-> DeepSeekTranslation]

ASSUME CallersAreClients == Callers \subseteq DOMAIN Policies

Policy == Policies[call.client]

-----------------------------------------------------------------------------
(* Costs.  Requests and searches cost one unit each here.                  *)

Costs == {1, Unknown}

\* Mutant: a reply of unknown cost counts as free.
AddFreely(cost, extra) ==
  IF extra = Unknown THEN cost ELSE IF cost = Unknown THEN extra ELSE cost + extra

\* An unknown part makes the whole unknown.
AddCost(cost, extra) ==
  IF Unknown \in {cost, extra} THEN Unknown ELSE cost + extra

\* The provider bills its own searches with the reply.
Fees == IF Policy.grounding = "none" THEN {0} ELSE {0, 1}

FeeAdded(fee) == IF Policy.grounding = "charged" THEN fee ELSE 0

\* A reply of this cost has arrived, with the fee of the searches behind it.
Received(r, cost, fee) ==
  [r EXCEPT !.cost = AddCost(@, AddCost(cost, FeeAdded(fee))),
            !.requests = @ + 1, !.tries = 0,
            !.paid = fee + IF cost = Unknown THEN @ ELSE @ + cost,
            !.unpriced = @ \/ cost = Unknown]

\* The request is given up: nothing is reported of what it has cost.
Abandoned(r) ==
  IF Policies[r.client].degrades
  THEN [r EXCEPT !.phase = "unknown", !.cost = Unknown]
  ELSE [r EXCEPT !.phase = "raised", !.cost = Unknown]

\* The reply arrived but says nothing usable.
Refused(r) ==
  IF Policies[r.client].degrades
  THEN [r EXCEPT !.phase = "unknown"]
  ELSE Abandoned(r)

-----------------------------------------------------------------------------
Fresh(c) ==
  [client |-> c, phase |-> "asking", turn |-> 1, tries |-> 0, cost |-> 0,
   paid |-> 0, unpriced |-> FALSE, requests |-> 0, searches |-> 0,
   asked |-> 0, grounded |-> FALSE]

CallInit == \E c \in Callers : call = Fresh(c)

AskModel(c) ==
  /\ call.phase \notin {"asking", "searching"}
  /\ call' = Fresh(c)

\* The request itself fails; another try follows unless they are used up or
\* the client sees no point in one.
RequestFails(transient) ==
  /\ call.phase = "asking"
  /\ LET r == [call EXCEPT !.requests = @ + 1, !.tries = @ + 1]
     IN call' = IF r.tries = Policy.tries \/ (Policy.picky /\ ~transient)
                THEN Abandoned(r) ELSE r

\* A shelf life needs evidence from at least one search.
Suffices(r) == Policies[r.client].evidence => r.grounded

Replies(cost, fee) ==
  /\ call.phase = "asking"
  /\ LET r == Received(call, cost, fee)
     IN call' = IF Suffices(r) THEN [r EXCEPT !.phase = "answered"] ELSE Refused(r)

\* Turns of a client with tools are spent on searches, not on repairs.
MayRepair(mute) ==
  /\ ~Policy.tools
  /\ call.turn < Policy.turns
  /\ mute => Policy.mute = "repaired"

MisfitReply(cost, fee, mute) ==
  /\ call.phase = "asking"
  /\ LET r == Received(call, cost, fee)
     IN call' = IF MayRepair(mute) THEN [r EXCEPT !.turn = @ + 1] ELSE Refused(r)

SearchesLeft == call.searches < MaxSearches

CanSearch == SearchesLeft /\ call.turn < Policy.turns

\* The model asks for searches; it is not offered the tool on its last turn.
AsksToSearch(cost, n) ==
  /\ call.phase = "asking" /\ Policy.tools
  /\ LET r == Received(call, cost, 0)
     IN call' = IF CanSearch THEN [r EXCEPT !.phase = "searching", !.asked = n]
                ELSE Abandoned(r)

\* A search beyond the limit is answered with an error and not made.
Searched(r) ==
  IF r.asked = 1
  THEN [r EXCEPT !.asked = 0, !.tries = 0, !.turn = @ + 1, !.phase = "asking"]
  ELSE [r EXCEPT !.asked = @ - 1, !.tries = 0]

\* An empty result is free; a malformed one may have been billed.
Search(result) ==
  /\ call.phase = "searching"
  /\ call' =
       IF SearchesLeft
       THEN LET fee == IF result = "empty" THEN 0 ELSE 1
            IN Searched([call EXCEPT !.searches = @ + 1,
                                     !.cost = AddCost(@, fee), !.paid = @ + fee,
                                     !.grounded = @ \/ result = "found"])
       ELSE Searched(call)

\* A search that fails is tried again; when given up, or when the model did
\* not ask in the agreed form, the model is told and the request goes on.
SearchFails(transient) ==
  /\ call.phase = "searching" /\ SearchesLeft
  /\ LET r == [call EXCEPT !.tries = @ + 1]
     IN call' = IF r.tries < Tries /\ transient THEN r
                ELSE Searched([r EXCEPT !.searches = @ + 1])

CallNext ==
  \/ \E c \in Callers : AskModel(c)
  \/ \E transient \in BOOLEAN : RequestFails(transient) \/ SearchFails(transient)
  \/ \E cost \in Costs :
       \/ \E fee \in Fees : \/ Replies(cost, fee)
                          \/ \E mute \in BOOLEAN : MisfitReply(cost, fee, mute)
       \/ \E n \in 1..MaxAsked : AsksToSearch(cost, n)
  \/ \E result \in {"found", "empty", "malformed"} : Search(result)

CallSpec == CallInit /\ [][CallNext]_call

-----------------------------------------------------------------------------
(* Properties.                                                             *)

\* Type invariant of a request; the counts have no bound of the model's own.
CallTypeOK ==
  /\ call.client \in Callers
  /\ call.phase \in {"asking", "searching", "answered", "unknown", "raised"}
  /\ call.turn \in 1..Policy.turns
  /\ call.tries \in 0..Tries
  /\ call.cost \in Nat \cup {Unknown} /\ call.paid \in Nat
  /\ call.asked \in 0..MaxAsked
  /\ call.unpriced \in BOOLEAN /\ call.grounded \in BOOLEAN

\* What a request tells of its cost when it is over.
Reports == call.phase \in {"answered", "unknown"} /\ call.cost # Unknown

\* A cost that is reported is all that was paid, over every try, repair,
\* search and fee; a part of unknown price is never reported as a smaller
\* sum.  The one exception is the recipe client of Gemini, whose cost may lack
\* the fee of its one grounded reply and nothing else.
ReportedCostIsWhole ==
  Reports => /\ ~call.unpriced
             /\ IF Policy.grounding = "omitted"
                THEN call.paid \in {call.cost, call.cost + 1}
                ELSE call.paid = call.cost

\* Whatever the provider answers, one request costs a bounded effort.
EffortIsBounded ==
  /\ call.requests <= Policy.tries * Policy.turns
  /\ call.searches <= MaxSearches

\* A shelf life is answered only on evidence of this very request.
AnswersHaveEvidence ==
  call.phase = "answered" /\ Policy.evidence => call.grounded /\ call.searches > 0

\* One request, over all its tries, turns and searches.
CallsSound == ReportedCostIsWhole /\ EffortIsBounded /\ AnswersHaveEvidence
=============================================================================
