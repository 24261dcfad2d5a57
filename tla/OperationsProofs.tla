-------------------------- MODULE OperationsProofs --------------------------
(***************************************************************************)
(* Safety of a request to a model and of a search for recipes, for any     *)
(* callers, limits, costs and attempts, and of the operations in which     *)
(* these stand beside the components of the modules extended here.         *)
(***************************************************************************)
EXTENDS Operations, BillingProofs, MembershipProofs, ConsoleProofs

-----------------------------------------------------------------------------
(* ModelCalls.                                                             *)
(* The requests made are those of the turns before and of the tries of     *)
(* this one.                                                               *)

\* A policy, and what is left of it.
PolicyRecord ==
  [tries : {1, Tries}, picky : BOOLEAN, turns : {1, 2, MaxSearches + 1}, mute : {"refused", "repaired"},
   tools : BOOLEAN, grounding : {"none", "charged", "omitted"}, evidence : BOOLEAN, degrades : BOOLEAN]

CallRecord ==
  [client : Callers, phase : {"asking", "searching", "answered", "unknown", "raised"},
   turn : Nat \ {0}, tries : Nat, cost : Nat \cup {Unknown}, paid : Nat, unpriced : BOOLEAN,
   requests : Nat, searches : Nat, asked : 0..MaxAsked, grounded : BOOLEAN]

\* What was paid beside the reported cost: nothing, or the fee of the one reply
\* of a client that leaves it out.
Whole(r) ==
  r.cost # Unknown =>
    /\ ~r.unpriced
    /\ IF Policies[r.client].grounding = "omitted"
       THEN r.paid \in {r.cost, r.cost + 1} ELSE r.paid = r.cost

\* The most requests that so many turns of a client take.
Effort(c, turns) == Policies[c].tries * turns

\* The requests so far are those of the turns before and the tries of this one.
Measured(r) ==
  /\ r.phase = "asking" => /\ r.tries < Policies[r.client].tries
                           /\ r.requests <= Effort(r.client, r.turn - 1) + r.tries
  /\ r.phase = "searching" => r.tries < Tries /\ r.turn < Policies[r.client].turns /\ r.asked > 0
  /\ r.phase # "asking" => r.requests <= Effort(r.client, r.turn)
  /\ r.phase \in {"asking", "searching"} /\ r.cost # Unknown => r.paid = r.cost

\* What a reply leads to, whatever it is, rests on this.
CallsCounted(r) ==
  /\ r \in CallRecord
  /\ r.turn <= Policies[r.client].turns /\ r.tries <= Tries /\ r.searches <= MaxSearches
  /\ Whole(r)
  /\ r.grounded => r.searches > 0

Good(r) ==
  /\ CallsCounted(r) /\ Measured(r)
  /\ r.phase = "answered" /\ Policies[r.client].evidence => r.grounded

CallInv == Good(call)

LEMMA PoliciesAre ==
  ASSUME NEW c \in Callers
  PROVE  /\ Policies[c] \in PolicyRecord
         /\ Policies[c].grounding = "omitted" => Policies[c].turns = 1
<1> DEFINE Fits(p) == p \in PolicyRecord /\ (p.grounding = "omitted" => p.turns = 1)
<1>1. Fits(Plain) /\ Fits(Searching) /\ Fits(GeminiRecipe)
  BY DEF Plain, Searching, GeminiRecipe, PolicyRecord
<1>2. /\ Fits(AnthropicReceipt) /\ Fits(AnthropicText) /\ Fits(AnthropicCook)
      /\ Fits(OpenAICook) /\ Fits(AnthropicRecipe) /\ Fits(OpenAIRecipe)
  BY DEF PolicyRecord, Plain, AnthropicReceipt, AnthropicText, AnthropicCook, OpenAICook,
     AnthropicRecipe, OpenAIRecipe
<1>3. Fits(DeepSeekText) /\ Fits(DeepSeekSearch) /\ Fits(DeepSeekCook)
  BY DEF PolicyRecord, Plain, DeepSeekText, DeepSeekSearch, DeepSeekCook
<1>4. /\ Fits(GeminiSearch) /\ Fits(AnthropicSearch) /\ Fits(AnthropicTranslation)
      /\ Fits(OpenAITranslation)
  BY DEF PolicyRecord, Plain, Searching, GeminiSearch, AnthropicSearch, AnthropicTranslation,
     OpenAITranslation
<1>5. /\ Fits(OpenAIReceipt) /\ Fits(GeminiReceipt) /\ Fits(OpenAIText)
      /\ Fits(GeminiStructured) /\ Fits(DeepSeekTranslation)
  BY <1>1 DEF OpenAIReceipt, GeminiReceipt, OpenAIText, GeminiStructured, DeepSeekTranslation
<1> HIDE DEF Fits
<1>6. c \in DOMAIN Policies
  BY CallersAreClients
<1>7. Fits(Policies[c])
  BY <1>1, <1>2, <1>3, <1>4, <1>5, <1>6 DEF Policies
<1>8. QED
  BY <1>7 DEF Fits

LEMMA EffortIs ==
  ASSUME NEW c \in Callers, NEW n \in Nat
  PROVE  /\ Policies[c].tries \in Nat /\ Effort(c, n) \in Nat
         /\ Effort(c, n + 1) = Effort(c, n) + Policies[c].tries
         /\ \A m \in Nat : m <= n => Effort(c, m) <= Effort(c, n)
<1> DEFINE p == Policies[c].tries
<1>1. p \in Nat
  BY PoliciesAre, ModelCallsAssumption DEF PolicyRecord
<1> HIDE DEF p
<1>2. p * n \in Nat /\ p * (n + 1) = p * n + p
  BY <1>1
<1>3. ASSUME NEW m \in Nat, m <= n PROVE p * m <= p * n
  BY <1>1, <1>3
<1>4. QED
  BY <1>1, <1>2, <1>3 DEF Effort, p

\* A request that ends with its turns not used up has made no more of them.
LEMMA CallEnds ==
  ASSUME NEW r, CallsCounted(r), r.requests <= Effort(r.client, r.turn)
  PROVE  /\ Good(Abandoned(r)) /\ Good(Refused(r))
         /\ Suffices(r) => Good([r EXCEPT !.phase = "answered"])
<1>1. r \in CallRecord
  BY DEF CallsCounted
<1>2. ASSUME NEW phase \in {"answered", "unknown", "raised"}, NEW cost \in {r.cost, Unknown},
             phase = "answered" /\ Policies[r.client].evidence => r.grounded,
             NEW t, t = [r EXCEPT !.phase = phase, !.cost = cost]
      PROVE  Good(t)
  <2>1. /\ t \in CallRecord /\ t.phase = phase /\ t.cost = cost /\ t.client = r.client
        /\ t.turn = r.turn /\ t.tries = r.tries /\ t.searches = r.searches /\ t.paid = r.paid
        /\ t.unpriced = r.unpriced /\ t.grounded = r.grounded /\ t.requests = r.requests
    BY <1>1, <1>2 DEF CallRecord
  <2>2. QED
    BY <1>2, <2>1 DEF Good, CallsCounted, Measured, Whole
<1>3. /\ \A phase \in {"answered", "unknown", "raised"} :
           [r EXCEPT !.phase = phase] = [r EXCEPT !.phase = phase, !.cost = r.cost]
  BY <1>1 DEF CallRecord
<1>4. Good(Abandoned(r))
  <2>1. \E phase \in {"unknown", "raised"} : Abandoned(r) = [r EXCEPT !.phase = phase, !.cost = Unknown]
    BY DEF Abandoned
  <2>2. QED
    BY <1>2, <2>1
<1>5. Good(Refused(r))
  BY <1>2, <1>3, <1>4 DEF Refused
<1>6. Suffices(r) => Good([r EXCEPT !.phase = "answered"])
  BY <1>2, <1>3 DEF Suffices
<1>7. QED
  BY <1>4, <1>5, <1>6

LEMMA CallIs ==
  ASSUME CallInv
  PROVE  /\ call \in CallRecord /\ CallsCounted(call) /\ call.client \in Callers
         /\ Policy = Policies[call.client] /\ Policy \in PolicyRecord
         /\ Policy.tries \in Nat \ {0} /\ Policy.tries <= Tries
         /\ call.turn \in Nat /\ call.turn - 1 \in Nat /\ call.tries \in Nat /\ call.requests \in Nat
         /\ call.searches \in Nat /\ MaxSearches \in Nat /\ Tries \in Nat
         /\ Effort(call.client, call.turn) \in Nat /\ Effort(call.client, call.turn - 1) \in Nat
         /\ Effort(call.client, call.turn) = Effort(call.client, call.turn - 1) + Policy.tries
<1>1. call \in CallRecord /\ CallsCounted(call) /\ call.client \in Callers
  BY DEF CallInv, Good, CallsCounted, CallRecord
<1>2. Policy = Policies[call.client] /\ Policy \in PolicyRecord
  BY <1>1, PoliciesAre DEF Policy
<1>3. Policy.tries \in Nat \ {0} /\ Policy.tries <= Tries
  BY <1>2, ModelCallsAssumption DEF PolicyRecord
<1>4. call.turn \in Nat /\ call.turn - 1 \in Nat /\ call.turn = (call.turn - 1) + 1
  BY <1>1 DEF CallRecord
<1>5. /\ call.tries \in Nat /\ call.requests \in Nat /\ call.searches \in Nat
      /\ MaxSearches \in Nat /\ Tries \in Nat
  BY <1>1, ModelCallsAssumption DEF CallRecord
<1>6. /\ Effort(call.client, call.turn) \in Nat /\ Effort(call.client, call.turn - 1) \in Nat
      /\ Effort(call.client, call.turn) = Effort(call.client, call.turn - 1) + Policy.tries
  BY <1>1, <1>2, <1>4, EffortIs
<1>7. QED
  BY <1>1, <1>2, <1>3, <1>4, <1>5, <1>6

\* While a request is under way its cost, if known, is all that was paid; and a
\* client that takes another turn leaves out nothing.
LEMMA PaidIs ==
  ASSUME CallInv
  PROVE  /\ call.phase \in {"asking", "searching"} /\ call.cost # Unknown =>
              ~call.unpriced /\ call.paid = call.cost
         /\ call.turn < Policy.turns => Policy.grounding # "omitted"
<1>1. call.turn < Policy.turns => Policy.grounding # "omitted"
  <2>1. Policy.grounding = "omitted" => Policy.turns = 1
    BY CallIs, PoliciesAre
  <2>2. call.turn \in Nat \ {0}
    BY CallIs DEF CallRecord
  <2>3. QED
    BY <2>1, <2>2
<1>2. QED
  BY <1>1 DEF CallInv, Good, CallsCounted, Measured, Whole

LEMMA CostsAdd ==
  ASSUME NEW cost \in Nat \cup {Unknown}, NEW extra \in Nat \cup {Unknown}
  PROVE  /\ AddCost(cost, extra) \in Nat \cup {Unknown}
         /\ AddCost(cost, extra) # Unknown =>
              cost # Unknown /\ extra # Unknown /\ AddCost(cost, extra) = cost + extra
BY ModelCallsAssumption DEF AddCost

\* A reply has arrived: the turn has made its requests.
LEMMA ReceivedIs ==
  ASSUME CallInv, call.phase = "asking", NEW cost \in Costs, NEW fee \in Fees
  PROVE  /\ CallsCounted(Received(call, cost, fee)) /\ Received(call, cost, fee).client = call.client
         /\ Received(call, cost, fee).phase = "asking" /\ Received(call, cost, fee).turn = call.turn
         /\ Received(call, cost, fee).tries = 0
         /\ Received(call, cost, fee).requests <= Effort(call.client, call.turn)
         /\ Policy.grounding # "omitted" /\ Received(call, cost, fee).cost # Unknown =>
              Received(call, cost, fee).paid = Received(call, cost, fee).cost
<1> DEFINE r == Received(call, cost, fee)
           more == AddCost(cost, FeeAdded(fee))
           sum == AddCost(call.cost, more)
           paid == fee + IF cost = Unknown THEN call.paid ELSE call.paid + cost
           unpriced == call.unpriced \/ cost = Unknown
           made == call.requests + 1
<1>1. /\ cost \in Nat \cup {Unknown} /\ call.cost \in Nat \cup {Unknown} /\ call.paid \in Nat
      /\ call.unpriced \in BOOLEAN /\ fee \in {0, 1} /\ FeeAdded(fee) \in Nat
  BY CallIs DEF Costs, CallRecord, Fees, FeeAdded
<1>2. /\ sum \in Nat \cup {Unknown}
      /\ sum # Unknown => /\ cost # Unknown /\ call.cost # Unknown /\ call.cost \in Nat
                          /\ cost \in Nat /\ sum = call.cost + (cost + FeeAdded(fee))
  <2>1. /\ more \in Nat \cup {Unknown}
        /\ more # Unknown => cost # Unknown /\ more = cost + FeeAdded(fee)
    BY <1>1, CostsAdd
  <2>2. /\ sum \in Nat \cup {Unknown}
        /\ sum # Unknown => call.cost # Unknown /\ more # Unknown /\ sum = call.cost + more
    BY <1>1, <2>1, CostsAdd
  <2>3. QED
    BY <1>1, <2>1, <2>2
<1>3. paid \in Nat /\ unpriced \in BOOLEAN
  BY <1>1, ModelCallsAssumption
<1>4. call.cost # Unknown => ~call.unpriced /\ call.cost = call.paid
  BY CallIs DEF CallsCounted, Whole, CallInv, Good, Measured
<1>5. /\ sum # Unknown => ~unpriced /\ paid \in {sum, sum + 1}
      /\ sum # Unknown /\ Policy.grounding # "omitted" => paid = sum
  <2> SUFFICES ASSUME sum # Unknown
               PROVE  /\ ~unpriced /\ paid \in {sum, sum + 1}
                      /\ Policy.grounding # "omitted" => paid = sum
    OBVIOUS
  <2>1. /\ ~unpriced /\ paid = fee + (call.cost + cost) /\ sum = call.cost + (cost + FeeAdded(fee))
        /\ call.cost \in Nat /\ cost \in Nat /\ fee \in {0, 1}
    BY <1>1, <1>2, <1>4
  <2>2. FeeAdded(fee) \in {0, fee} /\ (Policy.grounding # "omitted" => FeeAdded(fee) = fee)
    <3>1. Policy.grounding \in {"none", "charged", "omitted"}
      BY CallIs DEF PolicyRecord
    <3>2. QED
      BY <3>1 DEF FeeAdded, Fees
  <2> HIDE DEF sum, paid, unpriced, more
  <2>3. QED
    BY <2>1, <2>2
<1>6. r = [call EXCEPT !.cost = sum, !.requests = made, !.tries = 0, !.paid = paid, !.unpriced = unpriced]
  BY DEF Received
<1>7. /\ call.tries < Policy.tries /\ call.requests <= Effort(call.client, call.turn - 1) + call.tries
  BY CallIs DEF CallInv, Good, Measured
<1>8. made \in Nat /\ made <= Effort(call.client, call.turn)
  <2> DEFINE e == Effort(call.client, call.turn)
             b == Effort(call.client, call.turn - 1)
  <2>1. /\ e \in Nat /\ b \in Nat /\ e = b + Policy.tries /\ call.requests <= b + call.tries
        /\ call.requests \in Nat /\ call.tries \in Nat /\ Policy.tries \in Nat
    BY <1>7, CallIs
  <2> HIDE DEF e, b
  <2>2. call.requests + 1 \in Nat /\ call.requests + 1 <= e
    BY <1>7, <2>1
  <2>3. QED
    BY <2>2 DEF e
<1> HIDE DEF more, sum, paid, unpriced, made, r
<1>9. /\ r \in CallRecord /\ r.client = call.client /\ r.phase = call.phase /\ r.turn = call.turn
      /\ r.tries = 0 /\ r.requests = made /\ r.cost = sum /\ r.paid = paid /\ r.unpriced = unpriced
      /\ r.searches = call.searches /\ r.grounded = call.grounded
  <2>1. call \in CallRecord /\ 0 \in Nat
    BY CallIs
  <2>2. QED
    BY <1>2, <1>3, <1>6, <1>8, <2>1 DEF CallRecord
<1>10. CallsCounted(r)
  <2>1. Whole(r)
    BY <1>5, <1>9, CallIs DEF Whole
  <2>2. QED
    BY <1>9, <2>1, CallIs, ModelCallsAssumption DEF CallsCounted
<1>11. QED
  BY <1>1, <1>5, <1>8, <1>9, <1>10 DEF r

\* What follows a reply: the end, another turn, or its searches.
LEMMA ReplyKeeps ==
  ASSUME CallInv, NEW cost \in Costs, NEW fee \in Fees,
         \/ Replies(cost, fee) \/ \E mute \in BOOLEAN : MisfitReply(cost, fee, mute)
         \/ fee = 0 /\ \E n \in 1..MaxAsked : AsksToSearch(cost, n)
  PROVE  CallInv'
<1> DEFINE r == Received(call, cost, fee)
<1>1. call.phase = "asking"
  BY DEF Replies, MisfitReply, AsksToSearch
<1>2. /\ CallsCounted(r) /\ r.client = call.client /\ r.phase = "asking" /\ r.turn = call.turn
      /\ r.tries = 0 /\ r.requests <= Effort(call.client, call.turn)
      /\ Policy.grounding # "omitted" /\ r.cost # Unknown => r.paid = r.cost
  BY <1>1, ReceivedIs
<1> HIDE DEF r
<1>3. /\ r \in CallRecord /\ r.requests <= Effort(r.client, r.turn) /\ r.turn \in Nat
      /\ Policies[r.client] = Policy
  BY <1>2, CallIs DEF CallsCounted, Whole
<1>4. Good(Abandoned(r)) /\ Good(Refused(r)) /\ (Suffices(r) => Good([r EXCEPT !.phase = "answered"]))
  BY <1>2, <1>3, CallEnds
<1>5. CASE Replies(cost, fee)
  <2>1. call' = IF Suffices(r) THEN [r EXCEPT !.phase = "answered"] ELSE Refused(r)
    BY <1>5 DEF Replies, r
  <2>2. Good(call')
    BY <1>4, <2>1
  <2>3. QED
    BY <2>2 DEF CallInv, Good, CallsCounted, Measured, Whole
<1>6. ASSUME NEW mute \in BOOLEAN, MisfitReply(cost, fee, mute) PROVE Good(call')
  <2> DEFINE t == [r EXCEPT !.turn = @ + 1]
  <2>1. call' = IF MayRepair(mute) THEN t ELSE Refused(r)
    BY <1>6 DEF MisfitReply, r
  <2>2. ASSUME MayRepair(mute) PROVE Good(t)
    <3>1. r.turn < Policies[r.client].turns
      BY <1>2, <1>3, <2>2 DEF MayRepair
    <3>2. /\ t \in CallRecord /\ t.client = r.client /\ t.phase = "asking" /\ t.turn = r.turn + 1
          /\ t.tries = 0 /\ t.requests = r.requests /\ t.cost = r.cost /\ t.paid = r.paid
          /\ t.unpriced = r.unpriced /\ t.searches = r.searches /\ t.grounded = r.grounded
      BY <1>2, <1>3 DEF CallRecord
    <3>3. Policies[r.client].turns \in Nat
      BY <1>3, CallIs, ModelCallsAssumption DEF PolicyRecord
    <3> HIDE DEF t
    <3>4. CallsCounted(t)
      BY <1>2, <1>3, <3>1, <3>2, <3>3 DEF CallsCounted, Whole
    <3>5. t.turn - 1 = r.turn /\ t.tries < Policies[t.client].tries
      BY <1>3, <3>2, CallIs
    <3>6. t.requests <= Effort(t.client, t.turn - 1) + t.tries
      <4> DEFINE e == Effort(r.client, r.turn)
      <4>1. e \in Nat /\ r.requests <= e /\ r.requests \in Nat
        BY <1>2, <1>3, CallIs DEF CallRecord
      <4>2. Effort(t.client, t.turn - 1) = e
        BY <3>2, <3>5
      <4> HIDE DEF e
      <4>3. QED
        BY <3>2, <4>1, <4>2
    <3>7. t.cost # Unknown => t.paid = t.cost
      BY <1>2, <1>3, <3>1, <3>2, PaidIs
    <3>8. Measured(t)
      BY <3>2, <3>5, <3>6, <3>7 DEF Measured
    <3>9. QED
      BY <3>2, <3>4, <3>8 DEF Good
  <2>3. QED
    BY <1>4, <2>1, <2>2
<1>7. ASSUME NEW n \in 1..MaxAsked, fee = 0, AsksToSearch(cost, n) PROVE Good(call')
  <2> DEFINE t == [r EXCEPT !.phase = "searching", !.asked = n]
  <2>1. call' = IF CanSearch THEN t ELSE Abandoned(r)
    BY <1>7 DEF AsksToSearch, r
  <2>2. ASSUME CanSearch PROVE Good(t)
    <3>1. n \in 0..MaxAsked /\ n > 0
      BY ModelCallsAssumption
    <3>2. /\ t \in CallRecord /\ t.client = r.client /\ t.phase = "searching" /\ t.turn = r.turn
          /\ t.tries = 0 /\ t.requests = r.requests /\ t.cost = r.cost /\ t.paid = r.paid
          /\ t.unpriced = r.unpriced /\ t.searches = r.searches /\ t.grounded = r.grounded
          /\ t.asked = n
      BY <1>2, <1>3, <3>1 DEF CallRecord
    <3>3. t.turn < Policies[t.client].turns
      BY <1>2, <1>3, <2>2, <3>2 DEF CanSearch
    <3> HIDE DEF t
    <3>4. CallsCounted(t)
      BY <1>2, <3>2 DEF CallsCounted, Whole
    <3>5. 0 < Tries
      BY ModelCallsAssumption
    <3>6. t.cost # Unknown => t.paid = t.cost
      BY <1>2, <1>3, <3>2, <3>3, PaidIs
    <3>7. Measured(t)
      BY <1>2, <1>3, <3>1, <3>2, <3>3, <3>5, <3>6 DEF Measured
    <3>8. QED
      BY <3>2, <3>4, <3>7 DEF Good
  <2>3. QED
    BY <1>4, <2>1, <2>2
<1>8. Good(call') => CallInv'
  BY DEF CallInv, Good, CallsCounted, Measured, Whole
<1>9. QED
  BY <1>5, <1>6, <1>7, <1>8

LEMMA RequestFailsKeeps ==
  ASSUME CallInv, NEW transient \in BOOLEAN, RequestFails(transient)
  PROVE  CallInv'
<1> DEFINE made == call.requests + 1
           tries == call.tries + 1
           r == [call EXCEPT !.requests = made, !.tries = tries]
<1>1. /\ call.phase = "asking"
      /\ call' = IF r.tries = Policy.tries \/ (Policy.picky /\ ~transient) THEN Abandoned(r) ELSE r
  BY DEF RequestFails
<1> HIDE DEF made, tries
<1>2. made \in Nat /\ tries \in Nat /\ made = call.requests + 1 /\ tries = call.tries + 1
  BY CallIs DEF CallRecord, made, tries
<1>3. /\ r \in CallRecord /\ r.client = call.client /\ r.phase = "asking" /\ r.turn = call.turn
      /\ r.tries = call.tries + 1 /\ r.requests = call.requests + 1 /\ r.cost = call.cost
      /\ r.paid = call.paid /\ r.unpriced = call.unpriced /\ r.searches = call.searches
      /\ r.grounded = call.grounded
  BY <1>1, <1>2, CallIs DEF CallRecord
<1> HIDE DEF r
<1>4. call.tries < Policy.tries /\ call.requests <= Effort(call.client, call.turn - 1) + call.tries
  BY <1>1, CallIs DEF CallInv, Good, Measured
<1> DEFINE e == Effort(call.client, call.turn)
           b == Effort(call.client, call.turn - 1)
<1>5. /\ e \in Nat /\ b \in Nat /\ e = b + Policy.tries /\ call.requests <= b + call.tries
      /\ call.requests \in Nat /\ call.tries \in Nat /\ Policy.tries \in Nat /\ Policy.tries <= Tries
      /\ Tries \in Nat
  BY <1>4, CallIs
<1>6. e = Effort(r.client, r.turn) /\ b = Effort(r.client, r.turn - 1)
  <2>1. r.client = call.client /\ r.turn = call.turn
    BY <1>3
  <2>2. QED
    BY <2>1
<1> HIDE DEF e, b
<1>7. r.requests <= e /\ r.requests <= b + r.tries /\ r.tries <= Tries /\ r.tries <= Policy.tries
  BY <1>3, <1>4, <1>5
<1>8. CallsCounted(r)
  BY <1>3, <1>7, CallIs DEF CallsCounted, Whole
<1>9. Good(Abandoned(r))
  BY <1>6, <1>7, <1>8, CallEnds
<1>10. ASSUME r.tries # Policy.tries PROVE Good(r)
  <2>1. r.tries < Policy.tries
    BY <1>3, <1>5, <1>7, <1>10
  <2>2. QED
    <3>1. r.cost # Unknown => r.paid = r.cost
      BY <1>1, <1>3, PaidIs
    <3>2. Measured(r)
      BY <1>3, <1>6, <1>7, <2>1, <3>1, CallIs DEF Measured
    <3>3. QED
      BY <1>3, <1>8, <3>2 DEF Good
<1>11. Good(call')
  BY <1>1, <1>9, <1>10
<1>12. QED
  BY <1>11 DEF CallInv, Good, CallsCounted, Measured, Whole

\* A search is done with: the next one, or the next turn.
LEMMA SearchedIs ==
  ASSUME NEW r, CallsCounted(r), r.phase = "searching", r.asked > 0,
         r.turn < Policies[r.client].turns, r.requests <= Effort(r.client, r.turn),
         r.cost # Unknown => r.paid = r.cost
  PROVE  Good(Searched(r))
<1> DEFINE next == [r EXCEPT !.asked = 0, !.tries = 0, !.turn = @ + 1, !.phase = "asking"]
           rest == [r EXCEPT !.asked = @ - 1, !.tries = 0]
<1>1. Searched(r) = IF r.asked = 1 THEN next ELSE rest
  BY DEF Searched
<1>2. /\ r \in CallRecord /\ r.client \in Callers /\ r.turn \in Nat /\ r.requests \in Nat
      /\ r.asked \in 0..MaxAsked
  BY DEF CallsCounted, CallRecord
<1>3. /\ Policies[r.client].tries \in Nat \ {0} /\ Policies[r.client].turns \in Nat
      /\ Tries \in Nat \ {0} /\ MaxAsked \in Nat
  BY <1>2, PoliciesAre, ModelCallsAssumption DEF PolicyRecord
<1>4. ASSUME r.asked = 1 PROVE Good(next)
  <2>1. r.turn + 1 \in Nat \ {0} /\ 0 \in 0..MaxAsked
    BY <1>2, <1>3
  <2>2. /\ next \in CallRecord /\ next.client = r.client /\ next.phase = "asking" /\ next.turn = r.turn + 1
        /\ next.tries = 0 /\ next.requests = r.requests /\ next.cost = r.cost /\ next.paid = r.paid
        /\ next.unpriced = r.unpriced /\ next.searches = r.searches /\ next.grounded = r.grounded
    BY <1>2, <2>1 DEF CallRecord
  <2> HIDE DEF next
  <2>3. next.turn <= Policies[next.client].turns /\ next.turn - 1 = r.turn
    BY <1>2, <1>3, <2>2
  <2>4. next.requests <= Effort(next.client, next.turn - 1) + next.tries
    <3> DEFINE e == Effort(r.client, r.turn)
    <3>1. e \in Nat /\ r.requests <= e /\ Effort(next.client, next.turn - 1) = e
      BY <1>2, <2>2, <2>3, EffortIs
    <3> HIDE DEF e
    <3>2. QED
      BY <1>2, <2>2, <3>1
  <2>5. QED
    <3>1. CallsCounted(next)
      BY <1>3, <2>2, <2>3 DEF CallsCounted, Whole
    <3>2. Measured(next)
      BY <1>3, <2>2, <2>3, <2>4 DEF Measured
    <3>3. QED
      BY <2>2, <3>1, <3>2 DEF Good
<1>5. ASSUME r.asked # 1 PROVE Good(rest)
  <2>1. r.asked - 1 \in 0..MaxAsked /\ r.asked - 1 > 0
    BY <1>2, <1>3, <1>5
  <2>2. /\ rest \in CallRecord /\ rest.client = r.client /\ rest.phase = "searching" /\ rest.turn = r.turn
        /\ rest.tries = 0 /\ rest.requests = r.requests /\ rest.cost = r.cost /\ rest.paid = r.paid
        /\ rest.unpriced = r.unpriced /\ rest.searches = r.searches /\ rest.grounded = r.grounded
        /\ rest.asked = r.asked - 1
    BY <1>2, <2>1 DEF CallRecord
  <2> HIDE DEF rest
  <2>3. QED
    <3>1. CallsCounted(rest)
      BY <1>3, <2>2 DEF CallsCounted, Whole
    <3>2. Measured(rest)
      BY <1>3, <2>1, <2>2 DEF Measured
    <3>3. QED
      BY <2>2, <3>1, <3>2 DEF Good
<1>6. QED
  BY <1>1, <1>4, <1>5

LEMMA SearchKeeps ==
  ASSUME CallInv, NEW result \in {"found", "empty", "malformed"}, Search(result)
  PROVE  CallInv'
<1>1. /\ call.phase = "searching" /\ call.asked > 0 /\ call.turn < Policies[call.client].turns
      /\ call.requests <= Effort(call.client, call.turn)
  BY DEF Search, CallInv, Good, Measured
<1> DEFINE fee == IF result = "empty" THEN 0 ELSE 1
           sum == AddCost(call.cost, fee)
           grounded == call.grounded \/ result = "found"
           searches == call.searches + 1
           paid == call.paid + fee
           r == [call EXCEPT !.searches = searches, !.cost = sum, !.paid = paid, !.grounded = grounded]
<1>2. call' = IF SearchesLeft THEN Searched(r) ELSE Searched(call)
  BY DEF Search
<1>3. ASSUME SearchesLeft PROVE Good(Searched(r))
  <2>1. fee \in Nat /\ call.cost \in Nat \cup {Unknown} /\ call.paid \in Nat /\ call.searches \in Nat
        /\ call.grounded \in BOOLEAN
    BY CallIs DEF CallRecord
  <2>2. sum \in Nat \cup {Unknown} /\ (sum # Unknown => call.cost # Unknown /\ sum = call.cost + fee)
    BY <2>1, CostsAdd
  <2>3. paid \in Nat /\ searches \in Nat /\ grounded \in BOOLEAN /\ searches > 0
    BY <2>1
  <2>4. searches <= MaxSearches
    BY <1>3, <2>1, CallIs DEF SearchesLeft
  <2>5. sum # Unknown => ~call.unpriced /\ sum = paid
    BY <1>1, <2>2, PaidIs
  <2> HIDE DEF fee, sum, grounded, searches, paid
  <2>6. /\ r \in CallRecord /\ r.client = call.client /\ r.phase = "searching" /\ r.turn = call.turn
        /\ r.tries = call.tries /\ r.requests = call.requests /\ r.cost = sum /\ r.paid = paid
        /\ r.unpriced = call.unpriced /\ r.searches = searches /\ r.grounded = grounded
        /\ r.asked = call.asked
    BY <1>1, <2>2, <2>3, CallIs DEF CallRecord
  <2> HIDE DEF r
  <2>7. CallsCounted(r)
    <3>1. Whole(r)
      BY <1>1, <2>5, <2>6, CallIs, PaidIs DEF Whole
    <3>2. QED
      BY <2>3, <2>4, <2>6, <3>1, CallIs DEF CallsCounted
  <2>8. QED
    BY <1>1, <2>5, <2>6, <2>7, SearchedIs
<1>4. Good(Searched(call))
  BY <1>1, CallIs, PaidIs, SearchedIs
<1>5. Good(call')
  BY <1>2, <1>3, <1>4
<1>6. QED
  BY <1>5 DEF CallInv, Good, CallsCounted, Measured, Whole

LEMMA SearchFailsKeeps ==
  ASSUME CallInv, NEW transient \in BOOLEAN, SearchFails(transient)
  PROVE  CallInv'
<1>1. /\ call.phase = "searching" /\ call.asked > 0 /\ call.turn < Policies[call.client].turns
      /\ call.requests <= Effort(call.client, call.turn) /\ SearchesLeft /\ call.tries < Tries
  BY DEF SearchFails, CallInv, Good, Measured
<1> DEFINE tries == call.tries + 1
           searches == call.searches + 1
           r == [call EXCEPT !.tries = tries]
           given == [r EXCEPT !.searches = searches]
<1>2. call' = IF r.tries < Tries /\ transient THEN r ELSE Searched(given)
  <2>1. r.searches = call.searches
    BY CallIs DEF CallRecord
  <2>2. QED
    BY <2>1 DEF SearchFails
<1>3. tries \in Nat /\ tries <= Tries /\ searches \in Nat /\ searches <= MaxSearches /\ searches > 0
  BY <1>1, CallIs DEF SearchesLeft
<1> HIDE DEF tries, searches
<1>4. /\ r \in CallRecord /\ r.client = call.client /\ r.phase = "searching" /\ r.turn = call.turn
      /\ r.tries = tries /\ r.requests = call.requests /\ r.cost = call.cost /\ r.paid = call.paid
      /\ r.unpriced = call.unpriced /\ r.searches = call.searches /\ r.grounded = call.grounded
      /\ r.asked = call.asked
  BY <1>1, <1>3, CallIs DEF CallRecord
<1> HIDE DEF r
<1>5. /\ given \in CallRecord /\ given.client = call.client /\ given.phase = "searching"
      /\ given.turn = call.turn /\ given.tries = tries /\ given.requests = call.requests
      /\ given.cost = call.cost /\ given.paid = call.paid /\ given.unpriced = call.unpriced
      /\ given.searches = searches /\ given.grounded = call.grounded /\ given.asked = call.asked
  BY <1>3, <1>4 DEF CallRecord
<1> HIDE DEF given
<1>6. CallsCounted(r) /\ CallsCounted(given)
  BY <1>3, <1>4, <1>5, CallIs DEF CallsCounted, Whole
<1>7. Good(Searched(given))
  BY <1>1, <1>5, <1>6, PaidIs, SearchedIs
<1>8. r.tries < Tries => Good(r)
  <2>1. r.cost # Unknown => r.paid = r.cost
    BY <1>1, <1>4, PaidIs
  <2>2. r.tries < Tries => Measured(r)
    BY <1>1, <1>4, <2>1 DEF Measured
  <2>3. QED
    BY <1>4, <1>6, <2>2 DEF Good
<1>9. Good(call')
  BY <1>2, <1>7, <1>8
<1>10. QED
  BY <1>9 DEF CallInv, Good, CallsCounted, Measured, Whole

LEMMA FreshIs ==
  ASSUME NEW c \in Callers
  PROVE  Good(Fresh(c))
<1> DEFINE r == Fresh(c)
<1>1. /\ r \in CallRecord /\ r.client = c /\ r.phase = "asking" /\ r.turn = 1 /\ r.tries = 0
      /\ r.requests = 0 /\ r.cost = 0 /\ r.paid = 0 /\ r.unpriced = FALSE /\ r.searches = 0
      /\ r.grounded = FALSE
  BY ModelCallsAssumption DEF Fresh, CallRecord
<1> HIDE DEF r
<1>2. /\ Policies[c].turns >= 1 /\ Policies[c].tries > 0 /\ 0 <= Tries /\ 0 <= MaxSearches
      /\ 1 - 1 = 0 /\ 0 \in Nat
  BY PoliciesAre, ModelCallsAssumption DEF PolicyRecord
<1>3. 0 <= Effort(c, 0) + 0
  BY <1>2, EffortIs
<1>4. QED
  BY <1>1, <1>2, <1>3 DEF Good, CallsCounted, Measured, Whole, r

LEMMA CallInductive ==
  /\ CallInit => CallInv
  /\ CallInv /\ [CallNext]_call => CallInv'
<1>1. CallInit => CallInv
  BY FreshIs DEF CallInit, CallInv
<1>2. ASSUME CallInv, NEW c \in Callers, AskModel(c) PROVE CallInv'
  <2>1. Good(call')
    BY <1>2, FreshIs DEF AskModel
  <2>2. QED
    BY <2>1 DEF CallInv, Good, CallsCounted, Measured, Whole
<1>3. ASSUME CallInv, NEW transient \in BOOLEAN, RequestFails(transient) \/ SearchFails(transient)
      PROVE  CallInv'
  BY <1>3, RequestFailsKeeps, SearchFailsKeeps
<1>4. ASSUME CallInv, NEW cost \in Costs, NEW fee \in Fees,
             Replies(cost, fee) \/ \E mute \in BOOLEAN : MisfitReply(cost, fee, mute)
      PROVE  CallInv'
  BY <1>4, ReplyKeeps
<1>5. ASSUME CallInv, NEW cost \in Costs, NEW n \in 1..MaxAsked, AsksToSearch(cost, n)
      PROVE  CallInv'
  <2>1. 0 \in Fees
    BY DEF Fees
  <2>2. QED
    BY <1>5, <2>1, ReplyKeeps
<1>6. ASSUME CallInv, NEW result \in {"found", "empty", "malformed"}, Search(result)
      PROVE  CallInv'
  BY <1>6, SearchKeeps
<1>7. CallInv /\ CallNext => CallInv'
  BY <1>2, <1>3, <1>4, <1>5, <1>6 DEF CallNext
<1>8. CallInv /\ UNCHANGED call => CallInv'
  BY DEF CallInv, Good, CallsCounted, Measured, Whole
<1>9. QED
  BY <1>1, <1>7, <1>8

\* A request to a model always has a state of its kind.
THEOREM CallTypeCorrect == CallSpec => []CallTypeOK
<1>1. CallInv => CallTypeOK
  <2> SUFFICES ASSUME CallInv PROVE CallTypeOK
    OBVIOUS
  <2>1. Policy.turns \in Nat /\ call.turn <= Policy.turns
    BY CallIs, ModelCallsAssumption DEF PolicyRecord, CallsCounted
  <2>2. call.tries <= Tries
    BY CallIs DEF CallsCounted, Whole
  <2>3. QED
    BY <2>1, <2>2, CallIs DEF CallTypeOK, CallRecord
<1>2. QED
  BY CallInductive, <1>1, PTL DEF CallSpec

\* However a provider answers and fails: a cost reported is all that was paid (short
\* of at most one fee where the client of Gemini looks for recipes), the effort has
\* its bound, and a shelf life rests on evidence.
THEOREM CallsAreSound == CallSpec => []CallsSound
<1>1. CallInv => CallsSound
  <2> SUFFICES ASSUME CallInv PROVE CallsSound
    OBVIOUS
  <2>1. call.requests <= Policy.tries * Policy.turns
    <3> DEFINE turns == Policies[call.client].turns
               n == call.turn
               c == call.client
    <3>1. turns \in Nat /\ n <= turns /\ n \in Nat /\ c \in Callers /\ n - 1 \in Nat
      BY CallIs, ModelCallsAssumption DEF PolicyRecord, CallsCounted
    <3>2. Effort(c, n) <= Effort(c, turns) /\ Effort(c, n) \in Nat /\ Effort(c, turns) \in Nat
      BY <3>1, EffortIs
    <3>3. call.requests <= Effort(c, n)
      <4>1. CASE call.phase = "asking"
        <5> DEFINE e == Effort(call.client, call.turn)
                   b == Effort(call.client, call.turn - 1)
        <5>1. /\ call.tries < Policy.tries /\ call.requests <= b + call.tries
              /\ e = b + Policy.tries /\ e \in Nat /\ b \in Nat
              /\ call.requests \in Nat /\ call.tries \in Nat /\ Policy.tries \in Nat
          BY <4>1, CallIs DEF CallInv, Good, Measured
        <5> HIDE DEF e, b
        <5>2. call.requests <= e
          BY <5>1
        <5>3. QED
          BY <5>2 DEF e
      <4>2. CASE call.phase # "asking"
        BY <4>2 DEF CallInv, Good, Measured
      <4>3. QED
        BY <4>1, <4>2
    <3>4. Effort(c, turns) = Policy.tries * Policy.turns
      BY DEF Effort, Policy
    <3> DEFINE e == Effort(c, n)
               f == Effort(c, turns)
    <3>5. call.requests \in Nat /\ call.requests <= e /\ e <= f /\ e \in Nat /\ f \in Nat
      BY <3>2, <3>3, CallIs
    <3> HIDE DEF e, f
    <3>6. call.requests <= f
      BY <3>5
    <3>7. QED
      BY <3>4, <3>6 DEF f
  <2>2. ReportedCostIsWhole
    BY CallIs DEF CallInv, Good, CallsCounted, Whole, ReportedCostIsWhole, Reports
  <2>3. QED
    BY <2>1, <2>2, CallIs DEF CallInv, Good, CallsCounted, CallsSound, EffortIsBounded,
       AnswersHaveEvidence
<1>2. QED
  BY CallInductive, <1>1, PTL DEF CallSpec

-----------------------------------------------------------------------------
(* RecipeSearch.                                                           *)
(* What was spent is what the chain knows of, until a source ends it, and  *)
(* nothing was spent above the ceiling before.                             *)

\* What a search has paid for is what its model source knows of, as long as that
\* source is at work; no other source pays for a call that is known to the chain.
SearchRecord ==
  [at : 1..4, stage : {"fetch", "refetch", "score"}, limit : Nat \cup {Unlimited},
   total : Nat \cup {Unpriced}, part : Nat \cup {Unpriced},
   kept : SUBSET SourcedRecipe, result : SUBSET SourcedRecipe, forbids : BOOLEAN,
   sources : SUBSET {"spoonacular", "mealdb", "model"}, spent : Nat]

Within(s) == s.limit = Unlimited \/ s.spent <= s.limit

Accounted(s) ==
  /\ s.at < 4 => /\ s.total = Unpriced /\ Within(s)
                 /\ s.part = IF s.spent = 0 THEN Unpriced ELSE s.spent
  /\ s.at < 3 => s.spent = 0

SearchInv ==
  /\ search \in SearchRecord /\ Accounted(search) /\ ExcludedNeverReturned

LEMMA ChainIs == Len(Chain) = 3 /\ Chain[1] = "spoonacular" /\ Chain[2] = "mealdb" /\ Chain[3] = "model"
BY DEF Chain

LEMMA KnownCosts ==
  ASSUME NEW t \in Nat \cup {Unpriced}, NEW c \in Nat \cup {Unpriced}
  PROVE  /\ AddKnownCost(t, c) \in Nat \cup {Unpriced}
         /\ t = Unpriced => AddKnownCost(t, c) = IF c = 0 THEN Unpriced ELSE c
         /\ t \in Nat /\ c = Unpriced => AddKnownCost(t, c) = t
         /\ t \in Nat /\ c \in Nat => AddKnownCost(t, c) = t + c
<1>1. CASE c \in {0, Unpriced}
  <2>1. AddKnownCost(t, c) = t
    BY <1>1 DEF AddKnownCost
  <2>2. CASE c = 0
    BY <2>1, <2>2, RecipeSearchAssumption
  <2>3. CASE c = Unpriced
    BY <2>1, <2>3, RecipeSearchAssumption
  <2>4. QED
    BY <1>1, <2>2, <2>3
<1>2. CASE c \notin {0, Unpriced} /\ t = Unpriced
  BY <1>2, RecipeSearchAssumption DEF AddKnownCost
<1>3. CASE c \notin {0, Unpriced} /\ t # Unpriced
  BY <1>3, RecipeSearchAssumption DEF AddKnownCost
<1>4. QED
  BY <1>1, <1>2, <1>3

\* The source is done with, and the search too or not.
LEMMA OverIs ==
  ASSUME NEW s \in SearchRecord
  PROVE  /\ Over(s) \in SearchRecord /\ Over(s).at = 4 /\ Over(s).result = s.result
         /\ Over(s).total = s.total /\ Over(s).limit = s.limit /\ Over(s).spent = s.spent
<1>1. Over(s) = [s EXCEPT !.at = 4, !.stage = "fetch", !.kept = {}, !.part = Unpriced]
  <2>1. Len(Chain) + 1 = 4
    BY ChainIs
  <2>2. QED
    BY <2>1 DEF Over
<1>2. 4 \in 1..4
  OBVIOUS
<1>3. QED
  BY <1>1, <1>2 DEF SearchRecord

LEMMA NextSourceIs ==
  ASSUME NEW s \in SearchRecord, s.at \in 1..3
  PROVE  /\ NextSource(s) \in SearchRecord /\ NextSource(s).at = s.at + 1
         /\ NextSource(s).result = s.result /\ NextSource(s).total = s.total
         /\ NextSource(s).limit = s.limit /\ NextSource(s).spent = s.spent
         /\ NextSource(s).part = Unpriced
<1>1. s.at + 1 \in 1..4
  OBVIOUS
<1>2. QED
  BY <1>1 DEF NextSource, SearchRecord

\* The recipes of a source and what they cost are taken in.
LEMMA Absorbs ==
  ASSUME NEW s \in SearchRecord, NEW recipes \in SUBSET SourcedRecipe, NEW cost \in Nat \cup {Unpriced},
         s.at \in 1..3, \A r \in s.result : ~(r.excluded /\ r.listed),
         s.at < 3 => cost = Unpriced /\ Accounted(s)
  PROVE  LET t == Absorbed(s, recipes, cost) IN
         /\ t \in SearchRecord /\ Accounted(t) /\ \A r \in t.result : ~(r.excluded /\ r.listed)
         /\ t.at > 3 /\ t.result = {} => OverBudget(t.total, t.limit) \/ s.at = 3
         /\ t.spent = s.spent
<1> DEFINE t == Absorbed(s, recipes, cost)
           safe == Allowed(recipes)
           paid == AddKnownCost(s.total, cost)
           charged == [s EXCEPT !.total = paid]
<1>1. safe \subseteq SourcedRecipe /\ \A r \in safe : ~(r.excluded /\ r.listed)
  BY DEF Allowed, ViolatesExclusions
<1>2. paid \in Nat \cup {Unpriced} /\ (s.at < 3 => paid = Unpriced)
  <2>1. s.total \in Nat \cup {Unpriced}
    BY DEF SearchRecord
  <2>2. s.at < 3 => s.total = Unpriced /\ cost = Unpriced /\ s.at < 4
    BY DEF Accounted, SearchRecord
  <2>3. QED
    BY <2>1, <2>2, KnownCosts, RecipeSearchAssumption
<1> HIDE DEF paid, safe
<1>3. /\ charged \in SearchRecord /\ charged.at = s.at /\ charged.spent = s.spent
      /\ charged.total = paid /\ charged.limit = s.limit /\ charged.part = s.part
      /\ charged.result = s.result
  BY <1>2 DEF SearchRecord
<1>4. t = IF safe # {} THEN Over([charged EXCEPT !.result = safe])
          ELSE IF OverBudget(charged.total, charged.limit) THEN Over(charged) ELSE NextSource(charged)
  BY DEF Absorbed, safe, paid
<1> HIDE DEF t, charged
<1>5. CASE safe # {}
  <2> DEFINE found == [charged EXCEPT !.result = safe]
  <2>1. found \in SearchRecord /\ found.result = safe /\ found.spent = s.spent
    BY <1>1, <1>3 DEF SearchRecord
  <2>2. t = Over(found)
    BY <1>4, <1>5
  <2> HIDE DEF found
  <2>3. t \in SearchRecord /\ t.at = 4 /\ t.result = safe /\ t.spent = s.spent
    BY <2>1, <2>2, OverIs
  <2>4. QED
    BY <1>1, <1>5, <2>3 DEF Accounted, t
<1>6. CASE safe = {} /\ OverBudget(charged.total, charged.limit)
  <2>1. t = Over(charged)
    BY <1>4, <1>6
  <2>2. /\ t \in SearchRecord /\ t.at = 4 /\ t.result = s.result /\ t.total = charged.total
        /\ t.limit = charged.limit /\ t.spent = s.spent
    BY <1>3, <2>1, OverIs
  <2>3. QED
    BY <1>6, <2>2 DEF Accounted, t
<1>7. CASE safe = {} /\ ~OverBudget(charged.total, charged.limit)
  <2>1. t = NextSource(charged)
    BY <1>4, <1>7
  <2>2. /\ t \in SearchRecord /\ t.at = s.at + 1 /\ t.result = s.result /\ t.total = paid
        /\ t.limit = s.limit /\ t.spent = s.spent /\ t.part = Unpriced
    BY <1>3, <2>1, NextSourceIs
  <2>3. s.at < 3 => s.spent = 0 /\ Within(s)
    BY DEF Accounted, SearchRecord
  <2>4. Accounted(t)
    BY <1>2, <2>2, <2>3 DEF Accounted, Within
  <2>5. QED
    BY <2>2, <2>4 DEF t
<1>8. QED
  BY <1>5, <1>6, <1>7

\* A call of the model has been paid for: it leads to the end of the source, over
\* the ceiling or not, or to the next call under the ceiling.
LEMMA SearchCharges ==
  ASSUME NEW s \in SearchRecord, s.at = 3, Accounted(s), NEW cost \in CallCosts
  PROVE  /\ Charged(s, cost) \in SearchRecord /\ Charged(s, cost).at = 3
         /\ Charged(s, cost).total = Unpriced /\ Charged(s, cost).result = s.result
         /\ Charged(s, cost).limit = s.limit
         /\ Charged(s, cost).part = IF Charged(s, cost).spent = 0 THEN Unpriced ELSE Charged(s, cost).spent
         /\ ~OverBudget(Charged(s, cost).part, s.limit) => Within(Charged(s, cost))
<1> DEFINE part == AddKnownCost(s.part, cost)
           spent == IF cost = Unpriced THEN s.spent ELSE s.spent + cost
           t == Charged(s, cost)
<1>1. /\ cost \in Nat \cup {Unpriced} /\ s.part \in Nat \cup {Unpriced} /\ s.spent \in Nat
      /\ s.part = IF s.spent = 0 THEN Unpriced ELSE s.spent
      /\ s.total = Unpriced /\ Within(s) /\ s.limit \in Nat \cup {Unlimited}
  BY RecipeSearchAssumption DEF CallCosts, SearchRecord, Accounted
<1>2. spent \in Nat /\ part \in Nat \cup {Unpriced} /\ part = IF spent = 0 THEN Unpriced ELSE spent
  <2>1. CASE cost = Unpriced
    BY <1>1, <2>1, KnownCosts, RecipeSearchAssumption
  <2>2. CASE cost # Unpriced /\ s.part = Unpriced
    <3>1. s.spent = 0 /\ cost \in Nat
      BY <1>1, <2>2, RecipeSearchAssumption
    <3>2. spent = cost
      BY <2>2, <3>1
    <3>3. part = IF cost = 0 THEN Unpriced ELSE cost
      BY <1>1, <2>2, KnownCosts
    <3> HIDE DEF spent, part
    <3>4. QED
      BY <3>1, <3>2, <3>3
  <2>3. CASE cost # Unpriced /\ s.part # Unpriced
    <3>1. s.spent # 0 /\ cost \in Nat /\ s.part = s.spent
      BY <1>1, <2>3, RecipeSearchAssumption
    <3>2. spent = s.spent + cost
      BY <2>3
    <3>3. part = s.part + cost
      BY <1>1, <2>3, <3>1, KnownCosts
    <3> HIDE DEF spent, part
    <3>4. QED
      BY <1>1, <3>1, <3>2, <3>3
  <2>4. QED
    BY <2>1, <2>2, <2>3
<1>3. t = [s EXCEPT !.part = part, !.spent = spent]
  BY DEF Charged
<1> HIDE DEF part, spent, t
<1>4. /\ t \in SearchRecord /\ t.at = s.at /\ t.total = s.total /\ t.result = s.result
      /\ t.limit = s.limit /\ t.part = part /\ t.spent = spent
  BY <1>2, <1>3 DEF SearchRecord
<1>5. ASSUME ~OverBudget(part, s.limit) PROVE s.limit = Unlimited \/ spent <= s.limit
  BY <1>1, <1>2, <1>5, RecipeSearchAssumption DEF OverBudget, Within
<1>6. QED
  BY <1>1, <1>2, <1>4, <1>5 DEF t, Within

LEMMA BegunIs ==
  ASSUME NEW limit \in SearchLimits, NEW keyed \in BOOLEAN, NEW modelled \in BOOLEAN, NEW forbids \in BOOLEAN
  PROVE  LET t == Begun(limit, keyed, modelled, forbids) IN
         t \in SearchRecord /\ Accounted(t) /\ t.result = {} /\ t.at = 1 /\ t.spent = 0
<1> DEFINE t == Begun(limit, keyed, modelled, forbids)
           sources == {"mealdb"} \cup (IF keyed THEN {"spoonacular"} ELSE {})
                                \cup (IF modelled THEN {"model"} ELSE {})
<1>1. sources \in SUBSET {"spoonacular", "mealdb", "model"} /\ limit \in Nat \cup {Unlimited}
  BY RecipeSearchAssumption
<1>2. t = [at |-> 1, stage |-> "fetch", limit |-> limit, total |-> Unpriced,
           part |-> Unpriced, kept |-> {}, result |-> {}, forbids |-> forbids,
           sources |-> sources, spent |-> 0]
  BY DEF Begun
<1> HIDE DEF t, sources
<1>3. t \in SearchRecord
  BY <1>1, <1>2 DEF SearchRecord
<1>4. t.limit = limit /\ t.at = 1 /\ t.spent = 0 /\ t.total = Unpriced /\ t.part = Unpriced /\ t.result = {}
  BY <1>2
<1>5. limit = Unlimited \/ 0 <= limit
  BY <1>1
<1>6. Accounted(t)
  BY <1>4, <1>5 DEF Accounted, Within
<1>7. QED
  BY <1>3, <1>4, <1>6 DEF t

\* What a step may do: it pays only under the ceiling, and it ends with nothing
\* only after the last source or over the ceiling.
StepKept ==
  /\ search'.spent > search.spent => search.limit = Unlimited \/ search.spent <= search.limit
  /\ search.at <= Len(Chain) /\ search'.at > Len(Chain) /\ search'.result = {} =>
       OverBudget(search'.total, search'.limit) \/ search.at = Len(Chain)

LEMMA SourceAt ==
  ASSUME SearchInv, ~Done
  PROVE  /\ search.at \in 1..3
         /\ Source = "model" <=> search.at = 3
         /\ search.spent \in Nat /\ Within(search)
         /\ search.part \in Nat \cup {Unpriced} /\ search.total = Unpriced
         /\ search.at < 3 => search.spent = 0 /\ search.part = Unpriced
<1>1. search.at \in 1..3
  BY ChainIs DEF SearchInv, SearchRecord, Done
<1>2. Source = "model" <=> search.at = 3
  BY <1>1, ChainIs DEF Source
<1>3. QED
  BY <1>1, <1>2 DEF SearchInv, SearchRecord, Accounted

\* The recipes of a source end its turn.
LEMMA TurnEnds ==
  ASSUME SearchInv, ~Done, NEW s \in SearchRecord, NEW recipes \in SUBSET SourcedRecipe,
         NEW cost \in Nat \cup {Unpriced}, s.at = search.at, s.result = search.result,
         s.at < 3 => cost = Unpriced /\ Accounted(s),
         search' = Absorbed(s, recipes, cost)
  PROVE  SearchInv' /\ StepKept
<1> DEFINE t == Absorbed(s, recipes, cost)
<1>1. search.at \in 1..3 /\ Within(search)
  BY SourceAt
<1>2. /\ t \in SearchRecord /\ Accounted(t) /\ \A r \in t.result : ~(r.excluded /\ r.listed)
      /\ t.at > 3 /\ t.result = {} => OverBudget(t.total, t.limit) \/ s.at = 3
  BY <1>1, Absorbs DEF SearchInv, ExcludedNeverReturned
<1>3. search' = t
  OBVIOUS
<1> HIDE DEF t
<1>4. SearchInv'
  BY <1>2, <1>3 DEF SearchInv, Accounted, Within, ExcludedNeverReturned
<1>5. StepKept
  BY <1>1, <1>2, <1>3, ChainIs DEF StepKept, Within
<1>6. QED
  BY <1>4, <1>5

\* A source is left out, or has failed.
LEMMA TurnSkipped ==
  ASSUME SearchInv, ~Done, search' = NextSource(search)
  PROVE  SearchInv' /\ StepKept
<1>1. /\ search \in SearchRecord /\ search.at \in 1..3 /\ Within(search) /\ search.total = Unpriced
      /\ search.at < 3 => search.spent = 0
  BY SourceAt DEF SearchInv
<1>2. /\ search' \in SearchRecord /\ search'.at = search.at + 1 /\ search'.result = search.result
      /\ search'.total = search.total /\ search'.limit = search.limit /\ search'.spent = search.spent
      /\ search'.part = Unpriced
  BY <1>1, NextSourceIs
<1>3. SearchInv'
  BY <1>1, <1>2 DEF SearchInv, Accounted, Within, ExcludedNeverReturned
<1>4. StepKept
  BY <1>1, <1>2, ChainIs DEF StepKept, Within
<1>5. QED
  BY <1>3, <1>4

LEMMA FetchKeeps ==
  ASSUME SearchInv, NEW recipes \in SUBSET SourcedRecipe, NEW cost \in CallCosts, Fetch(recipes, cost)
  PROVE  SearchInv' /\ StepKept
<1> DEFINE s == Charged(search, cost)
           fit == IF search.forbids THEN Allowed(recipes) ELSE recipes
<1>1. ~Done /\ Source = "model"
  BY DEF Fetch, ModelRuns
<1>2. /\ search \in SearchRecord /\ search.at = 3 /\ Accounted(search) /\ Within(search)
      /\ search.total = Unpriced /\ search.limit \in Nat \cup {Unlimited}
  BY <1>1, SourceAt DEF SearchInv, SearchRecord
<1>3. /\ s \in SearchRecord /\ s.at = 3 /\ s.total = Unpriced /\ s.result = search.result
      /\ s.limit = search.limit /\ s.part = IF s.spent = 0 THEN Unpriced ELSE s.spent
      /\ ~OverBudget(s.part, search.limit) => Within(s)
  BY <1>2, SearchCharges
<1>4. Left = search.limit
  BY <1>2 DEF Left, RemainingBudget
<1>5. fit \in SUBSET SourcedRecipe
  BY DEF Allowed
<1>6. \/ search' = Absorbed(s, {}, s.part)
      \/ /\ ~OverBudget(s.part, Left)
         /\ search' = [s EXCEPT !.stage = "score", !.kept = fit] \/ search' = [s EXCEPT !.stage = "refetch"]
  <2> DEFINE again == search.stage = "fetch" /\ recipes # {} /\ search.forbids
             over == OverBudget(s.part, Left)
  <2>1. search' = CASE over -> Absorbed(s, {}, s.part)
                    [] ~over /\ fit # {} -> [s EXCEPT !.stage = "score", !.kept = fit]
                    [] ~over /\ fit = {} ->
                         IF again THEN [s EXCEPT !.stage = "refetch"] ELSE Absorbed(s, {}, s.part)
    BY DEF Fetch
  <2> HIDE DEF again, over, s, fit
  <2>2. CASE over
    BY <2>1, <2>2
  <2>3. CASE ~over /\ fit # {}
    BY <2>1, <2>3 DEF over
  <2>4. CASE ~over /\ fit = {}
    BY <2>1, <2>4 DEF over
  <2>5. QED
    BY <2>2, <2>3, <2>4
<1> HIDE DEF s, fit
<1>7. CASE search' = Absorbed(s, {}, s.part)
  <2>1. s.part \in Nat \cup {Unpriced} /\ {} \in SUBSET SourcedRecipe
    BY <1>3 DEF SearchRecord
  <2>2. s.at = search.at /\ ~(s.at < 3)
    BY <1>2, <1>3
  <2>3. QED
    BY <1>1, <1>3, <1>7, <2>1, <2>2, TurnEnds
<1>8. ASSUME ~OverBudget(s.part, Left),
             search' = [s EXCEPT !.stage = "score", !.kept = fit] \/ search' = [s EXCEPT !.stage = "refetch"]
      PROVE  SearchInv' /\ StepKept
  <2>1. /\ search' \in SearchRecord /\ search'.at = 3 /\ search'.total = Unpriced
        /\ search'.result = search.result /\ search'.limit = s.limit
        /\ search'.part = s.part /\ search'.spent = s.spent
    <3>1. CASE search' = [s EXCEPT !.stage = "score", !.kept = fit]
      BY <1>3, <1>5, <3>1 DEF SearchRecord
    <3>2. CASE search' = [s EXCEPT !.stage = "refetch"]
      BY <1>3, <3>2 DEF SearchRecord
    <3>3. QED
      BY <1>8, <3>1, <3>2
  <2>2. SearchInv'
    BY <1>3, <1>4, <1>8, <2>1 DEF SearchInv, Accounted, Within, ExcludedNeverReturned
  <2>3. StepKept
    BY <1>2, <2>1, ChainIs DEF StepKept, Within
  <2>4. QED
    BY <2>2, <2>3
<1>9. QED
  BY <1>6, <1>7, <1>8

LEMMA ScoreKeeps ==
  ASSUME SearchInv, NEW scored \in SUBSET SourcedRecipe, NEW cost \in CallCosts, Score(scored, cost)
  PROVE  SearchInv' /\ StepKept
<1> DEFINE s == Charged(search, cost)
<1>1. ~Done /\ Source = "model" /\ search' = Absorbed(s, scored, s.part)
  BY DEF Score, ModelRuns
<1>2. search \in SearchRecord /\ search.at = 3 /\ Accounted(search)
  BY <1>1, SourceAt DEF SearchInv
<1>3. s \in SearchRecord /\ s.at = 3 /\ s.result = search.result
  BY <1>2, SearchCharges
<1> HIDE DEF s
<1>4. s.part \in Nat \cup {Unpriced} /\ s.at = search.at /\ ~(s.at < 3)
  BY <1>2, <1>3 DEF SearchRecord
<1>5. QED
  BY <1>1, <1>3, <1>4, TurnEnds

LEMMA SearchInductive ==
  /\ SearchInit => SearchInv
  /\ SearchInv /\ [SearchNext]_search => SearchInv' /\ [StepKept]_search
<1>1. ASSUME NEW limit \in SearchLimits, NEW keyed \in BOOLEAN, NEW modelled \in BOOLEAN,
             NEW forbids \in BOOLEAN, search = Begun(limit, keyed, modelled, forbids)
      PROVE  SearchInv
  <2> DEFINE t == Begun(limit, keyed, modelled, forbids)
  <2>1. t \in SearchRecord /\ Accounted(t) /\ t.result = {}
    BY BegunIs
  <2> HIDE DEF t
  <2>2. search = t
    BY <1>1 DEF t
  <2>3. QED
    BY <2>1, <2>2 DEF SearchInv, ExcludedNeverReturned
<1>2. ASSUME SearchInv, NEW limit \in SearchLimits, NEW keyed \in BOOLEAN, NEW modelled \in BOOLEAN,
             NEW forbids \in BOOLEAN, SearchAgain(limit, keyed, modelled, forbids)
      PROVE  SearchInv' /\ StepKept
  <2> DEFINE t == Begun(limit, keyed, modelled, forbids)
  <2>1. t \in SearchRecord /\ Accounted(t) /\ t.result = {} /\ t.at = 1 /\ t.spent = 0
    BY BegunIs
  <2>2. search' = t /\ Done
    BY <1>2 DEF SearchAgain
  <2> HIDE DEF t
  <2>3. search.spent \in Nat
    BY <1>2 DEF SearchInv, SearchRecord
  <2>4. SearchInv'
    BY <2>1, <2>2 DEF SearchInv, ExcludedNeverReturned, Accounted, Within
  <2>5. StepKept
    BY <2>1, <2>2, <2>3, ChainIs DEF StepKept
  <2>6. QED
    BY <2>4, <2>5
<1>3. ASSUME SearchInv, Skip \/ ModelFails PROVE SearchInv' /\ StepKept
  BY <1>3, TurnSkipped DEF Skip, ModelFails, Failed
<1>4. ASSUME SearchInv, NEW recipes \in SUBSET Offered, FetchSpoonacular(recipes) \/ FetchMealDb(recipes)
      PROVE  SearchInv' /\ StepKept
  <2>1. recipes \in SUBSET SourcedRecipe
    BY DEF Offered, SourcedRecipe
  <2>2. /\ ~Done /\ search' = Absorbed(search, recipes, Unpriced) /\ search \in SearchRecord
        /\ Accounted(search)
    BY <1>4 DEF FetchSpoonacular, FetchMealDb, SearchInv
  <2>3. QED
    BY <1>4, <2>1, <2>2, TurnEnds
<1>5. ASSUME SearchInv, NEW recipes \in SUBSET Offered, NEW cost \in CallCosts,
             Fetch(recipes, cost) \/ Score(recipes, cost)
      PROVE  SearchInv' /\ StepKept
  <2>1. recipes \in SUBSET SourcedRecipe
    BY DEF Offered, SourcedRecipe
  <2>2. QED
    BY <1>5, <2>1, FetchKeeps, ScoreKeeps
<1>6. SearchInv /\ SearchNext => SearchInv' /\ StepKept
  BY <1>2, <1>3, <1>4, <1>5 DEF SearchNext
<1>7. SearchInv /\ UNCHANGED search => SearchInv'
  BY DEF SearchInv, Accounted, Within, ExcludedNeverReturned
<1>8. SearchInit => SearchInv
  BY <1>1 DEF SearchInit
<1>9. QED
  BY <1>6, <1>7, <1>8

\* A search always has a state of its kind.
THEOREM SearchTypeCorrect == SearchSpec => []SearchTypeOK
<1>1. SearchInv => SearchTypeOK
  BY ChainIs DEF SearchInv, SearchRecord, SearchTypeOK
<1>2. QED
  BY SearchInductive, <1>1, PTL DEF SearchSpec

\* Whatever the sources return, fail at and cost: nothing excluded is returned, no
\* call is paid for above the ceiling, and no source is passed over for nothing.
THEOREM SearchKeepsItsWord ==
  SearchSpec => []ExcludedNeverReturned /\ CeilingStopsCalls /\ AllSourcesAsked
<1>1. SearchInv => ExcludedNeverReturned
  BY DEF SearchInv
<1>2. [StepKept]_search =>
        [search'.spent > search.spent =>
           search.limit = Unlimited \/ search.spent <= search.limit]_search
  BY DEF StepKept
<1>3. [StepKept]_search =>
        [search.at <= Len(Chain) /\ search'.at > Len(Chain) /\ search'.result = {} =>
           \/ OverBudget(search'.total, search'.limit)
           \/ search.at = Len(Chain)]_search
  BY DEF StepKept
<1>4. QED
  BY SearchInductive, <1>1, <1>2, <1>3, PTL DEF SearchSpec, CeilingStopsCalls, AllSourcesAsked

-----------------------------------------------------------------------------
(* The operations.  A step is a step of the component of its scene and       *)
(* leaves the others as they were, so a behaviour of the operations is one   *)
(* of each of them, and keeps what each of them promises.                   *)

LEMMA EachKeepsToItself ==
  ASSUME [OperationsNext]_<<scene, vars, people, console, requests>>
  PROVE  /\ [Next]_vars /\ [MembershipNext]_membershipVars /\ [DigestNext]_digestVars
         /\ [ConnNext]_connVars /\ [ModeNext]_modeVars /\ [MessagesNext]_messageVars
         /\ [CallNext]_call /\ [SearchNext]_search
<1>1. CASE OperationsNext
  BY <1>1, Zenon DEF OperationsNext, people, console, requests
<1>2. CASE UNCHANGED <<scene, vars, people, console, requests>>
  BY <1>2 DEF people, console, requests
<1>3. QED
  BY <1>1, <1>2

LEMMA EachStarts ==
  ASSUME OperationsInit
  PROVE  /\ Init /\ MembershipInit /\ DigestInit /\ ConnInit /\ ModeInit /\ MessagesInit
         /\ CallInit /\ SearchInit
BY DEF OperationsInit

\* A behaviour of the operations is a behaviour of every component of them.
THEOREM OperationsHold ==
  OperationsSpec => /\ Spec /\ MembershipSpec /\ DigestSpec /\ ConnSpec /\ ModeSpec
                    /\ MessagesSpec /\ CallSpec /\ SearchSpec
BY EachStarts, EachKeepsToItself, PTL
   DEF OperationsSpec, Spec, MembershipSpec, DigestSpec, ConnSpec, ModeSpec, MessagesSpec,
       CallSpec, SearchSpec

\* Whatever the scene, every table of it holds rows of its type.
THEOREM OperationsTypeCorrect == OperationsSpec => []OperationsTypeOK
<1>1. /\ TypeOK /\ MembershipTypeOK /\ DigestTypeOK /\ ConnTypeOK /\ ModeTypeOK
      /\ MessagesTypeOK /\ CallTypeOK /\ SearchTypeOK
      => OperationsTypeOK
  BY DEF OperationsTypeOK
<1>2. QED
  BY <1>1, OperationsHold, BillingTypeCorrect, MembershipTypeCorrect, DigestTypeCorrect,
     ConnTypeCorrect, ModesTypeCorrect, MessagesTypeCorrect, CallTypeCorrect,
     SearchTypeCorrect, PTL

\* A search for recipes and every request to a model keep to their budget and to
\* what their answers rest on.
THEOREM RequestsAreSound == OperationsSpec => RequestsSound
BY OperationsHold, CallsAreSound, SearchKeepsItsWord, PTL DEF RequestsSound

\* What the household, its plan, its mornings, its connections, its clients and
\* its conversations are promised holds wherever they stand side by side.
THEOREM OperationsKeepTheirWord ==
  OperationsSpec => /\ []MembershipSound /\ DoorsSound /\ DigestsHold /\ ConnectionsSound
                    /\ []ModesSound /\ []MessagesSound
                    /\ []FamilyIsPaidFor /\ []GrantsAddUp /\ []OvershootIsRunningWork
                    /\ CancelledKeepsBenefits
BY OperationsHold, TablesAgree, DoorsHold, DigestsAreSound, ConnectionsAreSound,
   ModesAreSound, MessagesAreSound, FamilyPaid, GrantsCounted, OvershootBounded,
   BenefitsLast, PTL
=============================================================================
