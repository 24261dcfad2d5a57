--------------------------- MODULE BillingProofs ---------------------------
(***************************************************************************)
(* Safety of Billing for any number of payments, operators and requests,   *)
(* any length of a period and any limits.                                  *)
(***************************************************************************)
EXTENDS Billing, FiniteSetTheorems, TLAPS

\* What the rail and the ledger say of a charge agree, and a refund that the
\* rail has accepted waits for one operator only, who has still to record it.
ChargesAgree ==
  /\ \A c \in Charges :
       /\ rail[c].state = "taken" => Period <= rail[c].until /\ rail[c].until <= today + Period
       /\ Recorded(c) => rail[c].state = "taken"
       /\ Refunded(c) => Recorded(c) /\ rail[c].refunded
  /\ \A o \in Operators : refund[o].at # "idle" => Recorded(refund[o].charge)
  /\ \A o \in Operators : refund[o].at = "accepted" =>
       /\ rail[refund[o].charge].refunded /\ ~Refunded(refund[o].charge)
       /\ \A p \in Operators : refund[p].at = "accepted" /\ refund[p].charge = refund[o].charge => p = o

\* No period begins and nothing that runs was admitted after today; no tier is for
\* good that the operator did not give.
Timely ==
  /\ sub.start <= today /\ sub.start < sub.end
  /\ \A w \in Workers : work[w] # None => work[w] <= today
Given == comps = 0 => sub.tier # "unlimited"

\* A live Family ends no later than a charge that was not refunded, or than the
\* operator's gift.
SubPaid ==
  EffectiveTier(sub) = "family" =>
    \/ \E c \in Subs : Recorded(c) /\ ~Refunded(c) /\ rail[c].until >= sub.end
    \/ comped >= sub.end

\* Units and payments are counted together.
Counted == IsFiniteSet({c \in Charges : Recorded(c)}) /\ IsFiniteSet(Units) /\ GrantsAddUp

\* The most that period d may be charged.
Most(d) == FamilyLimit + usage[d].granted - 1
           + Cardinality(Workers) * (1 + Cardinality({c \in Subs : Recorded(c)}))

\* The requests that will be charged to the current period as it stands.
Running == {w \in Workers : work[w] # None /\ work[w] < sub.end}

\* Periods ahead are untouched; the current one has room for what runs in it.
Metered ==
  /\ \A d \in Ends : usage[d].used > 0 => d <= today
  /\ \A d \in Ends : d >= sub.end => usage[d].used = 0
  /\ comps = 0 /\ (\A c \in Charges : ~Refunded(c)) =>
       /\ \A d \in Ends : usage[d].used <= Most(d)
       /\ usage[sub.start].used + Cardinality(Running) <= Most(sub.start)

BInv == TypeOK /\ ChargesAgree /\ Timely /\ Given /\ SubPaid /\ Counted /\ Metered
-----------------------------------------------------------------------------
(* The period of a row, rolled to a day.                                    *)

\* Whole periods are skipped: the row that is due begins at or before the day.
LEMMA DuePeriod ==
  ASSUME NEW day \in Nat, NEW e \in Nat, e <= day
  PROVE  LET start == e + Period * ((day - e) \div Period)
         IN start \in Nat /\ e <= start /\ start <= day /\ day < start + Period
<1> DEFINE n == day - e
           q == n \div Period
<1>1. n \in Nat /\ Period \in Nat \ {0}
  BY BillingAssumption
<1> HIDE DEF n
<1>2. Period * q <= n /\ n < Period * q + Period /\ q \in Nat
  BY <1>1
<1>3. Period * q \in Nat
  BY <1>1, <1>2
<1> HIDE DEF q
<1>4. e + Period * q \in Nat /\ e <= e + Period * q /\ e + Period * q <= day
      /\ day < e + Period * q + Period
  BY <1>1, <1>2, <1>3 DEF n
<1>5. QED
  BY <1>4 DEF q, n

LEMMA RolledIs ==
  ASSUME NEW s \in SubRow, NEW day \in Days
  PROVE  /\ Rolled(s, day) \in SubRow
         /\ day < s.end => Rolled(s, day) = s
         /\ day >= s.end =>
              /\ s.end <= Rolled(s, day).start /\ Rolled(s, day).start <= day
              /\ day < Rolled(s, day).end
              /\ Rolled(s, day).start < Rolled(s, day).end
         /\ Rolled(s, day).tier = s.tier
         /\ EffectiveTier(Rolled(s, day)) = "family" => day < s.end
<1>1. /\ s.end \in Nat /\ day \in Nat /\ day <= LastDay /\ LastDay \in Nat /\ Period \in Nat \ {0}
      /\ s.tier \in {"free", "family", "unlimited"} /\ s.status \in {"active", "expired", "cancelled"}
      /\ Ends \subseteq Nat
  BY BillingAssumption DEF SubRow, Ends, Days
<1>2. CASE day < s.end
  <2>1. Rolled(s, day) = s
    BY <1>2 DEF Rolled
  <2>2. QED
    BY <1>1, <1>2, <2>1
<1>3. CASE ~(day < s.end)
  <2> DEFINE start == s.end + Period * ((day - s.end) \div Period)
  <2>0. s.end <= day
    BY <1>1, <1>3
  <2>1. start \in Nat /\ s.end <= start /\ start <= day /\ day < start + Period
    BY <1>1, <2>0, DuePeriod
  <2>2. Rolled(s, day) = [s EXCEPT !.start = start, !.end = start + Period,
                           !.status = IF s.tier \in {"free", "unlimited"} THEN @ ELSE "expired"]
    BY <1>3 DEF Rolled
  <2> HIDE DEF start
  <2>3. start \in Ends /\ start + Period \in Ends
    BY <1>1, <2>1 DEF Ends
  <2>4. /\ Rolled(s, day).start = start /\ Rolled(s, day).end = start + Period
        /\ Rolled(s, day).tier = s.tier
        /\ Rolled(s, day).status = IF s.tier \in {"free", "unlimited"} THEN s.status ELSE "expired"
        /\ Rolled(s, day) \in SubRow
    BY <1>1, <2>2, <2>3 DEF SubRow
  <2>5. EffectiveTier(Rolled(s, day)) # "family"
    BY <2>4 DEF EffectiveTier
  <2>6. QED
    BY <1>1, <1>3, <2>1, <2>4, <2>5
<1>4. QED
  BY <1>2, <1>3

-----------------------------------------------------------------------------
(* Units, charges and requests, counted.                                    *)

\* Where a unit is granted, and where one is taken back.
LEMMA UnitGranted ==
  ASSUME TypeOK, IsFiniteSet(Units), NEW s, s.start \in Ends, usage' = WithGrant(s, 1)
  PROVE  /\ usage' \in [Ends -> [used : Nat, granted : Nat]]
         /\ \A d \in Ends : usage'[d].used = usage[d].used /\ usage'[d].granted >= usage[d].granted
         /\ IsFiniteSet(Units') /\ Granted' = Granted + 1 /\ Granted \in Nat
<1> DEFINE g == usage[s.start].granted
           u == <<s.start, g + 1>>
<1>1. usage \in [Ends -> [used : Nat, granted : Nat]] /\ g \in Nat
  BY DEF TypeOK
<1> DEFINE n == IF g + 1 < 0 THEN 0 ELSE g + 1
<1>2. usage' = [usage EXCEPT ![s.start].granted = n] /\ n = g + 1
  BY <1>1 DEF WithGrant
<1> HIDE DEF n
<1>3. /\ usage' \in [Ends -> [used : Nat, granted : Nat]]
      /\ usage'[s.start].granted = g + 1
      /\ \A d \in Ends : usage'[d].used = usage[d].used
      /\ \A d \in Ends \ {s.start} : usage'[d] = usage[d]
  BY <1>1, <1>2
<1>4. \A d, k : <<d, k>> \in Units <=> d \in Ends /\ k \in 1..usage[d].granted
  BY DEF Units
<1>5. \A d, k : <<d, k>> \in Units' <=> d \in Ends /\ k \in 1..usage'[d].granted
  BY DEF Units
<1>6. (\A v \in Units : v = <<v[1], v[2]>>) /\ (\A v \in Units' : v = <<v[1], v[2]>>)
  BY DEF Units
<1>7. 1..(g + 1) = (1..g) \cup {g + 1}
  BY <1>1
<1>8. u \notin Units
  BY <1>1, <1>4
<1>9. ASSUME NEW d, NEW k PROVE <<d, k>> \in Units' <=> <<d, k>> \in Units \/ <<d, k>> = u
  <2>1. CASE d = s.start
    BY <1>3, <1>4, <1>5, <1>7, <2>1
  <2>2. CASE d # s.start
    BY <1>3, <1>4, <1>5, <2>2
  <2>3. QED
    BY <2>1, <2>2
<1>10. Units' = Units \cup {u}
  BY <1>6, <1>9
<1>11. IsFiniteSet(Units') /\ Cardinality(Units') = Cardinality(Units) + 1
  BY <1>8, <1>10, FS_AddElement
<1>12. Cardinality(Units) \in Nat
  BY FS_CardinalityType
<1>13. QED
  BY <1>1, <1>3, <1>11, <1>12 DEF Granted

LEMMA UnitRevoked ==
  ASSUME TypeOK, IsFiniteSet(Units), NEW s, s.start \in Ends, usage' = WithGrant(s, -1)
  PROVE  /\ usage' \in [Ends -> [used : Nat, granted : Nat]]
         /\ \A d \in Ends : usage'[d].used = usage[d].used
         /\ IsFiniteSet(Units') /\ Granted' \in Nat /\ Granted \in Nat
         /\ Granted' <= Granted /\ Granted <= Granted' + 1
<1> DEFINE g == usage[s.start].granted
           u == <<s.start, g>>
<1>1. usage \in [Ends -> [used : Nat, granted : Nat]] /\ g \in Nat
  BY DEF TypeOK
<1> DEFINE n == IF g + (-1) < 0 THEN 0 ELSE g + (-1)
<1>2. usage' = [usage EXCEPT ![s.start].granted = n] /\ n = IF g = 0 THEN 0 ELSE g - 1
  BY <1>1 DEF WithGrant
<1> HIDE DEF n
<1>3. /\ usage' \in [Ends -> [used : Nat, granted : Nat]]
      /\ usage'[s.start].granted = IF g = 0 THEN 0 ELSE g - 1
      /\ \A d \in Ends : usage'[d].used = usage[d].used
      /\ \A d \in Ends \ {s.start} : usage'[d] = usage[d]
  BY <1>1, <1>2
<1>4. \A d, k : <<d, k>> \in Units <=> d \in Ends /\ k \in 1..usage[d].granted
  BY DEF Units
<1>5. \A d, k : <<d, k>> \in Units' <=> d \in Ends /\ k \in 1..usage'[d].granted
  BY DEF Units
<1>6. (\A v \in Units : v = <<v[1], v[2]>>) /\ (\A v \in Units' : v = <<v[1], v[2]>>)
  BY DEF Units
<1>7. 1..(IF g = 0 THEN 0 ELSE g - 1) = (1..g) \ {g}
  BY <1>1
<1>8. ASSUME NEW d, NEW k PROVE <<d, k>> \in Units' <=> <<d, k>> \in Units /\ <<d, k>> # u
  <2>1. CASE d = s.start
    BY <1>3, <1>4, <1>5, <1>7, <2>1
  <2>2. CASE d # s.start
    BY <1>3, <1>4, <1>5, <2>2
  <2>3. QED
    BY <2>1, <2>2
<1>9. Units' = Units \ {u}
  BY <1>6, <1>8
<1>10. /\ IsFiniteSet(Units')
       /\ Cardinality(Units') = IF u \in Units THEN Cardinality(Units) - 1 ELSE Cardinality(Units)
  BY <1>9, FS_RemoveElement
<1>11. Cardinality(Units) \in Nat /\ Cardinality(Units') \in Nat
  BY <1>10, FS_CardinalityType
<1>12. QED
  BY <1>3, <1>10, <1>11 DEF Granted

\* How many charges there are of a kind.
LEMMA ChargesCounted ==
  ASSUME IsFiniteSet({c \in Charges : Recorded(c)})
  PROVE  /\ IsFiniteSet(BoughtTopups) /\ Cardinality(BoughtTopups) \in Nat
         /\ IsFiniteSet({c \in BoughtTopups : Refunded(c)})
         /\ Cardinality({c \in BoughtTopups : Refunded(c)}) \in Nat
         /\ IsFiniteSet({c \in Subs : Recorded(c)})
         /\ Cardinality({c \in Subs : Recorded(c)}) \in Nat
<1>1. /\ BoughtTopups \in SUBSET {c \in Charges : Recorded(c)}
      /\ {c \in BoughtTopups : Refunded(c)} \in SUBSET {c \in Charges : Recorded(c)}
      /\ {c \in Subs : Recorded(c)} \in SUBSET {c \in Charges : Recorded(c)}
  BY DEF BoughtTopups, Charges
<1>2. /\ IsFiniteSet(BoughtTopups) /\ IsFiniteSet({c \in BoughtTopups : Refunded(c)})
      /\ IsFiniteSet({c \in Subs : Recorded(c)})
  BY <1>1, FS_Subset
<1>3. QED
  BY <1>2, FS_CardinalityType

\* The requests that run are some of the workers.
LEMMA RunningCounted ==
  ASSUME NEW R, R \subseteq Workers
  PROVE  /\ IsFiniteSet(R) /\ Cardinality(R) \in Nat /\ Cardinality(Workers) \in Nat
         /\ Cardinality(R) <= Cardinality(Workers)
<1>1. R \in SUBSET Workers
  OBVIOUS
<1>2. IsFiniteSet(R) /\ Cardinality(R) <= Cardinality(Workers)
  BY <1>1, FS_Subset, BillingAssumption
<1>3. QED
  BY <1>2, FS_CardinalityType, BillingAssumption

-----------------------------------------------------------------------------
(* Steps that leave the household's row, its quota and the ledger alone.    *)

LEMMA BillingQuiet ==
  ASSUME BInv, TypeOK', ChargesAgree', UNCHANGED <<sub, usage, ledger, comps, comped>>,
         today' \in {today, today + 1}, today' \in Days,
         \A c \in Charges : Recorded(c) => rail'[c].until = rail[c].until,
         \A w \in Workers : work'[w] \in {None, work[w]}
  PROVE  BInv'
<1>1. today \in Nat /\ today' \in Nat /\ today <= today'
  BY BillingAssumption DEF BInv, TypeOK, Days
<1>2. Timely'
  <2>1. ASSUME NEW w \in Workers, work'[w] # None PROVE work'[w] <= today'
    <3>1. work'[w] = work[w] /\ work[w] \in Days /\ work[w] <= today
      BY <2>1 DEF BInv, TypeOK, Timely
    <3>2. QED
      BY <1>1, <3>1, BillingAssumption DEF Days
  <2>2. sub.start \in Nat
    BY BillingAssumption DEF BInv, TypeOK, SubRow, Ends
  <2>3. sub'.start <= today' /\ sub'.start < sub'.end
    BY <1>1, <2>2 DEF BInv, Timely
  <2>4. QED
    BY <2>1, <2>3 DEF Timely
<1>3. Given'
  BY DEF BInv, Given
<1>4. SubPaid'
  BY DEF BInv, SubPaid, EffectiveTier, Recorded, Refunded, Charges
<1>5. Counted'
  BY DEF BInv, Counted, Units, Granted, GrantsAddUp, BoughtTopups, Recorded, Refunded
<1>6. Metered'
  <2>1. Running' \subseteq Running
    BY DEF Running
  <2>2. /\ IsFiniteSet(Running) /\ Cardinality(Running) \in Nat /\ Cardinality(Running') \in Nat
        /\ Cardinality(Running') <= Cardinality(Running)
    <3>1. Running \subseteq Workers
      BY DEF Running
    <3>2. IsFiniteSet(Running)
      BY <3>1, RunningCounted
    <3>3. Running' \in SUBSET Running
      BY <2>1
    <3>4. IsFiniteSet(Running') /\ Cardinality(Running') <= Cardinality(Running)
      BY <3>2, <3>3, FS_Subset
    <3>5. QED
      BY <3>2, <3>4, FS_CardinalityType
  <2>3. /\ \A d \in Ends : usage[d].used \in Nat /\ d \in Nat
        /\ sub.start \in Ends
    BY BillingAssumption DEF BInv, TypeOK, SubRow, Ends
  <2>4. \A d \in Ends : Most(d)' = Most(d) /\ Most(d) \in Int
    <3>1. \A d \in Ends : usage[d].granted \in Nat
      BY DEF BInv, TypeOK
    <3>2. Cardinality(Workers) \in Nat /\ Cardinality({c \in Subs : Recorded(c)}) \in Nat
      BY ChargesCounted, RunningCounted DEF BInv, Counted
    <3>3. QED
      BY <3>1, <3>2, BillingAssumption DEF Most, Recorded
  <2>5. \A d \in Ends : usage'[d].used > 0 => d <= today'
    BY <1>1, <2>3 DEF BInv, Metered
  <2>6. ASSUME comps = 0, \A c \in Charges : ~Refunded(c)
        PROVE  /\ \A d \in Ends : usage[d].used <= Most(d)
               /\ usage[sub.start].used + Cardinality(Running') <= Most(sub.start)
    <3>1. usage[sub.start].used + Cardinality(Running) <= Most(sub.start)
      BY <2>6 DEF BInv, Metered
    <3>2. QED
      BY <2>2, <2>3, <2>4, <2>6, <3>1 DEF BInv, Metered
  <2>7. \A c \in Charges : Refunded(c)' <=> Refunded(c)
    BY DEF Refunded
  <2>8. sub'.start = sub.start /\ sub.start \in Ends /\ usage' = usage /\ comps' = comps /\ sub' = sub
    BY <2>3
  <2>9. \A d \in Ends : d >= sub'.end => usage'[d].used = 0
    BY DEF BInv, Metered
  <2>10. ASSUME comps' = 0, \A c \in Charges : ~Refunded(c)'
         PROVE  /\ \A d \in Ends : usage'[d].used <= Most(d)'
                /\ usage'[sub'.start].used + Cardinality(Running') <= Most(sub.start)'
    <3>1. Most(sub.start)' = Most(sub.start)
      BY <2>4, <2>8 DEF Most
    <3>2. QED
      BY <2>4, <2>6, <2>7, <2>8, <2>10, <3>1
  <2>11. QED
    BY <2>5, <2>9, <2>10 DEF Metered
<1>7. QED
  BY <1>2, <1>3, <1>4, <1>5, <1>6 DEF BInv

\* Days and ends of periods are numbers.
LEMMA DaysAre ==
  ASSUME BInv
  PROVE  /\ today \in Nat /\ today <= LastDay /\ Period \in Nat \ {0} /\ Days \subseteq Nat
         /\ Ends \subseteq Nat /\ today + Period \in Ends /\ today + 2 * Period \in Ends
         /\ today \in Ends
         /\ \A c \in Charges : rail[c] \in RailRow /\ rail[c].until \in Nat
         /\ Subs \subseteq Charges /\ Topups \subseteq Charges
<1>1. today \in 0..LastDay /\ LastDay \in Nat /\ Period \in Nat \ {0}
  BY BillingAssumption DEF BInv, TypeOK, Days
<1>2. \A c \in Charges : rail[c] \in RailRow /\ rail[c].until \in Ends
  BY DEF BInv, TypeOK, RailRow
<1>3. QED
  BY <1>1, <1>2 DEF Ends, Days, Charges

\* A charge that is not on the ledger gets another state at the rail.
LEMMA RailMoves ==
  ASSUME BInv, NEW c \in Charges, rail[c].state # "taken",
         NEW row \in RailRow, row.refunded = rail[c].refunded,
         row.state = "taken" => row.until = today + Period,
         rail' = [rail EXCEPT ![c] = row],
         UNCHANGED <<today, sub, usage, ledger, comps, heard, gone, refund, cancel, work, comped>>
  PROVE  BInv'
<1>1. \A d \in Charges \ {c} : rail'[d] = rail[d]
  BY DEF BInv, TypeOK
<1>2. rail'[c] = row /\ ~Recorded(c)
  BY DEF BInv, TypeOK, ChargesAgree
<1>3. TypeOK'
  BY DEF BInv, TypeOK
<1>4. ChargesAgree'
  <2>0. today' = today /\ Period <= today + Period
    BY DaysAre
  <2>1. ASSUME NEW d \in Charges
        PROVE  /\ rail'[d].state = "taken" =>
                    Period <= rail'[d].until /\ rail'[d].until <= today' + Period
               /\ Recorded(d)' => rail'[d].state = "taken"
               /\ Refunded(d)' => Recorded(d)' /\ rail'[d].refunded
    <3>1. CASE d = c
      BY <1>2, <2>0, <3>1, DaysAre DEF BInv, ChargesAgree, Recorded, Refunded
    <3>2. CASE d # c
      BY <1>1, <2>0, <3>2 DEF BInv, ChargesAgree, Recorded, Refunded
    <3>3. QED
      BY <3>1, <3>2
  <2>2. ASSUME NEW o \in Operators, refund[o].at # "idle"
        PROVE  refund[o].charge \in Charges
    BY <2>2 DEF BInv, TypeOK, Idle, Asking
  <2>3. \A d \in Charges : rail'[d].refunded = rail[d].refunded
    BY <1>1, <1>2
  <2>4. ASSUME NEW o \in Operators, refund[o].at # "idle" PROVE Recorded(refund[o].charge)'
    BY <2>4 DEF BInv, ChargesAgree, Recorded
  <2>5. ASSUME NEW o \in Operators, refund[o].at = "accepted"
        PROVE  rail'[refund[o].charge].refunded /\ ~Refunded(refund[o].charge)'
    BY <2>2, <2>3, <2>5 DEF BInv, ChargesAgree, Refunded
  <2>6. QED
    BY <2>1, <2>4, <2>5 DEF BInv, ChargesAgree
<1>5. \A d \in Charges : Recorded(d) => rail'[d].until = rail[d].until
  BY <1>1, <1>2
<1>6. today' \in {today, today + 1} /\ today' \in Days /\ \A w \in Workers : work'[w] \in {None, work[w]}
  BY DEF BInv, TypeOK
<1>7. QED
  BY <1>3, <1>4, <1>5, <1>6, BillingQuiet

LEMMA CheckoutSound ==
  ASSUME BInv, NEW c \in Charges, PreCheckout(c) \/ Pay(c) PROVE BInv'
<1>1. CASE PreCheckout(c)
  <2>1. /\ rail[c].state = "unpaid" /\ rail' = [rail EXCEPT ![c].state = "open"]
        /\ UNCHANGED <<today, sub, usage, ledger, comps, heard, gone, refund, cancel, work, comped>>
    BY <1>1 DEF PreCheckout
  <2> DEFINE row == [rail[c] EXCEPT !.state = "open"]
  <2>2. row \in RailRow /\ row.refunded = rail[c].refunded /\ row.state = "open"
        /\ rail' = [rail EXCEPT ![c] = row]
    BY <2>1, DaysAre DEF RailRow
  <2> HIDE DEF row
  <2>3. QED
    BY <2>1, <2>2, RailMoves
<1>2. CASE Pay(c)
  <2>1. /\ rail[c].state = "open"
        /\ rail' = [rail EXCEPT ![c].state = "taken", ![c].until = today + Period,
                                ![c].renewing = c \in Subs]
        /\ UNCHANGED <<today, sub, usage, ledger, comps, heard, gone, refund, cancel, work, comped>>
    BY <1>2 DEF Pay
  <2> DEFINE row == [rail[c] EXCEPT !.state = "taken", !.until = today + Period,
                                    !.renewing = c \in Subs]
  <2>2. rail[c] \in RailRow /\ today + Period \in Ends /\ (c \in Subs) \in BOOLEAN
    BY DaysAre
  <2>3. row \in RailRow /\ row.refunded = rail[c].refunded /\ row.state = "taken"
        /\ row.until = today + Period
    BY <2>2 DEF RailRow
  <2>4. rail' = [rail EXCEPT ![c] = row]
    BY <2>1
  <2> HIDE DEF row
  <2>5. QED
    BY <2>1, <2>3, <2>4, RailMoves
<1>3. QED
  BY <1>1, <1>2

LEMMA RenewSound ==
  ASSUME BInv, NEW first \in Subs, NEW c \in Subs, Renew(first, c) PROVE BInv'
<1>1. /\ rail[c].state = "unpaid"
      /\ rail' = [rail EXCEPT ![c].state = "taken", ![c].of = first, ![c].until = today + Period]
      /\ UNCHANGED <<today, sub, usage, ledger, comps, heard, gone, refund, cancel, work, comped>>
  BY DEF Renew
<1> DEFINE row == [rail[c] EXCEPT !.state = "taken", !.of = first, !.until = today + Period]
<1>2. c \in Charges /\ first \in Charges /\ rail[c] \in RailRow /\ today + Period \in Ends
  BY DaysAre
<1>3. row \in RailRow /\ row.refunded = rail[c].refunded /\ row.state = "taken"
      /\ row.until = today + Period
  BY <1>2 DEF RailRow
<1>4. rail' = [rail EXCEPT ![c] = row]
  BY <1>1
<1> HIDE DEF row
<1>5. QED
  BY <1>1, <1>2, <1>3, <1>4, RailMoves

\* The rail changes what it knows beside the time that was paid for.
LEMMA RailNotes ==
  ASSUME BInv, TypeOK', ChargesAgree', UNCHANGED <<today, sub, usage, ledger, comps, work, comped>>,
         \A d \in Charges : rail'[d].until = rail[d].until
  PROVE  BInv'
<1>1. today' \in {today, today + 1} /\ today' \in Days /\ \A w \in Workers : work'[w] \in {None, work[w]}
  BY DEF BInv, TypeOK
<1>2. UNCHANGED <<sub, usage, ledger, comps, comped>>
      /\ \A d \in Charges : Recorded(d) => rail'[d].until = rail[d].until
  OBVIOUS
<1>3. QED
  BY <1>1, <1>2, BillingQuiet

\* The renewal ends at the rail, for whoever asked.
LEMMA RenewalEnds ==
  ASSUME BInv, NEW c \in Charges, rail' = [rail EXCEPT ![c].renewing = FALSE],
         cancel' \in {Idle} \cup Asking,
         UNCHANGED <<today, sub, usage, ledger, comps, heard, gone, refund, work, comped>>
  PROVE  BInv'
<1> DEFINE row == [rail[c] EXCEPT !.renewing = FALSE]
<1>0. rail[c] \in RailRow
  BY DaysAre
<1>1. row \in RailRow /\ row.state = rail[c].state /\ row.until = rail[c].until
      /\ row.refunded = rail[c].refunded
  BY <1>0 DEF RailRow
<1>2. rail' = [rail EXCEPT ![c] = row]
  OBVIOUS
<1> HIDE DEF row
<1>3. TypeOK'
  BY <1>1, <1>2 DEF BInv, TypeOK
<1>4. \A d \in Charges : /\ rail'[d].state = rail[d].state /\ rail'[d].until = rail[d].until
                         /\ rail'[d].refunded = rail[d].refunded
  BY <1>1, <1>2 DEF BInv, TypeOK
<1>5. \A o \in Operators : refund[o].at # "idle" => refund[o].charge \in Charges
  BY DEF BInv, TypeOK, Idle, Asking
<1>6. ChargesAgree'
  BY <1>4, <1>5 DEF BInv, ChargesAgree, Recorded, Refunded
<1>7. QED
  BY <1>3, <1>4, <1>6, RailNotes

LEMMA LapseSound ==
  ASSUME BInv, NEW c \in Charges, Lapse(c) PROVE BInv'
<1>1. /\ rail' = [rail EXCEPT ![c].renewing = FALSE] /\ cancel' = cancel
      /\ UNCHANGED <<today, sub, usage, ledger, comps, heard, gone, refund, work, comped>>
  BY DEF Lapse
<1>2. cancel' \in {Idle} \cup Asking
  BY <1>1 DEF BInv, TypeOK
<1>3. QED
  BY <1>1, <1>2, RenewalEnds

\* Nothing but who asks, who has heard and who has left.
LEMMA AskingSound ==
  ASSUME BInv, UNCHANGED <<today, sub, usage, ledger, comps, rail, work, comped>>,
         heard' \subseteq Charges, gone' \subseteq Charges, cancel' \in {Idle} \cup Asking,
         refund' \in [Operators -> {Idle} \cup Asking],
         \A o \in Operators :
           refund'[o] = refund[o] \/ refund'[o] = Idle
           \/ (refund'[o].at = "asking" /\ Recorded(refund'[o].charge))
  PROVE  BInv'
<1>1. TypeOK'
  BY DEF BInv, TypeOK
<1>2. Idle.at = "idle"
  BY DEF Idle
<1>3. ASSUME NEW o \in Operators, refund'[o].at # "idle" PROVE Recorded(refund'[o].charge)
  BY <1>2, <1>3 DEF BInv, ChargesAgree
<1>4. ASSUME NEW o \in Operators, refund'[o].at = "accepted"
      PROVE  refund'[o] = refund[o] /\ refund[o].at = "accepted"
  BY <1>2, <1>4
<1>5. ChargesAgree'
  <2>1. \A c \in Charges :
          /\ rail'[c].state = "taken" =>
               Period <= rail'[c].until /\ rail'[c].until <= today' + Period
          /\ Recorded(c)' => rail'[c].state = "taken"
          /\ Refunded(c)' => Recorded(c)' /\ rail'[c].refunded
    BY DEF BInv, ChargesAgree, Recorded, Refunded
  <2>2. ASSUME NEW o \in Operators, refund'[o].at # "idle" PROVE Recorded(refund[o].charge)'
    BY <1>3, <2>2 DEF Recorded
  <2>3. ASSUME NEW o \in Operators, refund'[o].at = "accepted"
        PROVE  /\ rail'[refund'[o].charge].refunded /\ ~Refunded(refund[o].charge)'
               /\ \A p \in Operators : refund'[p].at = "accepted"
                                         /\ refund'[p].charge = refund'[o].charge => p = o
    BY <1>4, <2>3 DEF BInv, ChargesAgree, Refunded
  <2>4. QED
    BY <2>1, <2>2, <2>3 DEF ChargesAgree
<1>6. QED
  BY <1>1, <1>5, RailNotes

LEMMA AskersSound ==
  ASSUME BInv,
         \/ \E c \in Charges : PayerLeaves(c)
         \/ \E o \in Operators, c \in Charges : RefundAsk(o, c)
         \/ CancelAsk \/ RailCancels
  PROVE  BInv'
<1>0. /\ cancel \in {Idle} \cup Asking /\ refund \in [Operators -> {Idle} \cup Asking]
      /\ heard \subseteq Charges /\ gone \subseteq Charges /\ sub.charge \in Subs \cup {None}
      /\ Subs \subseteq Charges /\ Idle.at = "idle"
  BY DaysAre DEF BInv, TypeOK, SubRow, Idle
<1>1. ASSUME NEW c \in Charges, PayerLeaves(c) PROVE BInv'
  <2>1. /\ gone' \subseteq Charges
        /\ UNCHANGED <<today, sub, usage, ledger, comps, rail, heard, refund, cancel, work, comped>>
    BY <1>0, <1>1 DEF PayerLeaves
  <2>2. QED
    BY <1>0, <2>1, AskingSound
<1>2. ASSUME NEW o \in Operators, NEW c \in Charges, RefundAsk(o, c) PROVE BInv'
  <2> DEFINE ask == [at |-> "asking", charge |-> c]
  <2>1. /\ Recorded(c) /\ refund' = [refund EXCEPT ![o] = ask]
        /\ UNCHANGED <<today, sub, usage, ledger, comps, rail, heard, gone, cancel, work, comped>>
    BY <1>2 DEF RefundAsk
  <2>2. ask \in Asking /\ ask.at = "asking" /\ ask.charge = c
    BY DEF Asking
  <2> HIDE DEF ask
  <2>3. /\ refund' \in [Operators -> {Idle} \cup Asking]
        /\ \A p \in Operators : refund'[p] = refund[p] \/ refund'[p] = ask
    BY <1>0, <2>1, <2>2
  <2>4. \A p \in Operators :
          refund'[p] = refund[p] \/ refund'[p] = Idle
          \/ (refund'[p].at = "asking" /\ Recorded(refund'[p].charge))
    BY <2>1, <2>2, <2>3
  <2>5. QED
    BY <1>0, <2>1, <2>3, <2>4, AskingSound
<1>3. CASE CancelAsk
  <2>1. /\ sub.charge # None /\ cancel' = [at |-> "asking", charge |-> sub.charge]
        /\ UNCHANGED <<today, sub, usage, ledger, comps, rail, heard, gone, refund, work, comped>>
    BY <1>3 DEF CancelAsk
  <2>2. cancel' \in {Idle} \cup Asking
    BY <1>0, <2>1 DEF Asking
  <2>3. QED
    BY <1>0, <2>1, <2>2, AskingSound
<1>4. CASE RailCancels
  <2>1. cancel \in Asking /\ cancel.charge \in Charges
    BY <1>0, <1>4 DEF RailCancels, Asking
  <2>2. CASE rail[cancel.charge].renewing
    <3>1. /\ rail' = [rail EXCEPT ![cancel.charge].renewing = FALSE]
          /\ cancel' = [cancel EXCEPT !.at = "accepted"]
          /\ UNCHANGED <<today, sub, usage, ledger, comps, heard, gone, refund, work, comped>>
      BY <1>4, <2>2 DEF RailCancels
    <3>2. cancel' \in {Idle} \cup Asking
      BY <2>1, <3>1 DEF Asking
    <3>3. QED
      BY <2>1, <3>1, <3>2, RenewalEnds
  <2>3. CASE ~rail[cancel.charge].renewing
    <3>1. /\ cancel' = Idle
          /\ UNCHANGED <<today, sub, usage, ledger, comps, rail, heard, gone, refund, work, comped>>
      BY <1>4, <2>3 DEF RailCancels
    <3>2. QED
      BY <1>0, <3>1, AskingSound
  <2>4. QED
    BY <2>2, <2>3
<1>5. QED
  BY <1>1, <1>2, <1>3, <1>4

\* The rail's answer to a refund: at most one asker of a charge is accepted.
LEMMA RailRefundsSound ==
  ASSUME BInv, NEW o \in Operators, RailRefunds(o) PROVE BInv'
<1> DEFINE c == refund[o].charge
<1>0. refund \in [Operators -> {Idle} \cup Asking] /\ cancel \in {Idle} \cup Asking
      /\ heard \subseteq Charges /\ gone \subseteq Charges
  BY DEF BInv, TypeOK
<1>1. refund[o] \in Asking /\ c \in Charges /\ refund[o].at = "asking" /\ Idle.at = "idle"
  BY <1>0 DEF RailRefunds, Asking, Idle
<1>2. UNCHANGED <<today, sub, usage, ledger, comps, heard, gone, cancel, work, comped>>
  BY DEF RailRefunds
<1>3. CASE rail[c].refunded
  <2>1. refund' = [refund EXCEPT ![o] = Idle] /\ UNCHANGED rail
    BY <1>3 DEF RailRefunds
  <2>2. refund' \in [Operators -> {Idle} \cup Asking]
        /\ \A p \in Operators : refund'[p] = refund[p] \/ refund'[p] = Idle
    BY <1>0, <2>1
  <2>3. QED
    BY <1>0, <1>2, <2>1, <2>2, AskingSound
<1>4. CASE ~rail[c].refunded
  <2> DEFINE row == [rail[c] EXCEPT !.refunded = TRUE]
             ask == [refund[o] EXCEPT !.at = "accepted"]
  <2>1. refund' = [refund EXCEPT ![o] = ask] /\ rail' = [rail EXCEPT ![c] = row]
    BY <1>4 DEF RailRefunds
  <2>2. rail[c] \in RailRow
    BY <1>1, DaysAre
  <2>3. /\ row \in RailRow /\ row.state = rail[c].state /\ row.until = rail[c].until /\ row.refunded
        /\ ask \in Asking /\ ask.at = "accepted" /\ ask.charge = c
    BY <1>1, <2>2 DEF RailRow, Asking
  <2> HIDE DEF row, ask
  <2>4. TypeOK'
    BY <1>0, <1>1, <1>2, <2>1, <2>3 DEF BInv, TypeOK
  <2>5. \A d \in Charges : /\ rail'[d].state = rail[d].state /\ rail'[d].until = rail[d].until
                           /\ rail[d].refunded => rail'[d].refunded
    BY <1>1, <2>1, <2>3 DEF BInv, TypeOK
  <2>6. rail'[c].refunded /\ Recorded(c) /\ ~Refunded(c)
    BY <1>1, <1>4, <2>1, <2>3 DEF BInv, TypeOK, ChargesAgree
  <2>7. /\ refund'[o] = ask
        /\ \A p \in Operators \ {o} :
             refund'[p] = refund[p] /\ (refund[p].at = "accepted" => refund[p].charge # c)
    BY <1>0, <1>4, <2>1 DEF BInv, ChargesAgree
  <2>8. \A p \in Operators : refund[p].at # "idle" => refund[p].charge \in Charges
    BY <1>0, <1>1 DEF Asking
  <2>9. \A d \in Charges : (Recorded(d)' <=> Recorded(d)) /\ (Refunded(d)' <=> Refunded(d))
    BY <1>2 DEF Recorded, Refunded
  <2>10. \A d \in Charges :
           /\ rail'[d].state = "taken" =>
                Period <= rail'[d].until /\ rail'[d].until <= today' + Period
           /\ Recorded(d)' => rail'[d].state = "taken"
           /\ Refunded(d)' => Recorded(d)' /\ rail'[d].refunded
    BY <1>2, <2>5, <2>9 DEF BInv, ChargesAgree
  <2>11. ASSUME NEW p \in Operators, refund'[p].at # "idle" PROVE Recorded(refund[p].charge)'
    <3>1. CASE p = o
      BY <1>2, <2>3, <2>6, <2>7, <3>1 DEF Recorded
    <3>2. CASE p # o
      BY <1>2, <2>7, <2>11, <3>2 DEF BInv, ChargesAgree, Recorded
    <3>3. QED
      BY <3>1, <3>2
  <2>12. ASSUME NEW p \in Operators, refund'[p].at = "accepted"
         PROVE  /\ rail'[refund'[p].charge].refunded /\ ~Refunded(refund[p].charge)'
                /\ \A q \in Operators : refund'[q].at = "accepted"
                                          /\ refund'[q].charge = refund'[p].charge => q = p
    <3>1. CASE p = o
      BY <1>2, <2>3, <2>6, <2>7, <3>1 DEF Refunded
    <3>2. CASE p # o
      BY <1>2, <2>3, <2>5, <2>7, <2>8, <2>12, <3>2 DEF BInv, ChargesAgree, Refunded
    <3>3. QED
      BY <3>1, <3>2
  <2>13. ChargesAgree'
    BY <2>10, <2>11, <2>12 DEF ChargesAgree
  <2>14. QED
    BY <1>2, <2>4, <2>5, <2>13, RailNotes
<1>5. QED
  BY <1>3, <1>4

\* A day passes, or what was waiting is forgotten.
LEMMA TomorrowSound == ASSUME BInv, Tomorrow PROVE BInv'
<1>1. today' = today + 1 /\ today < LastDay
      /\ UNCHANGED <<sub, usage, ledger, comps, rail, heard, gone, refund, cancel, work, comped>>
  BY DEF Tomorrow
<1>2. today' \in Days
  BY <1>1, DaysAre, BillingAssumption DEF Days
<1>3. TypeOK'
  BY <1>1, <1>2 DEF BInv, TypeOK
<1>4. ChargesAgree'
  <2>1. \A c \in Charges : rail[c].until <= today + Period => rail[c].until <= today' + Period
    BY <1>1, DaysAre
  <2>2. QED
    BY <1>1, <2>1 DEF BInv, ChargesAgree, Recorded, Refunded
<1>5. QED
  BY <1>1, <1>2, <1>3, <1>4, BillingQuiet

LEMMA ForgetSound == ASSUME BInv, Forget PROVE BInv'
<1>1. /\ refund' = [o \in Operators |-> Idle] /\ cancel' = Idle /\ work' = [w \in Workers |-> None]
      /\ UNCHANGED <<today, sub, usage, ledger, comps, rail, heard, gone, comped>>
  BY DEF Forget
<1>2. TypeOK'
  BY <1>1 DEF BInv, TypeOK
<1>3. ChargesAgree'
  BY <1>1 DEF BInv, ChargesAgree, Recorded, Refunded, Idle
<1>4. today' \in {today, today + 1} /\ today' \in Days /\ \A w \in Workers : work'[w] \in {None, work[w]}
  BY <1>1 DEF BInv, TypeOK
<1>5. \A c \in Charges : Recorded(c) => rail'[c].until = rail[c].until
  BY <1>1
<1>6. QED
  BY <1>1, <1>2, <1>3, <1>4, <1>5, BillingQuiet

-----------------------------------------------------------------------------
(* Metered work.                                                            *)

\* There is room for everything that runs at once, one time at least.
LEMMA MostIs ==
  ASSUME BInv, NEW d \in Ends
  PROVE  /\ Most(d) \in Int /\ usage[d].granted \in Nat /\ usage[d].used \in Nat
         /\ Most(d) >= FamilyLimit + usage[d].granted - 1 + Cardinality(Workers)
         /\ Cardinality(Workers) \in Nat /\ FamilyLimit \in Nat \ {0} /\ FreeLimit <= FamilyLimit
         /\ FreeLimit \in Nat
<1> DEFINE n == Cardinality({c \in Subs : Recorded(c)})
           k == Cardinality(Workers)
<1>1. n \in Nat /\ k \in Nat
  BY ChargesCounted, RunningCounted DEF BInv, Counted
<1>2. usage[d].granted \in Nat /\ usage[d].used \in Nat
  BY DEF BInv, TypeOK
<1>3. Most(d) = FamilyLimit + usage[d].granted - 1 + k * (1 + n)
  BY DEF Most
<1> HIDE DEF n, k
<1>4. k * (1 + n) \in Nat /\ k * (1 + n) = k + k * n /\ k * n \in Nat
  BY <1>1
<1>5. FamilyLimit \in Nat \ {0} /\ FreeLimit <= FamilyLimit /\ FreeLimit \in Nat
  BY BillingAssumption
<1>6. Most(d) \in Int /\ Most(d) >= FamilyLimit + usage[d].granted - 1 + k
  BY <1>1, <1>2, <1>3, <1>4, <1>5
<1>7. QED
  BY <1>1, <1>2, <1>5, <1>6 DEF k

LEMMA AdmitSound ==
  ASSUME BInv, NEW w \in Workers, Admit(w) PROVE BInv'
<1>1. /\ work[w] = None /\ Admits(Rolled(sub, today)) /\ work' = [work EXCEPT ![w] = today]
      /\ UNCHANGED <<today, sub, usage, ledger, comps, rail, heard, gone, refund, cancel, comped>>
  BY DEF Admit
<1>2. /\ TypeOK' /\ work'[w] = today /\ \A v \in Workers \ {w} : work'[v] = work[v]
  BY <1>1 DEF BInv, TypeOK
<1>3. ChargesAgree' /\ Given' /\ SubPaid' /\ Counted'
  BY <1>1 DEF BInv, ChargesAgree, Given, SubPaid, EffectiveTier, Counted, Units, Granted, GrantsAddUp,
              BoughtTopups, Recorded, Refunded
<1>4. Timely'
  BY <1>1, <1>2, DaysAre DEF BInv, Timely
<1>5. sub \in SubRow /\ today \in Days /\ sub.start \in Ends /\ sub.end \in Nat /\ today \in Nat
  BY DaysAre DEF BInv, TypeOK, SubRow
<1>6. \A d \in Ends : Most(d)' = Most(d)
  BY <1>1 DEF Most, Recorded
<1>7. ASSUME comps = 0, \A c \in Charges : ~Refunded(c)
      PROVE  usage[sub.start].used + Cardinality(Running') <= Most(sub.start)
  <2>1. CASE today < sub.end
    <3>1. Rolled(sub, today) = sub
      BY <1>5, <2>1, RolledIs
    <3>2. sub.tier \in {"free", "family"} /\ EffectiveTier(sub) \in {"free", "family"}
      BY <1>5, <1>7 DEF BInv, Given, SubRow, EffectiveTier
    <3>3. usage[sub.start].used < Limit(sub)
      BY <1>1, <3>1, <3>2 DEF Admits
    <3>4. Limit(sub) \in {FreeLimit + usage[sub.start].granted, FamilyLimit + usage[sub.start].granted}
      BY <3>2 DEF Limit
    <3>5. usage[sub.start].used <= FamilyLimit + usage[sub.start].granted - 1
      BY <1>5, <3>3, <3>4, MostIs
    <3>6. Running' \subseteq Workers
      BY DEF Running
    <3>7. Cardinality(Running') \in Nat /\ Cardinality(Running') <= Cardinality(Workers)
      BY <3>6, RunningCounted
    <3>8. QED
      BY <1>5, <3>5, <3>7, MostIs
  <2>2. CASE ~(today < sub.end)
    <3>1. Running' = Running
      BY <1>1, <1>2, <2>2 DEF Running
    <3>2. QED
      BY <1>7, <3>1 DEF BInv, Metered
  <2>3. QED
    BY <2>1, <2>2
<1>8. Most(sub.start)' = Most(sub.start)
  BY <1>1 DEF Most, Recorded
<1>9. Metered'
  BY <1>1, <1>6, <1>7, <1>8 DEF BInv, Metered, Refunded
<1>10. QED
  BY <1>2, <1>3, <1>4, <1>9 DEF BInv

\* The row as the code uses it, rolled to a day that is not ahead.
LEMMA RollsOn ==
  ASSUME BInv, NEW day \in Days, day <= today, NEW s, s = Rolled(sub, day)
  PROVE  /\ s \in SubRow /\ s.start \in Ends /\ s.start <= today /\ s.start < s.end
         /\ s.tier = sub.tier
         /\ EffectiveTier(s) = "family" => s = sub
         /\ day < sub.end => s = sub
         /\ day >= sub.end => s.start >= sub.end /\ usage[s.start].used = 0
         /\ \A d \in Ends : d >= s.end => usage[d].used = 0
<1>1. sub \in SubRow /\ sub.start <= today /\ sub.start < sub.end /\ sub.end \in Nat /\ day \in Nat
      /\ today \in Nat /\ Ends \subseteq Nat
  BY DaysAre DEF BInv, TypeOK, Timely, SubRow
<1>2. s \in SubRow /\ s.start \in Ends /\ s.end \in Nat /\ s.start \in Nat /\ s.tier = sub.tier
  BY <1>1, RolledIs DEF SubRow
<1>3. \A d \in Ends : d >= sub.end => usage[d].used = 0
  BY DEF BInv, Metered
<1>4. CASE day < sub.end
  <2>1. s = sub
    BY <1>1, <1>4, RolledIs
  <2>2. QED
    BY <1>1, <1>2, <1>3, <1>4, <2>1
<1>5. CASE ~(day < sub.end)
  <2>1. day >= sub.end
    BY <1>1, <1>5
  <2>2. /\ sub.end <= s.start /\ s.start <= day /\ s.start < s.end
        /\ EffectiveTier(s) = "family" => day < sub.end
    BY <1>1, <2>1, RolledIs
  <2>3. \A d \in Ends : d >= s.end => d >= sub.end
    BY <1>1, <1>2, <2>2
  <2>4. QED
    BY <1>1, <1>2, <1>3, <1>5, <2>1, <2>2, <2>3
<1>6. QED
  BY <1>4, <1>5

\* What does not depend on the quota survives when the row is rolled.
LEMMA RollSound ==
  ASSUME BInv, NEW day \in Days, day <= today, sub' = Rolled(sub, day),
         UNCHANGED <<today, rail, comped>>, comps' = comps \/ comps' = comps + 1,
         \A c \in Subs : (Recorded(c)' <=> Recorded(c)) /\ (Refunded(c)' <=> Refunded(c)),
         \A w \in Workers : work'[w] \in {None, work[w]}
  PROVE  Timely' /\ Given' /\ SubPaid'
<1>1. /\ sub' \in SubRow /\ sub'.start <= today /\ sub'.start < sub'.end /\ sub'.tier = sub.tier
      /\ EffectiveTier(sub') = "family" => sub' = sub
  BY RollsOn
<1>2. Timely'
  BY <1>1 DEF BInv, Timely
<1>3. comps' = 0 => comps = 0
  <2>1. comps \in Nat
    BY BillingAssumption DEF BInv, TypeOK
  <2>2. QED
    BY <2>1
<1>4. Given'
  BY <1>1, <1>3 DEF BInv, Given
<1>5. SubPaid'
  <2>1. SUFFICES ASSUME EffectiveTier(sub') = "family"
                 PROVE  \/ \E c \in Subs : Recorded(c)' /\ ~Refunded(c)' /\ rail'[c].until >= sub'.end
                        \/ comped' >= sub'.end
    BY DEF SubPaid, EffectiveTier
  <2>2. sub' = sub
    BY <1>1, <2>1
  <2>3. QED
    BY <2>1, <2>2 DEF BInv, SubPaid
<1>6. QED
  BY <1>2, <1>4, <1>5

LEMMA ChargeSound ==
  ASSUME BInv, NEW w \in Workers, Charge(w) PROVE BInv'
<1> DEFINE day == work[w]
           s == Rolled(sub, day)
<1>1. /\ day # None /\ sub' = s /\ usage' = [usage EXCEPT ![s.start].used = @ + 1]
      /\ work' = [work EXCEPT ![w] = None]
      /\ UNCHANGED <<today, ledger, comps, rail, heard, gone, refund, cancel, comped>>
  BY DEF Charge
<1>2. day \in Days /\ day \in Nat /\ day <= today /\ today \in Nat /\ Ends \subseteq Nat
      /\ sub.end \in Nat /\ sub.start \in Ends
  BY <1>1, DaysAre DEF BInv, TypeOK, Timely, SubRow
<1>3. /\ s \in SubRow /\ s.start \in Ends /\ s.start <= today /\ s.start < s.end
      /\ day < sub.end => s = sub
      /\ day >= sub.end => s.start >= sub.end /\ usage[s.start].used = 0
      /\ \A d \in Ends : d >= s.end => usage[d].used = 0
  BY <1>2, RollsOn
<1> HIDE DEF s, day
<1>4. /\ usage' \in [Ends -> [used : Nat, granted : Nat]]
      /\ usage'[s.start].used = usage[s.start].used + 1
      /\ \A d \in Ends \ {s.start} : usage'[d] = usage[d]
      /\ \A d \in Ends : usage'[d].granted = usage[d].granted
      /\ work' \in [Workers -> Days \cup {None}]
      /\ work'[w] = None
      /\ \A v \in Workers \ {w} : work'[v] = work[v]
  BY <1>1, <1>3 DEF BInv, TypeOK
<1>5. TypeOK'
  BY <1>1, <1>3, <1>4 DEF BInv, TypeOK
<1>6. ChargesAgree'
  BY <1>1 DEF BInv, ChargesAgree, Recorded, Refunded
<1>7. Timely' /\ Given' /\ SubPaid'
  <2>1. sub' = Rolled(sub, day) /\ comps' = comps
    BY <1>1 DEF s
  <2>2. \A c \in Subs : (Recorded(c)' <=> Recorded(c)) /\ (Refunded(c)' <=> Refunded(c))
    BY <1>1 DEF Recorded, Refunded
  <2>3. \A v \in Workers : work'[v] \in {None, work[v]}
    BY <1>4
  <2>4. QED
    BY <1>1, <1>2, <2>1, <2>2, <2>3, RollSound
<1>8. Counted'
  <2>1. Units' = Units
    BY <1>4 DEF Units
  <2>2. QED
    BY <1>1, <2>1 DEF BInv, Counted, Granted, GrantsAddUp, BoughtTopups, Recorded, Refunded
<1>9. Metered'
  <2>1. \A d \in Ends : usage[d].used \in Nat /\ d \in Nat /\ usage'[d].used \in Nat
    BY <1>2, <1>4 DEF BInv, TypeOK
  <2>2. s.end \in Nat /\ s.start \in Nat
    BY <1>2, <1>3 DEF SubRow
  <2>3. ASSUME NEW d \in Ends, usage'[d].used > 0 PROVE d <= today
    <3>1. CASE d = s.start
      BY <1>3, <3>1
    <3>2. CASE d # s.start
      BY <1>4, <2>3, <3>2 DEF BInv, Metered
    <3>3. QED
      BY <3>1, <3>2
  <2>4. ASSUME NEW d \in Ends, d >= s.end PROVE usage'[d].used = 0
    <3>1. d # s.start /\ usage[d].used = 0
      BY <1>3, <2>1, <2>2, <2>4
    <3>2. QED
      BY <1>4, <3>1
  <2>5. \A d \in Ends : Most(d)' = Most(d) /\ Most(d) \in Int
    BY <1>1, <1>4, MostIs DEF Most, Recorded
  <2>6. ASSUME comps = 0, \A c \in Charges : ~Refunded(c)
        PROVE  /\ \A d \in Ends : usage'[d].used <= Most(d)
               /\ usage'[s.start].used + Cardinality(Running') <= Most(s.start)
    <3>1. \A d \in Ends : usage[d].used <= Most(d)
      BY <2>6 DEF BInv, Metered
    <3>2. Running' \subseteq Workers /\ Running \subseteq Workers
      BY DEF Running
    <3>3. IsFiniteSet(Running) /\ Cardinality(Running') \in Nat /\ Cardinality(Running) \in Nat
      BY <3>2, RunningCounted
    <3>4. usage'[s.start].used + Cardinality(Running') <= Most(s.start)
      <4>1. CASE day < sub.end
        <5>1. s = sub /\ w \in Running
          BY <1>1, <1>3, <4>1 DEF Running, day
        <5>2. Running' = Running \ {w}
          BY <1>1, <1>4, <5>1 DEF Running
        <5>3. Cardinality(Running') = Cardinality(Running) - 1
          BY <3>3, <5>1, <5>2, FS_RemoveElement
        <5>4. usage[sub.start].used + Cardinality(Running) <= Most(sub.start)
          BY <2>6 DEF BInv, Metered
        <5>5. usage[sub.start].used \in Nat /\ usage'[s.start].used = usage[sub.start].used + 1
          BY <1>2, <1>4, <2>1, <5>1
        <5>6. QED
          BY <3>3, <5>1, <5>3, <5>4, <5>5
      <4>2. CASE ~(day < sub.end)
        <5>1. usage'[s.start].used = 1
          BY <1>2, <1>3, <1>4, <4>2
        <5>2. Running' \subseteq Workers \ {w}
          BY <1>4 DEF Running
        <5>3. IsFiniteSet(Workers \ {w}) /\ Cardinality(Workers \ {w}) = Cardinality(Workers) - 1
          BY BillingAssumption, FS_RemoveElement
        <5>4. Running' \in SUBSET (Workers \ {w})
          BY <5>2
        <5>5. Cardinality(Running') <= Cardinality(Workers \ {w})
          BY <5>3, <5>4, FS_Subset
        <5>6. QED
          BY <1>3, <3>3, <5>1, <5>3, <5>5, MostIs
      <4>3. QED
        BY <4>1, <4>2
    <3>5. ASSUME NEW d \in Ends PROVE usage'[d].used <= Most(d)
      <4>1. CASE d = s.start
        BY <2>1, <2>5, <3>3, <3>4, <4>1
      <4>2. CASE d # s.start
        BY <1>4, <3>1, <4>2
      <4>3. QED
        BY <4>1, <4>2
    <3>6. QED
      BY <3>4, <3>5
  <2>7. Most(sub.start)' = Most(s.start)
    BY <1>1, <1>3, <1>4 DEF Most, Recorded
  <2>8. QED
    BY <1>1, <2>3, <2>4, <2>5, <2>6, <2>7 DEF Metered, Refunded
<1>10. QED
  BY <1>5, <1>6, <1>7, <1>8, <1>9 DEF BInv

-----------------------------------------------------------------------------
(* A payment is recorded.                                                   *)

\* What the ledger says of the charges once it has a row more.
LEMMA PaidRow ==
  ASSUME BInv, NEW c \in Charges, rail[c].state = "taken", ~Recorded(c),
         ledger' = ledger \cup {<<c, "paid">>}, UNCHANGED <<today, rail, refund>>
  PROVE  /\ ledger' \subseteq Charges \X {"paid", "refund"} /\ ChargesAgree'
         /\ \A d \in Charges : (Recorded(d)' <=> Recorded(d) \/ d = c) /\ (Refunded(d)' <=> Refunded(d))
         /\ ~Refunded(c)
         /\ IsFiniteSet({d \in Charges : Recorded(d)})'
<1>1. \A d \in Charges : (Recorded(d)' <=> Recorded(d) \/ d = c) /\ (Refunded(d)' <=> Refunded(d))
  BY DEF Recorded, Refunded
<1>2. ledger' \subseteq Charges \X {"paid", "refund"}
  BY DEF BInv, TypeOK
<1>3. ~Refunded(c)
  BY DEF BInv, ChargesAgree
<1>4. \A o \in Operators : refund[o].at # "idle" => refund[o].charge \in Charges
  BY DEF BInv, TypeOK, Idle, Asking
<1>5. ChargesAgree'
  <2>1. \A d \in Charges :
          /\ rail'[d].state = "taken" => Period <= rail'[d].until /\ rail'[d].until <= today' + Period
          /\ Recorded(d)' => rail'[d].state = "taken"
          /\ Refunded(d)' => Recorded(d)' /\ rail'[d].refunded
    BY <1>1 DEF BInv, ChargesAgree
  <2>2. ASSUME NEW o \in Operators, refund'[o].at # "idle" PROVE Recorded(refund[o].charge)'
    BY <2>2 DEF BInv, ChargesAgree, Recorded
  <2>3. ASSUME NEW o \in Operators, refund'[o].at = "accepted"
        PROVE  /\ rail'[refund'[o].charge].refunded /\ ~Refunded(refund[o].charge)'
               /\ \A p \in Operators : refund'[p].at = "accepted"
                                         /\ refund'[p].charge = refund'[o].charge => p = o
    BY <2>3 DEF BInv, ChargesAgree, Refunded
  <2>4. QED
    BY <2>1, <2>2, <2>3 DEF ChargesAgree
<1>6. {d \in Charges : Recorded(d)}' = {d \in Charges : Recorded(d)} \cup {c}
  BY <1>1
<1>7. IsFiniteSet({d \in Charges : Recorded(d)})
  BY DEF BInv, Counted
<1>8. IsFiniteSet({d \in Charges : Recorded(d)} \cup {c})
  BY <1>7, FS_AddElement
<1>9. QED
  BY <1>1, <1>2, <1>3, <1>5, <1>6, <1>8

LEMMA SubscriptionApplied ==
  ASSUME BInv, NEW c \in Subs, rail[c].state = "taken", Accepts(c), Applied(c),
         heard' \in {heard, heard \cup {c}},
         UNCHANGED <<today, comps, rail, gone, refund, cancel, work, comped>>
  PROVE  BInv'
<1> DEFINE s == Subscribed(sub, c)
<1>0. c \in Charges /\ c \notin Topups
  BY BillingAssumption DEF Charges
<1>1. ~Recorded(c) /\ rail[c].until > today /\ ledger' = ledger \cup {<<c, "paid">>}
      /\ sub' = s /\ usage' = usage
  BY DEF Accepts, Applied
<1>2. /\ rail[c].until \in Ends /\ rail[c].until \in Nat /\ Period \in Nat \ {0} /\ today \in Nat
      /\ Period <= rail[c].until /\ rail[c].until <= today + Period /\ Ends \subseteq Nat
  BY <1>0, DaysAre DEF BInv, TypeOK, RailRow, ChargesAgree
<1>3. rail[c].until - Period \in Ends /\ rail[c].until - Period <= today
      /\ rail[c].until - Period < rail[c].until
  BY <1>2, BillingAssumption DEF Ends
<1>4. sub \in SubRow
  BY DEF BInv, TypeOK
<1>5. /\ s \in SubRow /\ s.start = rail[c].until - Period /\ s.end = rail[c].until
      /\ s.tier = "family" /\ s.status = "active"
  <2>1. s = [sub EXCEPT !.tier = "family", !.status = "active", !.cancelling = FALSE,
                        !.charge = IF @ = None THEN c ELSE @,
                        !.end = rail[c].until, !.start = rail[c].until - Period]
    BY DEF Subscribed
  <2> HIDE DEF s
  <2> DEFINE first == IF sub.charge = None THEN c ELSE sub.charge
             from == rail[c].until - Period
             to == rail[c].until
  <2>2. first \in Subs \cup {None} /\ from \in Ends /\ to \in Ends
    BY <1>2, <1>3, <1>4 DEF SubRow
  <2>3. s = [sub EXCEPT !.tier = "family", !.status = "active", !.cancelling = FALSE,
                        !.charge = first, !.end = to, !.start = from]
    BY <1>4, <2>1 DEF SubRow
  <2> HIDE DEF first, from, to
  <2>4. s \in SubRow /\ s.start = from /\ s.end = to /\ s.tier = "family" /\ s.status = "active"
    BY <1>4, <2>2, <2>3 DEF SubRow
  <2>5. QED
    BY <2>4 DEF from, to
<1> HIDE DEF s
<1>6. /\ ledger' \subseteq Charges \X {"paid", "refund"} /\ ChargesAgree'
      /\ \A d \in Charges : (Recorded(d)' <=> Recorded(d) \/ d = c) /\ (Refunded(d)' <=> Refunded(d))
      /\ ~Refunded(c) /\ IsFiniteSet({d \in Charges : Recorded(d)})'
  BY <1>0, <1>1, PaidRow
<1>7. TypeOK'
  BY <1>0, <1>1, <1>5, <1>6 DEF BInv, TypeOK
<1>8. Timely' /\ Given'
  BY <1>1, <1>3, <1>5 DEF BInv, Timely, Given
<1>9. SubPaid'
  <2>1. Recorded(c)' /\ ~Refunded(c)' /\ rail'[c].until >= sub'.end
    BY <1>0, <1>1, <1>2, <1>5, <1>6
  <2>2. QED
    BY <2>1 DEF SubPaid
<1>10. Counted'
  <2>1. Units' = Units
    BY <1>1 DEF Units
  <2>2. BoughtTopups' = BoughtTopups
    BY <1>0, <1>6 DEF BoughtTopups, Charges
  <2>3. {d \in BoughtTopups : Refunded(d)}' = {d \in BoughtTopups : Refunded(d)}
    BY <1>6, <2>2 DEF BoughtTopups, Charges
  <2>4. GrantsAddUp'
    BY <2>1, <2>2, <2>3 DEF BInv, Counted, GrantsAddUp, Granted
  <2>5. QED
    BY <1>6, <2>1, <2>4 DEF BInv, Counted
<1>11. Metered'
  <2> DEFINE n == Cardinality({d \in Subs : Recorded(d)})
             k == Cardinality(Workers)
  <2>1. n \in Nat /\ k \in Nat /\ Cardinality({d \in Subs : Recorded(d)}') = n + 1
    <3>1. {d \in Subs : Recorded(d)}' = {d \in Subs : Recorded(d)} \cup {c}
      BY <1>6 DEF Charges
    <3>2. c \notin {d \in Subs : Recorded(d)}
      BY <1>1
    <3>3. IsFiniteSet({d \in Subs : Recorded(d)}) /\ n \in Nat /\ k \in Nat
      BY ChargesCounted, RunningCounted DEF BInv, Counted
    <3>4. Cardinality({d \in Subs : Recorded(d)} \cup {c}) = n + 1
      BY <3>2, <3>3, FS_AddElement
    <3>5. QED
      BY <3>1, <3>3, <3>4
  <2>2. ASSUME NEW d \in Ends PROVE Most(d)' = Most(d) + k /\ Most(d) \in Int
    <3> DEFINE m == n + 1
               rest == FamilyLimit + usage[d].granted - 1
    <3>1. Most(d)' = rest + k * (1 + m) /\ Most(d) = rest + k * (1 + n)
      BY <1>1, <2>1 DEF Most
    <3>2. rest \in Int
      BY MostIs
    <3> HIDE DEF n, k, rest
    <3>3. k * (1 + m) = k * (1 + n) + k /\ k * (1 + n) \in Int
      BY <2>1
    <3>4. QED
      BY <2>1, <3>1, <3>2, <3>3
  <2>3. Running' \subseteq Workers
    BY DEF Running
  <2>4. Cardinality(Running') \in Nat /\ Cardinality(Running') <= k
    BY <2>3, RunningCounted
  <2> HIDE DEF n, k
  <2>5. \A d \in Ends : usage[d].used \in Nat /\ d \in Nat
    BY <1>2 DEF BInv, TypeOK
  <2>6. ASSUME NEW d \in Ends, d >= sub'.end PROVE usage'[d].used = 0
    <3>1. ~(d <= today)
      BY <1>1, <1>2, <1>5, <2>5, <2>6
    <3>2. QED
      BY <1>1, <2>5, <3>1 DEF BInv, Metered
  <2>7. ASSUME comps = 0, \A d \in Charges : ~Refunded(d)
        PROVE  /\ \A d \in Ends : usage[d].used <= Most(d)'
               /\ usage[s.start].used + Cardinality(Running') <= Most(sub.start)'
    <3>1. \A d \in Ends : usage[d].used <= Most(d)
      BY <2>7 DEF BInv, Metered
    <3>2. \A d \in Ends : usage[d].used + k <= Most(d)'
      BY <2>1, <2>2, <2>5, <3>1
    <3>3. sub'.start \in Ends /\ sub'.start = s.start
      BY <1>1, <1>3, <1>5
    <3>4. \A d \in Ends : Most(d)' \in Int
      BY <2>1, <2>2
    <3>5. usage[s.start].used + k <= Most(sub.start)' /\ Most(sub.start)' \in Int
      BY <3>2, <3>3, <3>4
    <3>6. QED
      BY <1>3, <1>5, <2>1, <2>4, <2>5, <3>2, <3>4, <3>5
  <2>8. \A d \in Ends : usage'[d].used > 0 => d <= today'
    BY <1>1 DEF BInv, Metered
  <2>9. QED
    BY <1>1, <1>6, <2>6, <2>7, <2>8 DEF Metered
<1>12. QED
  BY <1>6, <1>7, <1>8, <1>9, <1>10, <1>11 DEF BInv

\* The quota of the current period is granted more, or less when the bound is off.
LEMMA RolledMetered ==
  ASSUME BInv, sub' = Rolled(sub, today), usage' \in [Ends -> [used : Nat, granted : Nat]],
         UNCHANGED <<today, work>>,
         \A d \in Ends : usage'[d].used = usage[d].used,
         comps' = 0 /\ (\A c \in Charges : ~Refunded(c)') =>
           /\ comps = 0 /\ \A c \in Charges : ~Refunded(c)
           /\ {c \in Subs : Recorded(c)}' = {c \in Subs : Recorded(c)}
           /\ \A d \in Ends : usage'[d].granted >= usage[d].granted
  PROVE  Metered'
<1>1. /\ sub' \in SubRow /\ sub'.start \in Ends
      /\ today < sub.end => sub' = sub
      /\ today >= sub.end => usage[sub'.start].used = 0
      /\ \A d \in Ends : d >= sub'.end => usage[d].used = 0
  <2>1. today \in Days /\ today <= today
    BY DaysAre DEF BInv, TypeOK
  <2>2. QED
    BY <2>1, RollsOn
<1>2. \A d \in Ends : usage'[d].used > 0 => d <= today'
  BY DEF BInv, Metered
<1>3. ASSUME comps' = 0, \A c \in Charges : ~Refunded(c)'
      PROVE  /\ \A d \in Ends : usage'[d].used <= Most(d)'
             /\ usage'[sub'.start].used + Cardinality(Running') <= Most(sub.start)'
  <2>1. /\ comps = 0 /\ \A c \in Charges : ~Refunded(c)
        /\ {c \in Subs : Recorded(c)}' = {c \in Subs : Recorded(c)}
        /\ \A d \in Ends : usage'[d].granted >= usage[d].granted
    BY <1>3
  <2>2. ASSUME NEW d \in Ends PROVE Most(d)' \in Int /\ Most(d)' >= Most(d) /\ Most(d) \in Int
    <3> DEFINE n == Cardinality({c \in Subs : Recorded(c)})
               room == Cardinality(Workers) * (1 + n)
    <3>1. Most(d) = FamilyLimit + usage[d].granted - 1 + room
      BY DEF Most
    <3>2. Cardinality({c \in Subs : Recorded(c)}') = n
      BY <2>1
    <3>3. Most(d)' = FamilyLimit + usage'[d].granted - 1 + room
      BY <3>2 DEF Most
    <3>4. usage[d].granted \in Nat /\ usage'[d].granted \in Nat /\ usage'[d].granted >= usage[d].granted
      BY <2>1 DEF BInv, TypeOK
    <3>5. n \in Nat /\ Cardinality(Workers) \in Nat /\ FamilyLimit \in Nat
      BY ChargesCounted, RunningCounted, BillingAssumption DEF BInv, Counted
    <3> HIDE DEF n
    <3>6. room \in Int
      BY <3>5
    <3> HIDE DEF room
    <3>7. QED
      BY <3>1, <3>3, <3>4, <3>5, <3>6
  <2>3. \A d \in Ends : usage[d].used <= Most(d) /\ usage[d].used \in Nat
    BY <2>1, MostIs DEF BInv, Metered
  <2>4. Running' \subseteq Workers
    BY DEF Running
  <2>5. Cardinality(Running') \in Nat /\ Cardinality(Running') <= Cardinality(Workers)
    BY <2>4, RunningCounted
  <2>6. usage[sub'.start].used + Cardinality(Running') <= Most(sub'.start)
    <3>1. CASE today < sub.end
      <4>1. Running' = Running /\ sub' = sub
        BY <1>1, <3>1 DEF Running
      <4>2. QED
        BY <2>1, <4>1 DEF BInv, Metered
    <3>2. CASE ~(today < sub.end)
      <4>1. today >= sub.end
        BY <3>2, DaysAre DEF BInv, TypeOK, SubRow
      <4>2. usage[sub'.start].used = 0
        BY <1>1, <4>1
      <4>3. PICK e \in Ends : e = sub'.start
        BY <1>1
      <4>4. Most(e) >= Cardinality(Workers) /\ Most(e) \in Int /\ Cardinality(Workers) \in Nat
        BY MostIs
      <4>5. QED
        BY <2>5, <4>2, <4>3, <4>4
    <3>3. QED
      BY <3>1, <3>2
  <2>7. \A d \in Ends : usage'[d].used <= Most(d)'
    BY <2>2, <2>3
  <2>8. Most(sub.start)' >= Most(sub'.start) /\ Most(sub.start)' \in Int /\ Most(sub'.start) \in Int
    BY <1>1, <2>2
  <2>9. usage[sub'.start].used \in Nat /\ usage'[sub'.start].used = usage[sub'.start].used
    BY <1>1, <2>3
  <2>10. QED
    BY <2>5, <2>6, <2>7, <2>8, <2>9
<1>4. \A d \in Ends : d >= sub'.end => usage'[d].used = 0
  BY <1>1
<1>5. QED
  BY <1>2, <1>3, <1>4 DEF Metered

LEMMA TopupApplied ==
  ASSUME BInv, NEW c \in Topups, rail[c].state = "taken", Accepts(c), Applied(c),
         heard' \in {heard, heard \cup {c}},
         UNCHANGED <<today, comps, rail, gone, refund, cancel, work, comped>>
  PROVE  BInv'
<1>0. c \in Charges /\ c \notin Subs /\ today \in Days /\ today <= today /\ Subs \subseteq Charges
  BY BillingAssumption, DaysAre DEF Charges, BInv, TypeOK
<1>1. ~Recorded(c) /\ ledger' = ledger \cup {<<c, "paid">>}
      /\ sub' = Rolled(sub, today) /\ usage' = WithGrant(Rolled(sub, today), 1)
  BY <1>0 DEF Accepts, Applied
<1>2. /\ ledger' \subseteq Charges \X {"paid", "refund"} /\ ChargesAgree'
      /\ \A d \in Charges : (Recorded(d)' <=> Recorded(d) \/ d = c) /\ (Refunded(d)' <=> Refunded(d))
      /\ ~Refunded(c) /\ IsFiniteSet({d \in Charges : Recorded(d)})'
  BY <1>0, <1>1, PaidRow
<1>3. Rolled(sub, today) \in SubRow /\ Rolled(sub, today).start \in Ends
  BY <1>0, RollsOn
<1>4. /\ usage' \in [Ends -> [used : Nat, granted : Nat]]
      /\ \A d \in Ends : usage'[d].used = usage[d].used /\ usage'[d].granted >= usage[d].granted
      /\ IsFiniteSet(Units') /\ Granted' = Granted + 1 /\ Granted \in Nat
  <2>1. TypeOK /\ IsFiniteSet(Units)
    BY DEF BInv, Counted
  <2>2. QED
    BY <1>1, <1>3, <2>1, UnitGranted
<1>5. TypeOK'
  BY <1>0, <1>1, <1>2, <1>3, <1>4 DEF BInv, TypeOK
<1>6. Timely' /\ Given' /\ SubPaid'
  <2>1. /\ comps' = comps
        /\ \A d \in Subs : (Recorded(d)' <=> Recorded(d)) /\ (Refunded(d)' <=> Refunded(d))
        /\ \A w \in Workers : work'[w] \in {None, work[w]}
    BY <1>0, <1>2
  <2>2. QED
    BY <1>0, <1>1, <2>1, RollSound
<1>7. Counted'
  <2>1. BoughtTopups' = BoughtTopups \cup {c} /\ c \notin BoughtTopups
    BY <1>0, <1>1, <1>2, DaysAre DEF BoughtTopups
  <2>2. {d \in BoughtTopups : Refunded(d)}' = {d \in BoughtTopups : Refunded(d)}
    BY <1>0, <1>2, <2>1, DaysAre DEF BoughtTopups
  <2>3. /\ IsFiniteSet(BoughtTopups) /\ Cardinality(BoughtTopups) \in Nat
        /\ Cardinality({d \in BoughtTopups : Refunded(d)}) \in Nat
    BY ChargesCounted DEF BInv, Counted
  <2>4. Cardinality(BoughtTopups') = Cardinality(BoughtTopups) + 1
    BY <2>1, <2>3, FS_AddElement
  <2>5. comps \in Nat /\ comps' = comps
    BY BillingAssumption DEF BInv, TypeOK
  <2> DEFINE b == Cardinality(BoughtTopups)
             r == Cardinality({d \in BoughtTopups : Refunded(d)})
  <2>6. GrantsAddUp'
    <3>1. Granted <= b + comps /\ (comps = 0 => Granted >= b - r)
      BY DEF BInv, Counted, GrantsAddUp
    <3>2. Cardinality({d \in BoughtTopups : Refunded(d)}') = r /\ Cardinality(BoughtTopups') = b + 1
      BY <2>2, <2>4
    <3>3. b \in Nat /\ r \in Nat
      BY <2>3
    <3> HIDE DEF b, r
    <3>4. /\ Granted' <= Cardinality(BoughtTopups') + comps'
          /\ comps' = 0 => Granted' >= Cardinality(BoughtTopups')
                                        - Cardinality({d \in BoughtTopups : Refunded(d)}')
      BY <1>4, <2>5, <3>1, <3>2, <3>3
    <3>5. QED
      BY <3>4 DEF GrantsAddUp
  <2>7. QED
    BY <1>2, <1>4, <2>6 DEF Counted
<1>8. Metered'
  <2>1. {d \in Subs : Recorded(d)}' = {d \in Subs : Recorded(d)}
    BY <1>0, <1>2
  <2>2. QED
    BY <1>1, <1>2, <1>4, <2>1, RolledMetered
<1>9. QED
  BY <1>2, <1>5, <1>6, <1>7, <1>8 DEF BInv

LEMMA PaymentSound ==
  ASSUME BInv, NEW c \in Charges, SuccessfulPayment(c) PROVE BInv'
<1>1. /\ rail[c].state = "taken" /\ heard' \in {heard, heard \cup {c}}
      /\ UNCHANGED <<today, comps, rail, gone, refund, cancel, work, comped>>
      /\ (Accepts(c) /\ Applied(c)) \/ UNCHANGED <<ledger, sub, usage>>
  BY DEF SuccessfulPayment
<1>2. CASE Accepts(c) /\ Applied(c) /\ c \in Subs
  BY <1>1, <1>2, SubscriptionApplied
<1>3. CASE Accepts(c) /\ Applied(c) /\ c \notin Subs
  <2>1. c \in Topups
    BY <1>3 DEF Charges
  <2>2. QED
    BY <1>1, <1>3, <2>1, TopupApplied
<1>4. CASE UNCHANGED <<ledger, sub, usage>>
  <2>1. /\ UNCHANGED <<today, sub, usage, ledger, comps, rail, work, comped>>
        /\ heard' \subseteq Charges /\ gone' \subseteq Charges /\ cancel' \in {Idle} \cup Asking
        /\ refund' \in [Operators -> {Idle} \cup Asking] /\ refund' = refund
    BY <1>1, <1>4 DEF BInv, TypeOK
  <2>2. QED
    BY <2>1, AskingSound
<1>5. QED
  BY <1>1, <1>2, <1>3, <1>4

-----------------------------------------------------------------------------
(* The operator and the owner.                                              *)

LEMMA CompsGrow ==
  ASSUME BInv, comps < MaxComps, comps' = comps + 1
  PROVE  comps' \in 0..MaxComps /\ comps' # 0 /\ comps \in Nat /\ comps' \in Nat
<1>1. comps \in Nat /\ comps \in 0..MaxComps /\ MaxComps \in Nat
  BY BillingAssumption DEF BInv, TypeOK
<1>2. QED
  BY <1>1

LEMMA GrantSound == ASSUME BInv, Grant PROVE BInv'
<1>1. /\ comps < MaxComps /\ comps' = comps + 1
      /\ sub' = Rolled(sub, today) /\ usage' = WithGrant(Rolled(sub, today), 1)
      /\ UNCHANGED <<today, ledger, rail, heard, gone, refund, cancel, work, comped>>
  BY DEF Grant
<1>2. comps' \in 0..MaxComps /\ comps' # 0 /\ comps \in Nat /\ comps' \in Nat
  BY <1>1, CompsGrow
<1>3. today \in Days /\ today <= today
  BY DaysAre DEF BInv, TypeOK
<1>4. Rolled(sub, today) \in SubRow /\ Rolled(sub, today).start \in Ends
  BY <1>3, RollsOn
<1>5. /\ usage' \in [Ends -> [used : Nat, granted : Nat]]
      /\ \A d \in Ends : usage'[d].used = usage[d].used /\ usage'[d].granted >= usage[d].granted
      /\ IsFiniteSet(Units') /\ Granted' = Granted + 1 /\ Granted \in Nat
  <2>1. TypeOK /\ IsFiniteSet(Units)
    BY DEF BInv, Counted
  <2>2. QED
    BY <1>1, <1>4, <2>1, UnitGranted
<1>6. TypeOK'
  BY <1>1, <1>2, <1>4, <1>5 DEF BInv, TypeOK
<1>7. ChargesAgree'
  BY <1>1 DEF BInv, ChargesAgree, Recorded, Refunded
<1>8. Timely' /\ Given' /\ SubPaid'
  <2>1. /\ \A d \in Subs : (Recorded(d)' <=> Recorded(d)) /\ (Refunded(d)' <=> Refunded(d))
        /\ \A w \in Workers : work'[w] \in {None, work[w]}
    BY <1>1 DEF Recorded, Refunded
  <2>2. QED
    BY <1>1, <1>3, <2>1, RollSound
<1>9. Counted'
  <2>1. /\ BoughtTopups' = BoughtTopups
        /\ {c \in Charges : Recorded(c)}' = {c \in Charges : Recorded(c)}
    BY <1>1 DEF BoughtTopups, Recorded
  <2>2. Cardinality(BoughtTopups) \in Nat
    BY ChargesCounted DEF BInv, Counted
  <2>3. Granted <= Cardinality(BoughtTopups) + comps
    BY DEF BInv, Counted, GrantsAddUp
  <2>4. Granted' <= Cardinality(BoughtTopups') + comps'
    BY <1>1, <1>2, <1>5, <2>1, <2>2, <2>3
  <2>5. GrantsAddUp'
    BY <1>2, <2>4 DEF GrantsAddUp
  <2>6. QED
    BY <1>5, <2>1, <2>5 DEF BInv, Counted
<1>10. Metered'
  BY <1>1, <1>2, <1>5, RolledMetered
<1>11. QED
  BY <1>6, <1>7, <1>8, <1>9, <1>10 DEF BInv

LEMMA SetTierSound ==
  ASSUME BInv, NEW tier \in {"free", "family", "unlimited"}, NEW periods \in 1..2,
         SetTier(tier, periods)
  PROVE  BInv'
<1> DEFINE end == today + periods * Period
<1>1. /\ comps < MaxComps /\ comps' = comps + 1
      /\ sub' = [tier |-> tier, status |-> "active", charge |-> None,
                 cancelling |-> FALSE, start |-> today, end |-> end]
      /\ comped' = IF tier = "family" THEN end ELSE 0
      /\ UNCHANGED <<today, usage, ledger, rail, heard, gone, refund, cancel, work>>
  BY DEF SetTier
<1>2. comps' \in 0..MaxComps /\ comps' # 0 /\ comps \in Nat /\ comps' \in Nat
  BY <1>1, CompsGrow
<1>3. today \in Nat /\ today \in Ends /\ end \in Ends /\ end \in Nat /\ today < end /\ 0 \in Ends
      /\ Ends \subseteq Nat
  <2>1. periods = 1 \/ periods = 2
    OBVIOUS
  <2>2. Period \in Nat \ {0} /\ (end = today + Period \/ end = today + 2 * Period)
    BY <2>1, DaysAre
  <2> HIDE DEF end
  <2>3. end \in Ends /\ today \in Ends /\ today \in Nat /\ Ends \subseteq Nat
    BY <2>2, DaysAre
  <2>4. today < end
    BY <2>2, <2>3
  <2>5. 0 \in Ends
    BY BillingAssumption DEF Ends
  <2>6. QED
    BY <2>3, <2>4, <2>5
<1> HIDE DEF end
<1>4. /\ sub' \in SubRow /\ sub'.start = today /\ sub'.end = end /\ sub'.tier = tier
      /\ sub'.status = "active"
  BY <1>1, <1>3 DEF SubRow
<1>5. TypeOK'
  BY <1>1, <1>2, <1>3, <1>4 DEF BInv, TypeOK
<1>6. ChargesAgree'
  BY <1>1 DEF BInv, ChargesAgree, Recorded, Refunded
<1>7. Timely' /\ Given'
  BY <1>1, <1>2, <1>3, <1>4 DEF BInv, Timely, Given
<1>8. SubPaid'
  <2>1. EffectiveTier(sub') = "family" => comped' >= sub'.end
    BY <1>1, <1>3, <1>4 DEF EffectiveTier
  <2>2. QED
    BY <2>1 DEF SubPaid, EffectiveTier
<1>9. Counted'
  <2>1. /\ BoughtTopups' = BoughtTopups /\ Units' = Units
        /\ {c \in Charges : Recorded(c)}' = {c \in Charges : Recorded(c)}
    BY <1>1 DEF BoughtTopups, Recorded, Units
  <2>2. Cardinality(BoughtTopups) \in Nat /\ Granted \in Nat
    BY ChargesCounted, FS_CardinalityType DEF BInv, Counted, Granted
  <2>3. Granted <= Cardinality(BoughtTopups) + comps
    BY DEF BInv, Counted, GrantsAddUp
  <2>4. Granted' <= Cardinality(BoughtTopups') + comps'
    BY <1>1, <1>2, <2>1, <2>2, <2>3 DEF Granted
  <2>5. GrantsAddUp'
    BY <1>2, <2>4 DEF GrantsAddUp
  <2>6. QED
    BY <2>1, <2>5 DEF BInv, Counted
<1>10. Metered'
  <2>1. ASSUME NEW d \in Ends, d >= sub'.end PROVE usage'[d].used = 0
    <3>1. ~(d <= today) /\ usage[d].used \in Nat
      BY <1>3, <1>4, <2>1 DEF BInv, TypeOK
    <3>2. QED
      BY <1>1, <3>1 DEF BInv, Metered
  <2>2. \A d \in Ends : usage'[d].used > 0 => d <= today'
    BY <1>1 DEF BInv, Metered
  <2>3. QED
    BY <1>2, <2>1, <2>2 DEF Metered
<1>11. QED
  BY <1>5, <1>6, <1>7, <1>8, <1>9, <1>10 DEF BInv

LEMMA CancelLandsSound == ASSUME BInv, CancelLands PROVE BInv'
<1>1. /\ sub' = [sub EXCEPT !.cancelling = TRUE] /\ cancel' = Idle
      /\ UNCHANGED <<today, usage, ledger, comps, rail, heard, gone, refund, work, comped>>
  BY DEF CancelLands
<1>2. sub \in SubRow
  BY DEF BInv, TypeOK
<1>3. /\ sub' \in SubRow /\ sub'.tier = sub.tier /\ sub'.status = sub.status
      /\ sub'.start = sub.start /\ sub'.end = sub.end
  BY <1>1, <1>2 DEF SubRow
<1>4. TypeOK'
  BY <1>1, <1>3 DEF BInv, TypeOK
<1>5. ChargesAgree' /\ Timely' /\ Given' /\ SubPaid'
  BY <1>1, <1>3 DEF BInv, ChargesAgree, Timely, Given, SubPaid, EffectiveTier, Recorded, Refunded
<1>6. Counted'
  BY <1>1 DEF BInv, Counted, Units, Granted, GrantsAddUp, BoughtTopups, Recorded, Refunded
<1>7. Metered'
  <2>1. Running' = Running
    BY <1>1, <1>3 DEF Running
  <2>2. \A d \in Ends : Most(d)' = Most(d)
    BY <1>1 DEF Most, Recorded
  <2>3. Most(sub.start)' = Most(sub.start)
    BY <1>1, <1>3 DEF Most, Recorded
  <2>4. QED
    BY <1>1, <1>3, <2>1, <2>2, <2>3 DEF BInv, Metered, Refunded
<1>8. QED
  BY <1>4, <1>5, <1>6, <1>7 DEF BInv

\* A refund is recorded once: who else is waiting for the rail waits for another charge.
LEMMA RefundRow ==
  ASSUME BInv, NEW o \in Operators, refund[o].at = "accepted", NEW c, c = refund[o].charge,
         ledger' = ledger \cup {<<c, "refund">>}, refund' = [refund EXCEPT ![o] = Idle],
         UNCHANGED <<today, rail>>
  PROVE  /\ c \in Charges /\ Recorded(c) /\ ~Refunded(c)
         /\ ledger' \subseteq Charges \X {"paid", "refund"}
         /\ refund' \in [Operators -> {Idle} \cup Asking] /\ ChargesAgree'
         /\ \A d \in Charges : (Refunded(d)' <=> Refunded(d) \/ d = c) /\ (Recorded(d)' <=> Recorded(d))
<1>1. /\ refund \in [Operators -> {Idle} \cup Asking] /\ Idle.at = "idle"
      /\ c \in Charges /\ \A p \in Operators : refund[p].at # "idle" => refund[p].charge \in Charges
  BY DEF BInv, TypeOK, Idle, Asking
<1>2. Recorded(c) /\ ~Refunded(c) /\ rail[c].refunded
  BY DEF BInv, ChargesAgree
<1>3. \A d \in Charges : (Refunded(d)' <=> Refunded(d) \/ d = c) /\ (Recorded(d)' <=> Recorded(d))
  BY DEF Recorded, Refunded
<1>4. ledger' \subseteq Charges \X {"paid", "refund"}
  BY <1>1 DEF BInv, TypeOK
<1>5. /\ refund' \in [Operators -> {Idle} \cup Asking] /\ refund'[o].at = "idle"
      /\ \A p \in Operators \ {o} : refund'[p] = refund[p]
  BY <1>1
<1>6. ChargesAgree'
  <2>1. \A d \in Charges :
          /\ rail'[d].state = "taken" => Period <= rail'[d].until /\ rail'[d].until <= today' + Period
          /\ Recorded(d)' => rail'[d].state = "taken"
          /\ Refunded(d)' => Recorded(d)' /\ rail'[d].refunded
    BY <1>2, <1>3 DEF BInv, ChargesAgree
  <2>2. ASSUME NEW p \in Operators, refund'[p].at # "idle" PROVE Recorded(refund[p].charge)'
    BY <1>5, <2>2 DEF BInv, ChargesAgree, Recorded
  <2>3. ASSUME NEW p \in Operators, refund'[p].at = "accepted"
        PROVE  /\ rail'[refund'[p].charge].refunded /\ ~Refunded(refund[p].charge)'
               /\ \A q \in Operators : refund'[q].at = "accepted"
                                         /\ refund'[q].charge = refund'[p].charge => q = p
    <3>1. p # o /\ refund'[p] = refund[p]
      BY <1>5, <2>3
    <3>2. refund[p].charge # c
      BY <2>3, <3>1 DEF BInv, ChargesAgree
    <3>3. /\ rail[refund[p].charge].refunded /\ ~Refunded(refund[p].charge)
          /\ \A q \in Operators : refund[q].at = "accepted" /\ refund[q].charge = refund[p].charge => q = p
      BY <2>3, <3>1 DEF BInv, ChargesAgree
    <3>4. ~Refunded(refund[p].charge)'
      BY <3>1, <3>2, <3>3 DEF Refunded
    <3>5. \A q \in Operators : refund'[q].at = "accepted" => refund'[q] = refund[q]
      BY <1>5
    <3>6. QED
      BY <3>1, <3>3, <3>4, <3>5
  <2>4. QED
    BY <2>1, <2>2, <2>3 DEF ChargesAgree
<1>7. QED
  BY <1>1, <1>2, <1>3, <1>4, <1>5, <1>6

LEMMA RefundLandsSound ==
  ASSUME BInv, NEW o \in Operators, RefundLands(o) PROVE BInv'
<1> DEFINE c == refund[o].charge
<1>1. /\ refund[o].at = "accepted" /\ ledger' = ledger \cup {<<c, "refund">>}
      /\ refund' = [refund EXCEPT ![o] = Idle]
      /\ UNCHANGED <<today, comps, rail, heard, gone, cancel, work, comped>>
      /\ c \in Subs => sub' = [sub EXCEPT !.status = "cancelled"] /\ usage' = usage
      /\ c \notin Subs => sub' = Rolled(sub, today) /\ usage' = WithGrant(Rolled(sub, today), -1)
  BY DEF RefundLands
<1> HIDE DEF c
<1>2. /\ c \in Charges /\ Recorded(c) /\ ~Refunded(c)
      /\ ledger' \subseteq Charges \X {"paid", "refund"}
      /\ refund' \in [Operators -> {Idle} \cup Asking] /\ ChargesAgree'
      /\ \A d \in Charges : (Refunded(d)' <=> Refunded(d) \/ d = c) /\ (Recorded(d)' <=> Recorded(d))
  BY <1>1, RefundRow DEF c
<1>3. /\ today \in Days /\ today <= today /\ sub \in SubRow /\ Subs \subseteq Charges
      /\ Topups \subseteq Charges /\ TypeOK /\ IsFiniteSet(Units)
  BY DaysAre DEF BInv, TypeOK, Counted
<1>4. /\ BoughtTopups' = BoughtTopups
      /\ {d \in Charges : Recorded(d)}' = {d \in Charges : Recorded(d)}
      /\ Cardinality(BoughtTopups) \in Nat /\ IsFiniteSet({d \in BoughtTopups : Refunded(d)})
      /\ Cardinality({d \in BoughtTopups : Refunded(d)}) \in Nat
  BY <1>2, <1>3, ChargesCounted DEF BInv, Counted, BoughtTopups
<1>5. ~(\A d \in Charges : ~Refunded(d)')
  BY <1>2
<1>6. CASE c \in Subs
  <2>1. sub' = [sub EXCEPT !.status = "cancelled"] /\ usage' = usage
    BY <1>1, <1>6
  <2>2. /\ sub' \in SubRow /\ sub'.tier = sub.tier /\ sub'.status = "cancelled"
        /\ sub'.start = sub.start /\ sub'.end = sub.end
    BY <1>3, <2>1 DEF SubRow
  <2>3. TypeOK'
    BY <1>1, <1>2, <2>1, <2>2 DEF BInv, TypeOK
  <2>4. Timely' /\ Given' /\ SubPaid'
    BY <1>1, <2>2 DEF BInv, Timely, Given, SubPaid, EffectiveTier
  <2>5. Counted'
    <3>1. Units' = Units
      BY <2>1 DEF Units
    <3>2. c \notin Topups
      BY <1>6, BillingAssumption
    <3>3. {d \in BoughtTopups : Refunded(d)}' = {d \in BoughtTopups : Refunded(d)}
      BY <1>2, <1>3, <1>4, <3>2 DEF BoughtTopups
    <3>4. GrantsAddUp'
      BY <1>1, <1>4, <3>1, <3>3 DEF BInv, Counted, GrantsAddUp, Granted
    <3>5. QED
      BY <1>4, <3>1, <3>4 DEF BInv, Counted
  <2>6. Metered'
    BY <1>1, <1>5, <2>1, <2>2 DEF BInv, Metered
  <2>7. QED
    BY <1>2, <2>3, <2>4, <2>5, <2>6 DEF BInv
<1>7. CASE c \notin Subs
  <2>1. sub' = Rolled(sub, today) /\ usage' = WithGrant(Rolled(sub, today), -1)
    BY <1>1, <1>7
  <2>2. Rolled(sub, today) \in SubRow /\ Rolled(sub, today).start \in Ends
    BY <1>3, RollsOn
  <2>3. /\ usage' \in [Ends -> [used : Nat, granted : Nat]]
        /\ \A d \in Ends : usage'[d].used = usage[d].used
        /\ IsFiniteSet(Units') /\ Granted' \in Nat /\ Granted \in Nat
        /\ Granted' <= Granted /\ Granted <= Granted' + 1
    BY <1>3, <2>1, <2>2, UnitRevoked
  <2>4. TypeOK'
    BY <1>1, <1>2, <2>1, <2>2, <2>3 DEF BInv, TypeOK
  <2>5. Timely' /\ Given' /\ SubPaid'
    <3>1. /\ comps' = comps
          /\ \A d \in Subs : (Recorded(d)' <=> Recorded(d)) /\ (Refunded(d)' <=> Refunded(d))
          /\ \A w \in Workers : work'[w] \in {None, work[w]}
      BY <1>1, <1>2, <1>3, <1>7
    <3>2. QED
      BY <1>1, <1>3, <2>1, <3>1, RollSound
  <2>6. Counted'
    <3> DEFINE b == Cardinality(BoughtTopups)
               r == Cardinality({d \in BoughtTopups : Refunded(d)})
    <3>1. c \in BoughtTopups
      BY <1>2, <1>7 DEF BoughtTopups, Charges
    <3>2. {d \in BoughtTopups : Refunded(d)}' = {d \in BoughtTopups : Refunded(d)} \cup {c}
      BY <1>2, <1>3, <1>4, <3>1 DEF BoughtTopups
    <3>3. c \notin {d \in BoughtTopups : Refunded(d)}
      BY <1>2
    <3>4. Cardinality({d \in BoughtTopups : Refunded(d)} \cup {c}) = r + 1
      BY <1>4, <3>3, FS_AddElement
    <3>5. Cardinality({d \in BoughtTopups : Refunded(d)}') = r + 1 /\ Cardinality(BoughtTopups') = b
      BY <1>4, <3>2, <3>4
    <3>6. Granted <= b + comps /\ (comps = 0 => Granted >= b - r)
      BY DEF BInv, Counted, GrantsAddUp
    <3>7. b \in Nat /\ r \in Nat /\ comps \in Nat /\ comps' = comps
      BY <1>1, <1>4, BillingAssumption DEF BInv, TypeOK
    <3> HIDE DEF b, r
    <3>8. /\ Granted' <= Cardinality(BoughtTopups') + comps'
          /\ comps' = 0 => Granted' >= Cardinality(BoughtTopups')
                                        - Cardinality({d \in BoughtTopups : Refunded(d)}')
      <4> DEFINE b2 == Cardinality(BoughtTopups')
                 r2 == Cardinality({d \in BoughtTopups : Refunded(d)}')
      <4>1. b2 = b /\ r2 = r + 1
        BY <3>5
      <4> HIDE DEF b2, r2
      <4> DEFINE g == Granted
                 g2 == Granted'
      <4>2. g2 \in Nat /\ g \in Nat /\ g2 <= g /\ g <= g2 + 1
        BY <2>3
      <4>0. g <= b + comps /\ (comps = 0 => g >= b - r)
        BY <3>6
      <4> HIDE DEF g, g2
      <4>3. b2 \in Nat /\ r2 \in Nat /\ comps \in Nat /\ comps' \in Nat
        BY <3>7, <4>1
      <4>4. g2 <= b2 + comps' /\ (comps' = 0 => g2 >= b2 - r2)
        BY <3>7, <4>0, <4>1, <4>2, <4>3
      <4>5. QED
        BY <4>4 DEF b2, r2, g2
    <3>9. GrantsAddUp'
      BY <3>8 DEF GrantsAddUp
    <3>10. QED
      BY <1>4, <2>3, <3>9 DEF BInv, Counted
  <2>7. Metered'
    BY <1>1, <1>5, <2>1, <2>3, RolledMetered
  <2>8. QED
    BY <1>2, <2>4, <2>5, <2>6, <2>7 DEF BInv
<1>8. QED
  BY <1>6, <1>7

-----------------------------------------------------------------------------
(* The invariant, and what follows from it.                                 *)

LEMMA InitSound == ASSUME Init PROVE BInv
<1>1. /\ today = 0 /\ ledger = {} /\ comps = 0 /\ heard = {} /\ gone = {} /\ cancel = Idle /\ comped = 0
      /\ sub = [tier |-> "free", status |-> "active", charge |-> None,
                cancelling |-> FALSE, start |-> 0, end |-> Period]
      /\ usage = [d \in Ends |-> [used |-> 0, granted |-> 0]]
      /\ rail = [c \in Charges |-> [state |-> "unpaid", until |-> 0, of |-> c,
                                    renewing |-> FALSE, refunded |-> FALSE]]
      /\ refund = [o \in Operators |-> Idle] /\ work = [w \in Workers |-> None]
  BY DEF Init
<1>2. 0 \in Ends /\ Period \in Ends /\ 0 \in Days /\ 0 < Period /\ Ends \subseteq Nat /\ 0 \in 0..MaxComps
      /\ Period \in Nat
  BY BillingAssumption DEF Ends, Days
<1>3. TypeOK
  BY <1>1, <1>2 DEF TypeOK, SubRow, RailRow
<1>4. \A c : ~Recorded(c) /\ ~Refunded(c)
  BY <1>1 DEF Recorded, Refunded
<1>5. ChargesAgree
  BY <1>1, <1>4 DEF ChargesAgree, Idle
<1>6. Timely /\ Given /\ SubPaid
  BY <1>1, <1>2 DEF Timely, Given, SubPaid, EffectiveTier
<1>7. Counted
  <2>1. /\ {c \in Charges : Recorded(c)} = {} /\ BoughtTopups = {} /\ {c \in BoughtTopups : Refunded(c)} = {}
    BY <1>4 DEF BoughtTopups
  <2>2. \A d \in Ends : usage[d].granted = 0
    BY <1>1
  <2>3. 1..0 = {}
    OBVIOUS
  <2>4. Units = {}
    BY <2>2, <2>3 DEF Units
  <2>5. IsFiniteSet({}) /\ Cardinality({}) = 0
    BY FS_EmptySet
  <2>6. GrantsAddUp
    BY <1>1, <2>1, <2>4, <2>5 DEF GrantsAddUp, Granted
  <2>7. QED
    BY <2>1, <2>4, <2>5, <2>6 DEF Counted
<1>8. Metered
  <2>1. \A d \in Ends : usage[d].used = 0 /\ usage[d].granted = 0
    BY <1>1
  <2>2. {c \in Subs : Recorded(c)} = {} /\ Cardinality({}) = 0
    BY <1>4, FS_EmptySet
  <2>3. Cardinality(Workers) \in Nat /\ FamilyLimit \in Nat \ {0}
    BY RunningCounted, BillingAssumption
  <2>4. Running = {}
    BY <1>1 DEF Running
  <2>5. \A d \in Ends : Most(d) = FamilyLimit + 0 - 1 + Cardinality(Workers) * (1 + 0)
    BY <2>1, <2>2 DEF Most
  <2>6. \A d \in Ends : 0 <= Most(d) /\ Most(d) \in Int
    BY <2>3, <2>5
  <2>7. sub.start = 0
    BY <1>1
  <2>8. usage[sub.start].used + Cardinality(Running) <= Most(sub.start)
    BY <1>2, <2>1, <2>2, <2>4, <2>6, <2>7
  <2>9. \A d \in Ends : usage[d].used <= Most(d)
    BY <2>1, <2>6
  <2>10. /\ \A d \in Ends : usage[d].used > 0 => d <= today
         /\ \A d \in Ends : d >= sub.end => usage[d].used = 0
    BY <2>1
  <2>11. QED
    BY <2>8, <2>9, <2>10 DEF Metered
<1>9. QED
  BY <1>3, <1>5, <1>6, <1>7, <1>8 DEF BInv

LEMMA BillingStepSound == ASSUME BInv, [Next]_vars PROVE BInv'
<1>1. ASSUME NEW c \in Charges,
             PreCheckout(c) \/ Pay(c) \/ Lapse(c) \/ PayerLeaves(c) \/ SuccessfulPayment(c)
      PROVE  BInv'
  BY <1>1, CheckoutSound, LapseSound, AskersSound, PaymentSound
<1>2. ASSUME NEW first \in Subs, NEW c \in Subs, Renew(first, c) PROVE BInv'
  BY <1>2, RenewSound
<1>3. ASSUME NEW tier \in {"free", "family", "unlimited"}, NEW periods \in 1..2, SetTier(tier, periods)
      PROVE  BInv'
  BY <1>3, SetTierSound
<1>4. ASSUME NEW o \in Operators,
             RailRefunds(o) \/ RefundLands(o) \/ \E c \in Charges : RefundAsk(o, c)
      PROVE  BInv'
  BY <1>4, RailRefundsSound, RefundLandsSound, AskersSound
<1>5. ASSUME NEW w \in Workers, Admit(w) \/ Charge(w) PROVE BInv'
  BY <1>5, AdmitSound, ChargeSound
<1>6. CASE Grant \/ CancelAsk \/ RailCancels \/ CancelLands \/ Tomorrow \/ Forget
  BY <1>6, GrantSound, AskersSound, CancelLandsSound, TomorrowSound, ForgetSound
<1>7. CASE UNCHANGED vars
  <2>1. UNCHANGED <<today, sub, usage, ledger, comps, rail, heard, gone, refund, cancel, work, comped>>
    BY <1>7 DEF vars
  <2>2. /\ heard' \subseteq Charges /\ gone' \subseteq Charges /\ cancel' \in {Idle} \cup Asking
        /\ refund' \in [Operators -> {Idle} \cup Asking]
    BY <2>1 DEF BInv, TypeOK
  <2>3. QED
    BY <2>1, <2>2, AskingSound
<1>8. QED
  BY <1>1, <1>2, <1>3, <1>4, <1>5, <1>6, <1>7 DEF Next

LEMMA BillingInductive == Spec => []BInv
<1>1. Init => BInv
  BY InitSound
<1>2. BInv /\ [Next]_vars => BInv'
  BY BillingStepSound
<1>3. QED
  BY <1>1, <1>2, PTL DEF Spec

\* The rows have their types, whatever is paid, refunded and charged.
THEOREM BillingTypeCorrect == Spec => []TypeOK
<1>1. BInv => TypeOK
  BY DEF BInv
<1>2. QED
  BY <1>1, BillingInductive, PTL

\* A request is served as Family only while a charge that was not refunded has
\* time left, or the operator gave it (roll_period_if_due, apply_refund).
THEOREM FamilyPaid == Spec => []FamilyIsPaidFor
<1>1. ASSUME BInv PROVE FamilyIsPaidFor
  <2>1. SUFFICES ASSUME EffectiveTier(Rolled(sub, today)) = "family"
                 PROVE  \/ \E c \in Subs : Recorded(c) /\ ~Refunded(c) /\ rail[c].until > today
                        \/ comped > today
    BY DEF FamilyIsPaidFor
  <2>2. sub \in SubRow /\ today \in Days /\ today \in Nat /\ sub.end \in Nat /\ comped \in Nat
    BY <1>1, DaysAre DEF BInv, TypeOK, SubRow
  <2>3. today < sub.end /\ Rolled(sub, today) = sub
    BY <2>1, <2>2, RolledIs
  <2>4. \/ \E c \in Subs : Recorded(c) /\ ~Refunded(c) /\ rail[c].until >= sub.end
        \/ comped >= sub.end
    BY <1>1, <2>1, <2>3 DEF BInv, SubPaid
  <2>5. \A c \in Subs : rail[c].until \in Nat
    BY <1>1, DaysAre
  <2>6. QED
    BY <2>2, <2>3, <2>4, <2>5
<1>2. QED
  BY <1>1, BillingInductive, PTL

\* A top-up on the ledger is granted once, and a refund takes at most one grant
\* back (successful payments and refunds as transactions).
THEOREM GrantsCounted == Spec => []GrantsAddUp
<1>1. BInv => GrantsAddUp
  BY DEF BInv, Counted
<1>2. QED
  BY <1>1, BillingInductive, PTL

\* Only work that was running when the limit was reached exceeds it (meter.admit
\* and meter.commit, with any number of requests at once).
THEOREM OvershootBounded == Spec => []OvershootIsRunningWork
<1>1. BInv => OvershootIsRunningWork
  BY DEF BInv, Metered, Most, OvershootIsRunningWork
<1>2. QED
  BY <1>1, BillingInductive, PTL

-----------------------------------------------------------------------------
(* Benefits last to the end that is shown.                                  *)

\* What a step may do to a plan whose renewal is cancelled.
Kept == /\ EffectiveTier(sub') = "family" /\ today' < sub'.end
        /\ ledger' = ledger => sub'.end >= sub.end

LEMMA SameRowKept ==
  ASSUME BInv, EffectiveTier(sub) = "family", today' < sub.end, sub' = sub
  PROVE  Kept
<1>1. sub.end \in Nat
  BY DaysAre DEF BInv, TypeOK, SubRow
<1>2. QED
  BY <1>1 DEF Kept

LEMMA StepKeeps ==
  ASSUME BInv, [Next]_vars, EffectiveTier(sub) = "family", today' < sub.end, comps' = comps,
         ~\E c \in Subs : ~Refunded(c) /\ <<c, "refund">> \in ledger'
  PROVE  Kept
<1>0. /\ sub \in SubRow /\ today \in Days /\ today \in Nat /\ today <= today /\ sub.end \in Nat
      /\ comps \in Nat
  BY DaysAre, BillingAssumption DEF BInv, TypeOK, SubRow
<1>1. CASE sub' = sub
  BY <1>1, SameRowKept
<1>2. ASSUME NEW day \in Days, day <= today, today' = today, sub' = Rolled(sub, day)
      PROVE  Kept
  <2>1. day < sub.end
    BY <1>0, <1>2, DaysAre
  <2>2. sub' = sub
    BY <1>2, <2>1, RollsOn
  <2>3. QED
    BY <2>2, SameRowKept
<1>3. ASSUME NEW c \in Charges, SuccessfulPayment(c) PROVE Kept
  <2>1. rail[c].state = "taken" /\ today' = today
        /\ ((Accepts(c) /\ Applied(c)) \/ UNCHANGED <<ledger, sub, usage>>)
    BY <1>3 DEF SuccessfulPayment
  <2>2. CASE Accepts(c) /\ Applied(c) /\ c \in Subs
    <3>1. /\ ~Recorded(c) /\ rail[c].until > today /\ ledger' = ledger \cup {<<c, "paid">>}
          /\ sub' = Subscribed(sub, c)
      BY <2>2 DEF Accepts, Applied
    <3>2. sub'.tier = "family" /\ sub'.status = "active" /\ sub'.end = rail[c].until
      BY <1>0, <3>1 DEF Subscribed, SubRow
    <3>3. rail[c].until \in Nat
      BY DaysAre
    <3>4. today' < sub'.end
      BY <1>0, <2>1, <3>1, <3>2, <3>3
    <3>5. ledger' # ledger
      BY <3>1 DEF Recorded
    <3>6. QED
      BY <3>2, <3>4, <3>5 DEF Kept, EffectiveTier
  <2>3. CASE Accepts(c) /\ Applied(c) /\ c \notin Subs
    <3>1. sub' = Rolled(sub, today)
      BY <2>3 DEF Applied
    <3>2. QED
      BY <1>0, <1>2, <2>1, <3>1
  <2>4. CASE UNCHANGED <<ledger, sub, usage>>
    BY <1>1, <2>4
  <2>5. QED
    BY <2>1, <2>2, <2>3, <2>4
<1>4. ASSUME NEW o \in Operators, RefundLands(o) PROVE Kept
  <2> DEFINE c == refund[o].charge
  <2>1. /\ refund[o].at = "accepted" /\ ledger' = ledger \cup {<<c, "refund">>} /\ today' = today
        /\ c \notin Subs => sub' = Rolled(sub, today)
    BY <1>4 DEF RefundLands
  <2>2. ~Refunded(c)
    BY <2>1 DEF BInv, ChargesAgree
  <2>3. c \notin Subs
    BY <2>1, <2>2
  <2>4. QED
    BY <1>0, <1>2, <2>1, <2>3
<1>5. CASE CancelLands
  <2>1. sub' = [sub EXCEPT !.cancelling = TRUE]
    BY <1>5 DEF CancelLands
  <2>2. sub'.tier = sub.tier /\ sub'.status = sub.status /\ sub'.end = sub.end
    BY <1>0, <2>1 DEF SubRow
  <2>3. QED
    BY <1>0, <2>2 DEF Kept, EffectiveTier
<1>6. ASSUME NEW w \in Workers, Charge(w) PROVE Kept
  <2>1. work[w] # None /\ sub' = Rolled(sub, work[w]) /\ today' = today
    BY <1>6 DEF Charge
  <2>2. work[w] \in Days /\ work[w] <= today
    BY <2>1 DEF BInv, TypeOK, Timely
  <2>3. QED
    BY <1>2, <2>1, <2>2
<1>7. ~Grant /\ \A tier \in {"free", "family", "unlimited"}, periods \in 1..2 : ~SetTier(tier, periods)
  BY <1>0 DEF Grant, SetTier
<1>8. ASSUME NEW c \in Charges, PreCheckout(c) \/ Pay(c) \/ Lapse(c) \/ PayerLeaves(c)
             \/ \E first \in Subs : Renew(first, c)
      PROVE  Kept
  BY <1>1, <1>8 DEF PreCheckout, Pay, Lapse, PayerLeaves, Renew
<1>9. ASSUME NEW o \in Operators, RailRefunds(o) \/ \E c \in Charges : RefundAsk(o, c) PROVE Kept
  BY <1>1, <1>9 DEF RailRefunds, RefundAsk
<1>10. ASSUME NEW w \in Workers, Admit(w) PROVE Kept
  BY <1>1, <1>10 DEF Admit
<1>11. CASE CancelAsk \/ RailCancels \/ Tomorrow \/ Forget \/ UNCHANGED vars
  BY <1>1, <1>11 DEF CancelAsk, RailCancels, Tomorrow, Forget, vars
<1>12. ASSUME NEW first \in Subs, NEW c \in Subs, Renew(first, c) PROVE Kept
  BY <1>8, <1>12, DaysAre
<1>13. QED
  BY <1>3, <1>4, <1>5, <1>6, <1>7, <1>8, <1>9, <1>10, <1>11, <1>12 DEF Next

\* A cancelled renewal takes nothing before the displayed period end: only a
\* refund or the operator ends the benefits earlier (cancel_subscription,
\* apply_subscription, roll_period_if_due, commit).
THEOREM BenefitsLast == Spec => CancelledKeepsBenefits
<1>1. ASSUME BInv, [Next]_vars,
             /\ EffectiveTier(sub) = "family" /\ (sub.cancelling \/ cancel.at = "accepted")
             /\ today' < sub.end /\ comps' = comps
             /\ ~\E c \in Subs : ~Refunded(c) /\ <<c, "refund">> \in ledger'
      PROVE  /\ EffectiveTier(sub') = "family" /\ today' < sub'.end
             /\ ledger' = ledger => sub'.end >= sub.end
  BY <1>1, StepKeeps DEF Kept
<1>2. QED
  BY <1>1, BillingInductive, PTL DEF Spec, CancelledKeepsBenefits
=============================================================================
