------------------------------- MODULE Billing --------------------------------
(***************************************************************************)
(* One household's plan and quota.  Payments are made at Telegram, the     *)
(* rail, which tells the program of them in updates that may come twice,   *)
(* late or never again; the operator refunds them through the rail and     *)
(* gives quota and tiers of his own; the owner cancels the renewal; and    *)
(* metered work is admitted before it runs and charged after it has run.   *)
(*                                                                         *)
(* A step is what runs between two awaits.  The row of a household exists  *)
(* from the start (provision_solo_household).  Time is counted in days of  *)
(* which Period make one quota period; a unit of quota is one operation.   *)
(* Receipts and actions are metered alike and only one of them is kept;    *)
(* the cost breaker, seats and wording are left out.                       *)
(***************************************************************************)
EXTENDS Integers, FiniteSets

CONSTANTS Topups, Subs, \* payments, by the charge id the rail gives each
          Operators,    \* refund commands that can run at once
          Workers,      \* metered requests that can run at once
          Period,       \* days of a quota period
          LastDay,      \* bound: the last day of a run
          FreeLimit, FamilyLimit,
          MaxOpen,      \* bound: invoices open at once
          MaxComps,     \* bound: grants and tier changes of the operator
          None

ASSUME BillingAssumption ==
  /\ Period \in Nat \ {0} /\ LastDay \in Nat
  /\ FreeLimit \in Nat \ {0} /\ FamilyLimit \in Nat /\ FreeLimit <= FamilyLimit
  /\ MaxOpen \in Nat /\ MaxComps \in Nat /\ IsFiniteSet(Workers)
  /\ Topups \cap Subs = {} /\ None \notin Topups \cup Subs

Charges == Topups \cup Subs
Days    == 0..LastDay
\* Ends of periods: a tier given by the operator may last two periods.
Ends    == 0..(LastDay + 2 * Period)

VARIABLES today,
          sub,      \* the subscription row
          usage,    \* [Days -> quota row], by the first day of its period
          ledger,   \* SUBSET (Charges \X {"paid", "refund"}), table paymentevent
          comps,    \* operator rows of the ledger
          rail,     \* [Charges -> what Telegram knows of the payment]
          heard,    \* SUBSET Charges, updates that will not come again
          gone,     \* SUBSET Charges whose payer has left or is banned
          refund,   \* [Operators -> a refund command]
          cancel,   \* the owner's request to cancel the renewal
          work,     \* [Workers -> the day a request was admitted, or None]
          comped    \* the day until which the operator gave Family, for properties

vars == <<today, sub, usage, ledger, comps, rail, heard, gone, refund, cancel,
          work, comped>>

SubRow == [tier : {"free", "family", "unlimited"},
           status : {"active", "expired", "cancelled"},
           charge : Subs \cup {None}, cancelling : BOOLEAN, start : Ends, end : Ends]

\* of: the first charge of the subscription a charge belongs to; renewing: the
\* subscription that begins with this charge will be charged again.
RailRow == [state : {"unpaid", "open", "taken"}, until : Ends, of : Charges,
            renewing : BOOLEAN, refunded : BOOLEAN]

Idle    == [at |-> "idle"]
Asking  == [at : {"asking", "accepted"}, charge : Charges]

TypeOK ==
  /\ today \in Days
  /\ sub \in SubRow
  /\ usage \in [Ends -> [used : Nat, granted : Nat]]
  /\ ledger \subseteq Charges \X {"paid", "refund"}
  /\ comps \in 0..MaxComps
  /\ rail \in [Charges -> RailRow]
  /\ heard \subseteq Charges /\ gone \subseteq Charges
  /\ refund \in [Operators -> {Idle} \cup Asking]
  /\ cancel \in {Idle} \cup Asking
  /\ work \in [Workers -> Days \cup {None}]
  /\ comped \in Ends

Init ==
  /\ today = 0
  /\ sub = [tier |-> "free", status |-> "active", charge |-> None,
            cancelling |-> FALSE, start |-> 0, end |-> Period]
  /\ usage = [d \in Ends |-> [used |-> 0, granted |-> 0]]
  /\ ledger = {} /\ comps = 0
  /\ rail = [c \in Charges |-> [state |-> "unpaid", until |-> 0, of |-> c,
                                renewing |-> FALSE, refunded |-> FALSE]]
  /\ heard = {} /\ gone = {}
  /\ refund = [o \in Operators |-> Idle]
  /\ cancel = Idle
  /\ work = [w \in Workers |-> None]
  /\ comped = 0

-----------------------------------------------------------------------------
(* Entitlement.                                                             *)

EffectiveTier(s) == IF s.status = "active" THEN s.tier ELSE "free"

\* Mutant: a period that has passed is renewed, paid or not.
RolledForward(s, day) ==
  IF day < s.end THEN s
  ELSE LET start == s.end + Period * ((day - s.end) \div Period)
       IN  [s EXCEPT !.start = start, !.end = start + Period]

\* roll_period_if_due: skipped periods are caught up with; a tier that is not
\* free for good ends with its period.
Rolled(s, day) ==
  IF day < s.end THEN s
  ELSE LET start == s.end + Period * ((day - s.end) \div Period)
       IN  [s EXCEPT !.start = start, !.end = start + Period,
                     !.status = IF s.tier \in {"free", "unlimited"} THEN @ ELSE "expired"]

\* apply_subscription: the rail's expiry decides the period, and the first
\* charge the row has ever had stays its charge.
Subscribed(s, c) ==
  [s EXCEPT !.tier = "family", !.status = "active", !.cancelling = FALSE,
            !.charge = IF @ = None THEN c ELSE @,
            !.end = rail[c].until, !.start = rail[c].until - Period]

\* Mutant: a refund may leave less than nothing.
WithGrantUnclamped(s, n) == [usage EXCEPT ![s.start].granted = @ + n]

\* apply_topup and revoke_topup act on the quota row of the current period.
WithGrant(s, n) ==
  [usage EXCEPT ![s.start].granted = IF @ + n < 0 THEN 0 ELSE @ + n]

Limit(s) == CASE EffectiveTier(s) = "free"   -> FreeLimit + usage[s.start].granted
              [] EffectiveTier(s) = "family" -> FamilyLimit + usage[s.start].granted

-----------------------------------------------------------------------------
(* Buying: an invoice is opened, checked, paid, and its update delivered.   *)

Open == {c \in Charges : /\ rail[c].of = c
                         /\ \/ rail[c].state = "open"
                            \/ rail[c].state = "taken" /\ c \notin heard}

\* handle_pre_checkout.  Nothing is rolled here and nothing reserved.
PreCheckout(c) ==
  /\ rail[c].state = "unpaid" /\ c \notin gone
  /\ Cardinality(Open) < MaxOpen
  /\ EffectiveTier(sub) # "unlimited"
  /\ c \in Subs => ~(EffectiveTier(sub) = "family" /\ sub.charge # None)
  /\ rail' = [rail EXCEPT ![c].state = "open"]
  /\ UNCHANGED <<today, sub, usage, ledger, comps, heard, gone, refund, cancel, work, comped>>

Pay(c) ==
  /\ rail[c].state = "open"
  /\ rail' = [rail EXCEPT ![c].state = "taken", ![c].until = today + Period,
                          ![c].renewing = c \in Subs]
  /\ UNCHANGED <<today, sub, usage, ledger, comps, heard, gone, refund, cancel, work, comped>>

\* The rail charges a subscription again when the time paid for is over.
Renew(first, c) ==
  /\ c \in Subs /\ rail[c].state = "unpaid"
  /\ rail[first].renewing
  /\ \A d \in Subs : rail[d].of = first => rail[d].until <= today
  /\ rail' = [rail EXCEPT ![c].state = "taken", ![c].of = first,
                          ![c].until = today + Period]
  /\ UNCHANGED <<today, sub, usage, ledger, comps, heard, gone, refund, cancel, work, comped>>

\* Cancelled in Telegram itself, or the payer runs out of Stars.
Lapse(c) ==
  /\ rail[c].renewing
  /\ rail' = [rail EXCEPT ![c].renewing = FALSE]
  /\ UNCHANGED <<today, sub, usage, ledger, comps, heard, gone, refund, cancel, work, comped>>

PayerLeaves(c) ==
  /\ c \notin gone
  /\ gone' = gone \cup {c}
  /\ UNCHANGED <<today, sub, usage, ledger, comps, rail, heard, refund, cancel, work, comped>>

Recorded(c) == <<c, "paid">> \in ledger
Refunded(c) == <<c, "refund">> \in ledger

\* Mutant: the ledger is not asked whether the payment is known.
AcceptsAny(c) ==
  /\ c \notin gone
  /\ EffectiveTier(sub) # "unlimited"
  /\ c \in Subs => rail[c].until > today

\* _validate_checkout and the checks of handle_successful_payment.
Accepts(c) ==
  /\ c \notin gone
  /\ EffectiveTier(sub) # "unlimited"
  /\ c \in Subs => rail[c].until > today
  /\ ~Recorded(c)

\* The ledger row and what was bought, in one transaction.
Applied(c) ==
  /\ ledger' = ledger \cup {<<c, "paid">>}
  /\ IF c \in Subs
     THEN /\ sub' = Subscribed(sub, c)
          /\ UNCHANGED <<usage>>
     ELSE LET s == Rolled(sub, today)
          IN  /\ sub' = s
              /\ usage' = WithGrant(s, 1)

\* handle_successful_payment: an update comes again until the poll that follows
\* it; what the handler refuses, or fails to store, it only logs.
SuccessfulPayment(c) ==
  /\ rail[c].state = "taken"
  /\ c \notin heard
  /\ \/ Accepts(c) /\ Applied(c)
     \/ UNCHANGED <<ledger, sub, usage>>
  /\ heard' \in {heard, heard \cup {c}}
  /\ UNCHANGED <<today, comps, rail, gone, refund, cancel, work, comped>>

-----------------------------------------------------------------------------
(* The operator.                                                            *)

Grant ==
  /\ comps < MaxComps
  /\ comps' = comps + 1
  /\ LET s == Rolled(sub, today) IN sub' = s /\ usage' = WithGrant(s, 1)
  /\ UNCHANGED <<today, ledger, rail, heard, gone, refund, cancel, work, comped>>

\* set_user_tier: a tier that is there already is left alone, and a live paid
\* subscription is not replaced.
SetTier(tier, periods) ==
  /\ comps < MaxComps
  /\ tier # "family" => periods = 1
  /\ LET s   == Rolled(sub, today)
         end == today + periods * Period
     IN  /\ ~(EffectiveTier(s) = tier /\ (tier # "family" \/ s.end = end))
         /\ ~(s.status = "active" /\ s.charge # None)
         /\ sub' = [tier |-> tier, status |-> "active", charge |-> None,
                    cancelling |-> FALSE, start |-> today, end |-> end]
         /\ comped' = IF tier = "family" THEN end ELSE 0
  /\ comps' = comps + 1
  /\ UNCHANGED <<today, usage, ledger, rail, heard, gone, refund, cancel, work>>

\* handle_refund up to its await.
RefundAsk(o, c) ==
  /\ refund[o] = Idle
  /\ Recorded(c) /\ ~Refunded(c)
  /\ refund' = [refund EXCEPT ![o] = [at |-> "asking", charge |-> c]]
  /\ UNCHANGED <<today, sub, usage, ledger, comps, rail, heard, gone, cancel, work, comped>>

\* Mutant: the answer of the rail is not looked at.
RailRefundsUnheard(o) ==
  /\ refund[o].at = "asking"
  /\ refund' = [refund EXCEPT ![o].at = "accepted"]
  /\ rail' = [rail EXCEPT ![refund[o].charge].refunded = TRUE]
  /\ UNCHANGED <<today, sub, usage, ledger, comps, heard, gone, cancel, work,
                 comped>>

\* The rail refunds a charge once.
RailRefunds(o) ==
  /\ refund[o].at = "asking"
  /\ IF rail[refund[o].charge].refunded
     THEN /\ refund' = [refund EXCEPT ![o] = Idle]
          /\ UNCHANGED rail
     ELSE /\ refund' = [refund EXCEPT ![o].at = "accepted"]
          /\ rail' = [rail EXCEPT ![refund[o].charge].refunded = TRUE]
  /\ UNCHANGED <<today, sub, usage, ledger, comps, heard, gone, cancel, work,
                 comped>>

\* ... and after it: the refund is recorded and the entitlement taken back.
RefundLands(o) ==
  /\ refund[o].at = "accepted"
  /\ LET c == refund[o].charge
         s == Rolled(sub, today)
     IN  /\ ledger' = ledger \cup {<<c, "refund">>}
         /\ IF c \in Subs
            THEN /\ sub' = [sub EXCEPT !.status = "cancelled"]
                 /\ UNCHANGED usage
            ELSE /\ sub' = s
                 /\ usage' = WithGrant(s, -1)
  /\ refund' = [refund EXCEPT ![o] = Idle]
  /\ UNCHANGED <<today, comps, rail, heard, gone, cancel, work, comped>>

-----------------------------------------------------------------------------
(* The owner cancels the renewal in the Mini App.                           *)

CancelAsk ==
  /\ cancel = Idle
  /\ EffectiveTier(sub) = "family" /\ sub.charge # None
  /\ cancel' = [at |-> "asking", charge |-> sub.charge]
  /\ UNCHANGED <<today, sub, usage, ledger, comps, rail, heard, gone, refund, work, comped>>

\* The rail knows the subscription by its first charge.
RailCancels ==
  /\ cancel.at = "asking"
  /\ IF rail[cancel.charge].renewing
     THEN /\ cancel' = [cancel EXCEPT !.at = "accepted"]
          /\ rail' = [rail EXCEPT ![cancel.charge].renewing = FALSE]
     ELSE /\ cancel' = Idle
          /\ UNCHANGED rail
  /\ UNCHANGED <<today, sub, usage, ledger, comps, heard, gone, refund, work,
                 comped>>

\* Mutant: the cancellation ends the plan at once.
CancelLandsNow ==
  /\ cancel.at = "accepted"
  /\ sub' = [sub EXCEPT !.cancelling = TRUE, !.status = "cancelled"]
  /\ cancel' = Idle
  /\ UNCHANGED <<today, usage, ledger, comps, rail, heard, gone, refund, work,
                 comped>>

\* The row loaded before the await is written after it: one column.
CancelLands ==
  /\ cancel.at = "accepted"
  /\ sub' = [sub EXCEPT !.cancelling = TRUE]
  /\ cancel' = Idle
  /\ UNCHANGED <<today, usage, ledger, comps, rail, heard, gone, refund, work,
                 comped>>

-----------------------------------------------------------------------------
(* Metered work.                                                            *)

\* Mutant: the limit itself still admits.
AdmitsOneMore(s) == EffectiveTier(s) # "unlimited" => usage[s.start].used <= Limit(s)

Admits(s) == EffectiveTier(s) # "unlimited" => usage[s.start].used < Limit(s)

\* meter.admit.  What it rolls is not committed before the work is.
Admit(w) ==
  /\ work[w] = None
  /\ Admits(Rolled(sub, today))
  /\ work' = [work EXCEPT ![w] = today]
  /\ UNCHANGED <<today, sub, usage, ledger, comps, rail, heard, gone, refund, cancel, comped>>

\* meter.commit, with the time the request was admitted.
Charge(w) ==
  /\ work[w] # None
  /\ LET s == Rolled(sub, work[w])
     IN  /\ sub' = s
         /\ usage' = [usage EXCEPT ![s.start].used = @ + 1]
  /\ work' = [work EXCEPT ![w] = None]
  /\ UNCHANGED <<today, ledger, comps, rail, heard, gone, refund, cancel, comped>>

-----------------------------------------------------------------------------
Tomorrow ==
  /\ today < LastDay
  /\ today' = today + 1
  /\ UNCHANGED <<sub, usage, ledger, comps, rail, heard, gone, refund, cancel, work, comped>>

\* The process dies, or the call to the rail fails after the rail has acted:
\* what was waiting is forgotten.
Forget ==
  /\ refund' = [o \in Operators |-> Idle]
  /\ cancel' = Idle
  /\ work' = [w \in Workers |-> None]
  /\ <<refund', cancel', work'>> # <<refund, cancel, work>>
  /\ UNCHANGED <<today, sub, usage, ledger, comps, rail, heard, gone, comped>>

Next ==
  \/ \E c \in Charges : PreCheckout(c) \/ Pay(c) \/ Lapse(c) \/ PayerLeaves(c)
                        \/ SuccessfulPayment(c)
  \/ \E first, c \in Subs : Renew(first, c)
  \/ Grant
  \/ \E tier \in {"free", "family", "unlimited"}, periods \in 1..2 : SetTier(tier, periods)
  \/ \E o \in Operators : \/ RailRefunds(o) \/ RefundLands(o)
                          \/ \E c \in Charges : RefundAsk(o, c)
  \/ CancelAsk \/ RailCancels \/ CancelLands
  \/ \E w \in Workers : Admit(w) \/ Charge(w)
  \/ Tomorrow
  \/ Forget

Spec == Init /\ [][Next]_vars

-----------------------------------------------------------------------------
(* Properties.                                                              *)

\* Every unit that was granted to a period.
Units == UNION {{d} \X (1..usage[d].granted) : d \in Ends}

Granted == Cardinality(Units)

BoughtTopups == {c \in Topups : Recorded(c)}

\* "Idempotent": whatever is delivered again, refunded twice at once, forgotten
\* or rolled, a top-up on the ledger was granted once, and a refund takes at
\* most one grant back (successful payments and refunds as transactions).
GrantsAddUp ==
  LET refunded == Cardinality({c \in BoughtTopups : Refunded(c)})
      given    == Cardinality(BoughtTopups) + comps
  IN  /\ Granted <= given
      /\ comps = 0 => Granted >= Cardinality(BoughtTopups) - refunded

\* "Paid subscriptions do not roll forward": a request is served as Family only
\* while a recorded charge that was not refunded has time left, or the operator
\* gave it (roll_period_if_due, apply_refund, set_user_tier).
FamilyIsPaidFor ==
  EffectiveTier(Rolled(sub, today)) = "family" =>
    \/ \E c \in Subs : Recorded(c) /\ ~Refunded(c) /\ rail[c].until > today
    \/ comped > today

\* "The household keeps Family benefits until the displayed period end": once
\* the renewal is cancelled they last; only a refund or the operator ends them
\* earlier, and only another payment moves the end, to a later day than today's
\* (cancel_subscription beside apply_subscription and roll_period_if_due).
CancelledKeepsBenefits ==
  [][/\ EffectiveTier(sub) = "family" /\ (sub.cancelling \/ cancel.at = "accepted")
     /\ today' < sub.end
     /\ comps' = comps
     /\ ~\E c \in Subs : ~Refunded(c) /\ <<c, "refund">> \in ledger'
     => /\ EffectiveTier(sub') = "family" /\ today' < sub'.end
        /\ ledger' = ledger => sub'.end >= sub.end]_vars

\* "Limits may be exceeded only by already-running work": while the operator
\* takes nothing back and gives no tier, a period is charged at most one unit
\* beyond its limit for every other request that can run, however requests
\* overlap each other, payments and the end of a period (admit, commit).  Work
\* that runs while a subscription is paid is charged to the period it begins,
\* which may be one that was charged before when two are paid on one day.
OvershootIsRunningWork ==
  comps = 0 /\ (\A c \in Charges : ~Refunded(c)) =>
    \A d \in Ends : usage[d].used <= FamilyLimit + usage[d].granted - 1
                     + Cardinality(Workers) * (1 + Cardinality({c \in Subs : Recorded(c)}))

\* docs/telegram-subscriptions.md: "A household can have only one active Family
\* subscription."
OneSubscription ==
  Cardinality({c \in Subs : rail[c].renewing /\ Recorded(c)}) <= 1

\* "Telegram's subscription identity", the charge that Cancel renewal names:
\* while Family is active and a recorded subscription renews, it is that one.
RowNamesSubscription ==
  /\ EffectiveTier(sub) = "family" /\ sub.charge # None
  /\ \E c \in Subs : rail[c].renewing /\ Recorded(c)
  => rail[sub.charge].renewing
=============================================================================
