--------------------------- MODULE DeliveryPromise ---------------------------
(***************************************************************************)
(* What the outbox promises the rest of the program about one delivery,    *)
(* without queue, sender, attempts, accounts or crashes: a message is cut  *)
(* into parts, the provider takes each part at most once and in order, a   *)
(* delivery reported as confirmed was taken whole, and one reported as     *)
(* withheld was never and will never be taken, not even in part.           *)
(***************************************************************************)
EXTENDS Naturals

CONSTANTS Deliveries, Attempts, Parts

VARIABLES
    phase,   \* delivery -> what the program reports of it
    taken    \* the requests the provider has taken

vars == <<phase, taken>>

Phases == {"absent", "open", "withheld", "confirmed", "unconfirmed"}
Requests == [delivery : Deliveries, attempt : Attempts, part : 1..Parts]

Init ==
    /\ phase = [d \in Deliveries |-> "absent"]
    /\ taken = {}

Move(D, from, to) ==
    /\ \A d \in D : phase[d] = from
    /\ phase' = [d \in Deliveries |-> IF d \in D THEN to ELSE phase[d]]

Submit(d) == Move({d}, "absent", "open") /\ UNCHANGED taken

Untaken(d) == \A r \in taken : r.delivery # d

Withhold(D) ==
    /\ \A d \in D : Untaken(d)
    /\ Move(D, "open", "withheld")
    /\ UNCHANGED taken

\* The provider may take a part after the program gave up on the delivery.
Take(r) ==
    /\ phase[r.delivery] \in {"open", "unconfirmed"}
    /\ \A s \in taken : s.delivery = r.delivery => s.part # r.part
    /\ \A q \in 1..Parts : q < r.part => [r EXCEPT !.part = q] \in taken
    /\ taken' = taken \cup {r}
    /\ UNCHANGED phase

Confirm(d) ==
    /\ \E a \in Attempts : \A p \in 1..Parts :
         [delivery |-> d, attempt |-> a, part |-> p] \in taken
    /\ Move({d}, "open", "confirmed")
    /\ UNCHANGED taken

GiveUp(D) == Move(D, "open", "unconfirmed") /\ UNCHANGED taken

\* A receipt reports that an accepted message could not be handed over.
Bounce(d) == Move({d}, "confirmed", "unconfirmed") /\ UNCHANGED taken

Next ==
    \/ \E d \in Deliveries : Submit(d) \/ Confirm(d) \/ Bounce(d)
    \/ \E D \in SUBSET Deliveries : Withhold(D) \/ GiveUp(D)
    \/ \E r \in Requests : Take(r)

Spec == Init /\ [][Next]_vars
=============================================================================
