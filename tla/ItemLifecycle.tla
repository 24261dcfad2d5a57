---------------------------- MODULE ItemLifecycle ----------------------------
(***************************************************************************)
(* What the pantry promises about one household's items, whatever buttons, *)
(* commands, batches and background jobs act on them: an item enters the   *)
(* pantry active, leaves it once, for one reason, and leaves exactly one   *)
(* outcome behind when the reason is that it was eaten or tossed.  An      *)
(* outcome, once recorded, is never changed (models.py: "One immutable     *)
(* outcome per item").                                                     *)
(***************************************************************************)
CONSTANT Items

VARIABLES status,    \* [Items -> Statuses]
          outcome    \* [Items -> {"none", "eaten", "tossed"}]

Terminal == {"eaten", "tossed", "removed"}
Counted  == {"eaten", "tossed"}
Statuses == {"unborn", "active"} \cup Terminal

Init == /\ status = [i \in Items |-> "unborn"]
        /\ outcome = [i \in Items |-> "none"]

\* Items enter: one by one from /add, several at once from a receipt.
Enter == \E S \in SUBSET Items :
           /\ \A i \in S : status[i] = "unborn"
           /\ status' = [i \in Items |-> IF i \in S THEN "active" ELSE status[i]]
           /\ UNCHANGED outcome

\* Active items leave together, for one reason, with their outcomes.
Leave == \E S \in SUBSET Items, why \in Terminal :
           /\ \A i \in S : status[i] = "active"
           /\ status' = [i \in Items |-> IF i \in S THEN why ELSE status[i]]
           /\ outcome' = [i \in Items |-> IF i \in S /\ why \in Counted
                                          THEN why ELSE outcome[i]]

Spec == Init /\ [][Enter \/ Leave]_<<status, outcome>>
=============================================================================
