------------------------------ MODULE Approvals ------------------------------
(***************************************************************************)
(* What a confirmation card promises, whoever keeps it: a person is asked, *)
(* a person may allow it, and an allowed card lets one action through.     *)
(***************************************************************************)
CONSTANT Cards

VARIABLES
    asked,      \* cards put to a person
    allowed,    \* cards a person has allowed
    spent       \* per card: how many actions it has let through

Init == asked = {} /\ allowed = {} /\ spent = [k \in Cards |-> 0]

Ask(k) ==
    /\ k \in Cards \ asked
    /\ asked' = asked \cup {k}
    /\ UNCHANGED <<allowed, spent>>

Allow(k) ==
    /\ k \in asked \ allowed
    /\ allowed' = allowed \cup {k}
    /\ UNCHANGED <<asked, spent>>

Spend(k) ==
    /\ k \in allowed /\ spent[k] = 0
    /\ spent' = [spent EXCEPT ![k] = 1]
    /\ UNCHANGED <<asked, allowed>>

Next == \E k \in Cards : Ask(k) \/ Allow(k) \/ Spend(k)

Spec == Init /\ [][Next]_<<asked, allowed, spent>>
=============================================================================
