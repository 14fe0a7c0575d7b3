------------------------------ MODULE MCModule ------------------------------
(***************************************************************************)
(* One Module with one or two versions beside the Version controller.      *)
(***************************************************************************)
EXTENDS ModuleReconciler

CONSTANTS m1, m2, c1

MCMeta == [v \in Version |-> [kind |-> "Module", ownerLabel |-> "vpc", configName |-> "vpc",
                              number |-> IF v = m1 THEN 1 ELSE 2, labels |-> {}]]

Lists == {<<m1>>, <<m1, m2>>}
Swaps == Lists \cup {<<m2>>}
None  == [c \in Checksum |-> <<>>]

NoPolicies == {<<>>}

Quiet    == [k \in EventKind |-> 0]
OneCrash == [Quiet EXCEPT !["crash"] = 1]

Edited     == [edit |-> 2, disturb |-> 1]
ThreeEdits == [edit |-> 3, disturb |-> 0]
=============================================================================
