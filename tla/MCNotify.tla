------------------------------- MODULE MCNotify -------------------------------
(* Notify with a listener in one of two namespaces, a service of the same   *)
(* name in both, and specs that move a backend between them, share a slice  *)
(* between backends and drop a backend.                                     *)
EXTENDS Notify, TLC

CONSTANTS k1, k2, l1, s1, s2, x, y, here, there

b1 == <<0, 0>>
b2 == <<1, 0>>
MCBackends == {b1, b2}
MCNsOf == [o \in {l1, s1, s2} |-> IF o = s2 THEN there ELSE here]
MCLabelOf == [s \in {s1, s2} |-> x]

Local == [name |-> x, ns |-> NoNamespace]
Remote == [name |-> x, ns |-> there]
Other == [name |-> y, ns |-> NoNamespace]
MCSpecs == {[b \in {b1} |-> {Remote}],
            [b \in {b1, b2} |-> IF b = b1 THEN {Local, Remote} ELSE {Other}],
            [b \in {b1, b2} |-> IF b = b1 THEN {} ELSE {Local}]}
MCMalformed == {[b \in {b1} |-> {Remote}]}

Symmetry == Permutations(Workers)
=============================================================================
