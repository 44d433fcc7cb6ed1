------------------------------ MODULE MCWatches ------------------------------
(* Watches on a small instance: two watchers, two resources, requests with *)
(* one name, with both, with one of them twice, and with none.             *)
EXTENDS Watches

CONSTANTS w1, w2, n1, r1, r2, g1, g2

MCNameLists == {<<r1>>, <<r1, r2>>, <<r2, r2>>, <<>>}
=============================================================================
