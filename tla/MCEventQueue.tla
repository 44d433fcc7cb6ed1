----------------------------- MODULE MCEventQueue -----------------------------
(* EventQueue with three events, reported five times in all, and three workers.*)
EXTENDS EventQueue

CONSTANTS e1, e2, e3, k1, k2, k3
=============================================================================
