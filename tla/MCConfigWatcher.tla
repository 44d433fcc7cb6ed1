--------------------------- MODULE MCConfigWatcher ---------------------------
(* ConfigWatcher on small instances: what the client asks for, in turn.    *)
EXTENDS ConfigWatcher

CONSTANTS a, b

One == <<{a}>>
Both == <<{a, b}>>
Grow == <<{a}, {a, b}>>
Regrow == <<{a, b}, {a}, {a, b}>>
=============================================================================
