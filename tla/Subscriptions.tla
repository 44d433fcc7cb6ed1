---------------------------- MODULE Subscriptions ----------------------------
(***************************************************************************)
(* What the registry of watches (src/gtc/watcher.go) promises its users,   *)
(* without its locks, maps and pointers: a set of subscriptions that grows *)
(* and shrinks one pair at a time, and publications that reach, in one     *)
(* step, exactly the watchers subscribed at that moment.  Watches.tla      *)
(* implements this module; ConfigWatcher.tla is built on it.               *)
(***************************************************************************)
EXTENDS Naturals

CONSTANTS Watchers,  \* the watchers built in the life of the process
          Refs       \* the xDS resources (type URL and name) one can watch

VARIABLES subs,      \* the pairs <<w, r>> such that w is subscribed to r
          inbox,     \* inbox[w][r]: notifications of r on their way to w
          closed,    \* the watchers whose release has completed
          stopped    \* TRUE once the context of the notifiers is done

vars == <<subs, inbox, closed, stopped>>

Init ==
    /\ subs = {}
    /\ inbox = [w \in Watchers |-> [r \in Refs |-> 0]]
    /\ closed = {}
    /\ stopped = FALSE

Subscribe(w, r) ==
    /\ w \notin closed
    /\ subs' = subs \cup {<<w, r>>}
    /\ UNCHANGED <<inbox, closed, stopped>>

Unsubscribe(w, r) ==
    /\ subs' = subs \ {<<w, r>>}
    /\ UNCHANGED <<inbox, closed, stopped>>

\* A publication starts one delivery for each subscriber, and for no one else.
Published(r) ==
    [w \in Watchers |-> IF <<w, r>> \in subs
                        THEN [inbox[w] EXCEPT ![r] = @ + 1]
                        ELSE inbox[w]]

Publish(r) ==
    /\ inbox' = Published(r)
    /\ UNCHANGED <<subs, closed, stopped>>

TakeOne(w, r) ==
    /\ inbox[w][r] > 0
    /\ inbox' = [inbox EXCEPT ![w][r] = @ - 1]
    /\ UNCHANGED <<subs, closed, stopped>>

\* A watcher receives nothing once it is closed ...
Receive(w, r) == w \notin closed /\ TakeOne(w, r)

\* ... and a delivery is given up only then, or when the process stops.
Discard(w, r) == (w \in closed \/ stopped) /\ TakeOne(w, r)

\* A watcher closes when it has no subscription left.
Close(w) ==
    /\ \A r \in Refs : <<w, r>> \notin subs
    /\ closed' = closed \cup {w}
    /\ UNCHANGED <<subs, inbox, stopped>>

Stop ==
    /\ stopped' = TRUE
    /\ UNCHANGED <<subs, inbox, closed>>

Next ==
    \/ \E w \in Watchers, r \in Refs :
          \/ Subscribe(w, r)
          \/ Unsubscribe(w, r)
          \/ Receive(w, r)
          \/ Discard(w, r)
    \/ \E r \in Refs : Publish(r)
    \/ \E w \in Watchers : Close(w)
    \/ Stop

Spec == Init /\ [][Next]_vars
=============================================================================
