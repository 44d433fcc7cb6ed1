------------------------------ MODULE MCClients ------------------------------
(***************************************************************************)
(* Instances of Clients. Every block of a listener is watched. The blocks  *)
(* below the listener itself are watched where DeepCopyObject decides who  *)
(* owns them (the tracker), with one caller of the factory that only       *)
(* starts it and waits, as FakeK8s does; the listener's own block with     *)
(* either API and any calls of all callers.                                *)
(***************************************************************************)
EXTENDS Clients

Whole == <<>>
MCInit == Init /\ (spot # Whole => api = "tracker")

First == CHOOSE c \in Callers : TRUE

MCNext ==
  \/ ProgramStep /\ UNCHANGED factoryVars
  \/ InformerStep
  \/ spot = Whole /\ FactoryStep
  \/ /\ spot # Whole
     /\ UNCHANGED clientVars
     /\ InformerFor(First, Listener) \/ Start(First)

MCSpec == MCInit /\ [][MCNext]_vars /\ Fairness
=============================================================================
