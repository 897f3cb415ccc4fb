------------------------------ MODULE MCSimulator ------------------------------
(***************************************************************************)
(* Instances of Simulator for TLC: which requests clients make.            *)
(***************************************************************************)
EXTENDS Simulator, TLC

Decide(family, outcomes) ==
  [name : {"decide"}, family : {family}, id : TrackingIds, to : outcomes]

Replay(family) == [name : {"replay"}, family : {family}, id : TrackingIds]

Ask(names) == [name : names, id : TrackingIds]

Pay(kinds) == [name : {"pay"}, id : TrackingIds, kind : kinds]

(* A business payment, its decisions and its replays, and being asked for. *)
PaymentRequests ==
  Pay({"B2C"}) \cup Ask({"show"}) \cup Decide("payments", {"SUCCESS", "TIMEOUT"})
    \cup Replay("payments")

(* An STK payment, its decisions, its queries and its replays, and the    *)
(* replay of the wrong family.                                             *)
StkRequests ==
  Ask({"push", "query"}) \cup Decide("stk", {"SUCCESS", "TIMEOUT"})
    \cup Replay("stk") \cup Replay("payments")

Symmetry == Permutations(Requests)

===============================================================================
