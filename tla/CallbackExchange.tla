--------------------------- MODULE CallbackExchange ---------------------------
(***************************************************************************)
(* What the services may assume of CallbackDispatcherPort.dispatch: one    *)
(* POST that arrives at most once, perhaps never, perhaps after dispatch   *)
(* has returned; and a call that always returns, with an attempt that is   *)
(* ok, or shows an answer, only if the POST arrived.  Dispatcher is shown  *)
(* to implement this module; Simulator and C2B are built on it.            *)
(***************************************************************************)
CONSTANTS
  Exchanges,   \* one element for every call of dispatch
  Bodies       \* what a non-empty answer can be read as

VARIABLES
  phase,       \* whether each exchange is idle, open or ended
  arrived,     \* the exchanges whose POST reached its URL
  outcome      \* the attempt each exchange ended with

vars == << phase, arrived, outcome >>

(* The body of an attempt without one: no answer, or an empty answer.      *)
NoBody == "undefined"

Outcome == [ok : BOOLEAN, body : Bodies \cup {NoBody}]

Failed == [ok |-> FALSE, body |-> NoBody]

TypeOK ==
  /\ phase \in [Exchanges -> {"idle", "open", "ended"}]
  /\ arrived \subseteq Exchanges
  /\ outcome \in [Exchanges -> Outcome]

Init ==
  /\ phase = [x \in Exchanges |-> "idle"]
  /\ arrived = {}
  /\ outcome = [x \in Exchanges |-> Failed]

Start(x) ==
  /\ phase[x] = "idle"
  /\ phase' = [phase EXCEPT ![x] = "open"]
  /\ UNCHANGED << arrived, outcome >>

Arrive(x) ==
  /\ phase[x] # "idle"
  /\ x \notin arrived
  /\ arrived' = arrived \cup {x}
  /\ UNCHANGED << phase, outcome >>

End(x, o) ==
  /\ phase[x] = "open"
  /\ o # Failed => x \in arrived
  /\ phase' = [phase EXCEPT ![x] = "ended"]
  /\ outcome' = [outcome EXCEPT ![x] = o]
  /\ UNCHANGED arrived

EndSomehow(x) == \E o \in Outcome : End(x, o)

Next == \E x \in Exchanges : Start(x) \/ Arrive(x) \/ EndSomehow(x)

Spec == Init /\ [][Next]_vars

(* dispatch always returns. *)
FairSpec == Spec /\ \A x \in Exchanges : WF_vars(EndSomehow(x))

===============================================================================
