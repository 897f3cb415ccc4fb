-------------------------------- MODULE Payment --------------------------------
(***************************************************************************)
(* What the emulator promises an integration about each payment: it is     *)
(* opened, decided at most once, and the integration is told the decision  *)
(* and nothing else, any number of times, at any time after it was made.   *)
(* Simulator and C2B, which decide and tell in different orders of their   *)
(* own, are both shown to implement this module.                           *)
(***************************************************************************)
EXTENDS TransactionTypes

CONSTANT TrackingIds   \* the tracking ids payments can be given

VARIABLES
  verdict,   \* "none" before the payment is opened, "open", or its outcome
  told       \* the outcomes the integration has been told

vars == << verdict, told >>

TypeOK ==
  /\ verdict \in [TrackingIds -> {"none", "open"} \cup TerminalStatus]
  /\ told \in [TrackingIds -> SUBSET TerminalStatus]

Init ==
  /\ verdict = [id \in TrackingIds |-> "none"]
  /\ told = [id \in TrackingIds |-> {}]

Open(id) ==
  /\ verdict[id] = "none"
  /\ verdict' = [verdict EXCEPT ![id] = "open"]
  /\ UNCHANGED told

Decide(id, o) ==
  /\ verdict[id] = "open"
  /\ verdict' = [verdict EXCEPT ![id] = o]
  /\ UNCHANGED told

Tell(id) ==
  /\ verdict[id] \in TerminalStatus
  /\ told' = [told EXCEPT ![id] = @ \cup {verdict[id]}]
  /\ UNCHANGED verdict

Next ==
  \E id \in TrackingIds :
    \/ Open(id)
    \/ \E o \in TerminalStatus : Decide(id, o)
    \/ Tell(id)

Spec == Init /\ [][Next]_vars

-------------------------------------------------------------------------------
(* An integration is only told the outcome a payment has: never two        *)
(* outcomes of one payment, however callbacks, replays and queries overlap.*)
ToldTheVerdict ==
  \A id \in TrackingIds : \A o \in told[id] : o = verdict[id]

(* What was decided stays decided. *)
KeepsDecisions ==
  \A id \in TrackingIds :
    verdict[id] \in TerminalStatus => verdict'[id] = verdict[id]

DecidedForGood == [][KeepsDecisions]_vars

===============================================================================
