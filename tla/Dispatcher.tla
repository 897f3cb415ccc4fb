------------------------------ MODULE Dispatcher ------------------------------
(***************************************************************************)
(* CallbackDispatcher: fetch, then the reading of the body, both under one *)
(* AbortController whose timer is started first and cleared in `finally`.  *)
(* The endpoint may be unreachable, slow, silent, or stall in the middle   *)
(* of its body; the timer, the network and the endpoint race.              *)
(***************************************************************************)
EXTENDS Naturals

CONSTANTS
  Exchanges,     \* one element for every call of dispatch
  Timeouts,      \* the values of config.callbackTimeoutMs
  LongestDelay,  \* what setTimeout can count to: 2^31 - 1 in Node
  Texts,         \* the texts of answers that are not empty
  ParsedAs       \* JSON.parse: a function on the texts that are JSON

ASSUME DelayAssumption ==
  /\ Timeouts \subseteq Nat \ {0}
  /\ LongestDelay \in Nat \ {0}

(* What dispatch calls `undefined`: no text is read, or parsed, as that.   *)
NoBody == "undefined"

ASSUME TextsAssumption ==
  /\ {"", "unread", NoBody} \cap Texts = {}
  /\ DOMAIN ParsedAs \subseteq Texts
  /\ \A text \in DOMAIN ParsedAs : ParsedAs[text] # NoBody

Text == Texts \cup {""}

(* Mutant of readResponseBody: the empty text is not looked for. *)
readAnyResponseBody(text) ==
  IF text \in DOMAIN ParsedAs THEN ParsedAs[text] ELSE text

(* An empty text is no body, one that is not JSON is a body as it stands.  *)
readResponseBody(text) ==
  IF text = "" THEN NoBody
  ELSE IF text \in DOMAIN ParsedAs THEN ParsedAs[text] ELSE text

(* What an answer that is not empty can be read as. *)
Bodies == {readResponseBody(text) : text \in Texts}

(* Answers: whether the status is 2xx, and the text of the body, "unread"  *)
(* until the last of it was received.                                      *)
Answer == [ok : BOOLEAN, text : Text \cup {"unread"}]

NoAnswer == [ok |-> FALSE, text |-> "unread"]

VARIABLES
  timeoutMs, \* what the server was configured with
  state,     \* where each call of dispatch is
  timer,     \* its timer
  elapsed,   \* the milliseconds since it was made
  arrived,   \* the exchanges whose POST reached its URL
  answer,    \* what was received of the answer
  outcome    \* the attempt it returned

vars == << timeoutMs, state, timer, elapsed, arrived, answer, outcome >>

Outcome == [ok : BOOLEAN, body : Bodies \cup {NoBody}]

Failed == [ok |-> FALSE, body |-> NoBody]

TypeOK ==
  /\ timeoutMs \in Timeouts
  /\ state \in [Exchanges -> {"idle", "fetching", "reading", "returned"}]
  /\ timer \in [Exchanges -> {"none", "armed", "fired", "cleared"}]
  /\ elapsed \in [Exchanges -> 0..(timeoutMs + 1)]
  /\ arrived \subseteq Exchanges
  /\ answer \in [Exchanges -> Answer]
  /\ outcome \in [Exchanges -> Outcome]

Init ==
  /\ timeoutMs \in Timeouts
  /\ state = [x \in Exchanges |-> "idle"]
  /\ timer = [x \in Exchanges |-> "none"]
  /\ elapsed = [x \in Exchanges |-> 0]
  /\ arrived = {}
  /\ answer = [x \in Exchanges |-> NoAnswer]
  /\ outcome = [x \in Exchanges |-> Failed]

-------------------------------------------------------------------------------
(* setTimeout fires after one millisecond when it cannot count the delay.  *)
Delay(ms) == IF ms > LongestDelay THEN 1 ELSE ms

Open(x) == state[x] \in {"fetching", "reading"}

Dispatch(x) ==
  /\ state[x] = "idle"
  /\ state' = [state EXCEPT ![x] = "fetching"]
  /\ timer' = [timer EXCEPT ![x] = "armed"]
  /\ UNCHANGED << timeoutMs, elapsed, arrived, answer, outcome >>

(* Time passes for every open exchange; it is not counted past the timeout.*)
Tick ==
  /\ \E x \in Exchanges : Open(x) /\ elapsed[x] <= timeoutMs
  /\ elapsed' = [x \in Exchanges |->
                   IF Open(x) /\ elapsed[x] <= timeoutMs
                   THEN elapsed[x] + 1 ELSE elapsed[x]]
  /\ UNCHANGED << timeoutMs, state, timer, arrived, answer, outcome >>

(* Mutant of TimerFires: the timer only covers fetch, not the body. *)
TimerFiresOnFetch(x) ==
  /\ timer[x] = "armed"
  /\ state[x] = "fetching"
  /\ elapsed[x] >= Delay(timeoutMs)
  /\ timer' = [timer EXCEPT ![x] = "fired"]
  /\ UNCHANGED << timeoutMs, state, elapsed, arrived, answer, outcome >>

(* The controller aborts: fetch or the body's reader will reject. *)
TimerFires(x) ==
  /\ timer[x] = "armed"
  /\ elapsed[x] >= Delay(timeoutMs)
  /\ timer' = [timer EXCEPT ![x] = "fired"]
  /\ UNCHANGED << timeoutMs, state, elapsed, arrived, answer, outcome >>

(* The POST reaches its URL, perhaps after dispatch has returned. *)
Arrive(x) ==
  /\ state[x] # "idle"
  /\ x \notin arrived
  /\ arrived' = arrived \cup {x}
  /\ UNCHANGED << timeoutMs, state, timer, elapsed, answer, outcome >>

(* The response's headers: fetch resolves. *)
Headers(x, ok) ==
  /\ state[x] = "fetching"
  /\ timer[x] = "armed"
  /\ x \in arrived
  /\ answer' = [answer EXCEPT ![x].ok = ok]
  /\ state' = [state EXCEPT ![x] = "reading"]
  /\ UNCHANGED << timeoutMs, timer, elapsed, arrived, outcome >>

(* Mutant of ClearTimer: there is no `finally`. *)
LeaveTimer(x) == timer

(* clearTimeout: a timer that has fired stays fired. *)
ClearTimer(x) ==
  [timer EXCEPT ![x] = IF @ = "armed" THEN "cleared" ELSE @]

(* dispatch returns the attempt o. *)
Return(x, o) ==
  /\ state' = [state EXCEPT ![x] = "returned"]
  /\ timer' = ClearTimer(x)
  /\ outcome' = [outcome EXCEPT ![x] = o]
  /\ UNCHANGED << timeoutMs, elapsed, arrived >>

(* Mutant of Attempt: the failure of JSON.parse reaches dispatch's catch.  *)
AttemptIfJson(ok, text) ==
  IF text \in Texts \ DOMAIN ParsedAs THEN Failed
  ELSE [ok |-> ok, body |-> readResponseBody(text)]

Attempt(ok, text) == [ok |-> ok, body |-> readResponseBody(text)]

ReadBody(x, text) ==
  /\ state[x] = "reading"
  /\ timer[x] = "armed"
  /\ answer' = [answer EXCEPT ![x].text = text]
  /\ Return(x, Attempt(answer[x].ok, text))

(* fetch or text() rejects: no connection, or one that breaks. *)
NetworkError(x) ==
  /\ Open(x)
  /\ Return(x, Failed)
  /\ UNCHANGED answer

(* fetch or text() rejects because the controller has aborted. *)
AbortError(x) ==
  /\ Open(x)
  /\ timer[x] = "fired"
  /\ Return(x, Failed)
  /\ UNCHANGED answer

Next ==
  \/ Tick
  \/ \E x \in Exchanges :
       \/ Dispatch(x)
       \/ TimerFires(x)
       \/ Arrive(x)
       \/ \E ok \in BOOLEAN : Headers(x, ok)
       \/ \E text \in Text : ReadBody(x, text)
       \/ NetworkError(x)
       \/ AbortError(x)

Spec == Init /\ [][Next]_vars

(* Time passes, due timers fire, rejected promises are handled.  Nothing   *)
(* is assumed of the network or the endpoint.                              *)
FairSpec ==
  /\ Spec
  /\ WF_vars(Tick)
  /\ \A x \in Exchanges : WF_vars(TimerFires(x)) /\ WF_vars(AbortError(x))

-------------------------------------------------------------------------------
(* An attempt is ok exactly when a 2xx answer was received to its end      *)
(* before the timer fired, however its text reads: neither a body that is  *)
(* not JSON nor a late answer may turn success and failure around.         *)
OutcomeIsTrue ==
  \A x \in Exchanges : state[x] = "returned" =>
    /\ outcome[x].ok <=> answer[x].ok /\ answer[x].text # "unread"
    /\ outcome[x].body # NoBody <=> answer[x].text \in Texts
    /\ timer[x] = "fired" => ~ outcome[x].ok

(* No exchange leaves a timer behind, which would hold the process and     *)
(* abort a controller nobody listens to: in every way out of dispatch.     *)
NoTimerLeaks == \A x \in Exchanges : timer[x] = "armed" => Open(x)

-------------------------------------------------------------------------------
Exchange ==
  INSTANCE CallbackExchange WITH
    phase <- [x \in Exchanges |->
                IF Open(x) THEN "open"
                ELSE IF state[x] = "idle" THEN "idle" ELSE "ended"]

(* The dispatcher is what the services take it for; in particular every    *)
(* exchange ends, even if the endpoint stalls in the middle of its body.   *)
ImplementsExchange == Exchange!FairSpec

===============================================================================
