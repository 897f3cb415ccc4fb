---------------------------- MODULE DispatcherProofs ----------------------------
(***************************************************************************)
(* Proofs about Dispatcher, for any exchanges, timeout and bodies.         *)
(***************************************************************************)
EXTENDS Dispatcher, TLAPS

(* The timer of x while its exchange is idle, open and returned. *)
TimerFollows(x) ==
  /\ state[x] = "idle" => timer[x] = "none"
  /\ Open(x) => timer[x] \in {"armed", "fired"}
  /\ state[x] = "returned" => timer[x] \in {"cleared", "fired"}

(* Nothing is answered before the headers, which only come of a POST that  *)
(* arrived, and nothing is returned before the end.                        *)
AnswerFollows(x) ==
  /\ state[x] \in {"idle", "fetching"} => answer[x] = NoAnswer
  /\ state[x] = "reading" => x \in arrived /\ answer[x].text = "unread"
  /\ state[x] # "returned" => outcome[x] = Failed

(* The attempt of x tells what became of its exchange. *)
OutcomeTrue(x) ==
  state[x] = "returned" =>
    /\ outcome[x].ok <=> answer[x].ok /\ answer[x].text # "unread"
    /\ outcome[x].body # NoBody <=> answer[x].text \in Texts
    /\ timer[x] = "fired" => ~ outcome[x].ok

DispatchInv ==
  /\ TypeOK
  /\ \A x \in Exchanges : TimerFollows(x) /\ AnswerFollows(x) /\ OutcomeTrue(x)

-------------------------------------------------------------------------------
(* Every text is read as a body, an empty one as none. *)
LEMMA BodyOfText ==
  ASSUME NEW text \in Text, NEW ok \in BOOLEAN
  PROVE  /\ Attempt(ok, text) \in Outcome
         /\ Attempt(ok, text).ok = ok
         /\ Attempt(ok, text).body # NoBody <=> text \in Texts
BY TextsAssumption DEF Text, Attempt, readResponseBody, Bodies, Outcome

LEMMA FailedIsOutcome ==
  Failed \in Outcome /\ ~ Failed.ok /\ Failed.body = NoBody
BY DEF Failed, Outcome

LEMMA NoAnswerIsAnswer ==
  /\ NoAnswer \in Answer /\ ~ NoAnswer.ok /\ NoAnswer.text = "unread"
  /\ "unread" \notin Text
BY TextsAssumption DEF NoAnswer, Answer, Text

(* What an exchange keeps when it is not the one that steps. *)
LEMMA Unmoved ==
  ASSUME DispatchInv, NEW y \in Exchanges,
         state'[y] = state[y], timer'[y] = timer[y], answer'[y] = answer[y],
         outcome'[y] = outcome[y], arrived \subseteq arrived'
  PROVE  (TimerFollows(y) /\ AnswerFollows(y) /\ OutcomeTrue(y))'
BY DEF DispatchInv, TimerFollows, AnswerFollows, OutcomeTrue, Open

LEMMA InitDispatch == Init => DispatchInv
<1> SUFFICES ASSUME Init PROVE DispatchInv
  OBVIOUS
<1>1. TypeOK
  BY DelayAssumption, FailedIsOutcome, NoAnswerIsAnswer DEF Init, TypeOK
<1>2. ASSUME NEW x \in Exchanges
      PROVE  TimerFollows(x) /\ AnswerFollows(x) /\ OutcomeTrue(x)
  <2>1. /\ state[x] = "idle" /\ timer[x] = "none"
        /\ answer[x] = NoAnswer /\ outcome[x] = Failed
    BY DEF Init
  <2> QED
    BY <2>1 DEF TimerFollows, AnswerFollows, OutcomeTrue, Open
<1> QED
  BY <1>1, <1>2 DEF DispatchInv

(* What dispatch leaves when it returns o for x. *)
LEMMA ReturnLeaves ==
  ASSUME TypeOK, NEW x \in Exchanges, NEW o \in Outcome, Return(x, o)
  PROVE  /\ state' = [state EXCEPT ![x] = "returned"]
         /\ outcome' = [outcome EXCEPT ![x] = o]
         /\ timer' \in [Exchanges -> {"none", "armed", "fired", "cleared"}]
         /\ timer'[x] = IF timer[x] = "armed" THEN "cleared" ELSE timer[x]
         /\ \A y \in Exchanges : y # x => timer'[y] = timer[y]
         /\ UNCHANGED << timeoutMs, elapsed, arrived >>
BY DEF Return, ClearTimer, TypeOK

LEMMA TypePreserved == TypeOK /\ [Next]_vars => TypeOK'
<1> SUFFICES ASSUME TypeOK, [Next]_vars PROVE TypeOK'
  OBVIOUS
<1> USE DelayAssumption DEF TypeOK
<1>1. CASE Tick
  <2>1. elapsed' \in [Exchanges -> 0..(timeoutMs + 1)]
    BY <1>1 DEF Tick
  <2> QED
    BY <1>1, <2>1 DEF Tick
<1>2. ASSUME NEW x \in Exchanges, Dispatch(x) PROVE TypeOK'
  BY <1>2 DEF Dispatch
<1>3. ASSUME NEW x \in Exchanges, TimerFires(x) PROVE TypeOK'
  BY <1>3 DEF TimerFires
<1>4. ASSUME NEW x \in Exchanges, Arrive(x) PROVE TypeOK'
  BY <1>4 DEF Arrive
<1>5. ASSUME NEW x \in Exchanges, NEW ok \in BOOLEAN, Headers(x, ok)
      PROVE  TypeOK'
  BY <1>5 DEF Headers, Answer
<1>6. ASSUME NEW x \in Exchanges, NEW text \in Text, ReadBody(x, text)
      PROVE  TypeOK'
  <2>1. answer' \in [Exchanges -> Answer]
    BY <1>6 DEF ReadBody, Answer
  <2>2. Attempt(answer[x].ok, text) \in Outcome
    BY BodyOfText DEF Answer
  <2>3. Return(x, Attempt(answer[x].ok, text))
    BY <1>6 DEF ReadBody
  <2> QED
    BY <2>1, <2>2, <2>3, ReturnLeaves
<1>7. ASSUME NEW x \in Exchanges, Return(x, Failed), UNCHANGED answer
      PROVE  TypeOK'
  BY <1>7, FailedIsOutcome, ReturnLeaves
<1>8. CASE UNCHANGED vars
  BY <1>8 DEF vars
<1> QED
  BY <1>1, <1>2, <1>3, <1>4, <1>5, <1>6, <1>7, <1>8
     DEF Next, NetworkError, AbortError

LEMMA DispatchInductive == DispatchInv /\ [Next]_vars => DispatchInv'
<1> SUFFICES ASSUME DispatchInv, [Next]_vars PROVE DispatchInv'
  OBVIOUS
<1>0. TypeOK /\ TypeOK'
  BY TypePreserved DEF DispatchInv
<1> DEFINE P(x) == TimerFollows(x) /\ AnswerFollows(x) /\ OutcomeTrue(x)
<1> SUFFICES ASSUME NEW y \in Exchanges PROVE P(y)'
  BY <1>0 DEF DispatchInv
<1>p. P(y)
  BY DEF DispatchInv
<1> USE DEF TypeOK, TimerFollows, AnswerFollows, OutcomeTrue, Open
<1>1. CASE Tick
  BY <1>1, Unmoved DEF Tick
<1>2. ASSUME NEW x \in Exchanges, Dispatch(x) PROVE P(y)'
  BY <1>0, <1>p, <1>2 DEF Dispatch
<1>3. ASSUME NEW x \in Exchanges, TimerFires(x) PROVE P(y)'
  BY <1>0, <1>p, <1>3 DEF TimerFires
<1>4. ASSUME NEW x \in Exchanges, Arrive(x) PROVE P(y)'
  BY <1>4, Unmoved DEF Arrive
<1>5. ASSUME NEW x \in Exchanges, NEW ok \in BOOLEAN, Headers(x, ok)
      PROVE  P(y)'
  <2>1. /\ state[x] = "fetching" /\ timer[x] = "armed" /\ x \in arrived
        /\ answer' = [answer EXCEPT ![x].ok = ok]
        /\ state' = [state EXCEPT ![x] = "reading"]
        /\ UNCHANGED << timer, arrived, outcome >>
    BY <1>5 DEF Headers
  <2>2. CASE y = x
    <3>1. answer[x] = NoAnswer /\ outcome[x] = Failed
      BY <1>p, <2>1, <2>2
    <3>2. answer'[x].text = answer[x].text
      BY <1>0, <2>1 DEF Answer
    <3> QED
      BY <1>0, <2>1, <2>2, <3>1, <3>2, NoAnswerIsAnswer
  <2>3. CASE y # x
    BY <1>0, <2>1, <2>3, Unmoved
  <2> QED
    BY <2>2, <2>3
<1>6. ASSUME NEW x \in Exchanges, NEW text \in Text, ReadBody(x, text)
      PROVE  P(y)'
  <2>1. /\ state[x] = "reading" /\ timer[x] = "armed"
        /\ answer' = [answer EXCEPT ![x].text = text]
        /\ Return(x, Attempt(answer[x].ok, text))
    BY <1>6 DEF ReadBody
  <2>2. answer[x].ok \in BOOLEAN
    BY <1>0 DEF Answer
  <2> DEFINE o == Attempt(answer[x].ok, text)
  <2>3. /\ o \in Outcome /\ o.ok = answer[x].ok
        /\ o.body # NoBody <=> text \in Texts
    BY <2>2, BodyOfText
  <2> HIDE DEF o
  <2>4. /\ state' = [state EXCEPT ![x] = "returned"]
        /\ outcome' = [outcome EXCEPT ![x] = o]
        /\ timer'[x] = "cleared"
        /\ \A z \in Exchanges : z # x => timer'[z] = timer[z]
        /\ arrived' = arrived
    BY <1>0, <2>1, <2>3, ReturnLeaves DEF o
  <2>5. CASE y = x
    <3>1. answer'[x].ok = answer[x].ok /\ answer'[x].text = text
      BY <1>0, <2>1 DEF Answer
    <3>2. text # "unread"
      BY NoAnswerIsAnswer
    <3> QED
      BY <1>0, <2>3, <2>4, <2>5, <3>1, <3>2
  <2>6. CASE y # x
    BY <1>0, <2>1, <2>4, <2>6, Unmoved
  <2> QED
    BY <2>5, <2>6
<1>7. ASSUME NEW x \in Exchanges, Open(x), Return(x, Failed), UNCHANGED answer
      PROVE  P(y)'
  <2>4. /\ state' = [state EXCEPT ![x] = "returned"]
        /\ outcome' = [outcome EXCEPT ![x] = Failed]
        /\ timer'[x] = IF timer[x] = "armed" THEN "cleared" ELSE timer[x]
        /\ \A z \in Exchanges : z # x => timer'[z] = timer[z]
        /\ arrived' = arrived
    BY <1>0, <1>7, FailedIsOutcome, ReturnLeaves
  <2>5. CASE y = x
    <3>1. timer[x] \in {"armed", "fired"} /\ answer[x].text = "unread"
      BY <1>p, <1>7, <2>5, NoAnswerIsAnswer
    <3>2. "unread" \notin Texts
      BY TextsAssumption
    <3> QED
      BY <1>0, <1>7, <2>4, <2>5, <3>1, <3>2, FailedIsOutcome
  <2>6. CASE y # x
    BY <1>0, <1>7, <2>4, <2>6, Unmoved
  <2> QED
    BY <2>5, <2>6
<1>8. CASE UNCHANGED vars
  BY <1>8, Unmoved DEF vars
<1> QED
  BY <1>1, <1>2, <1>3, <1>4, <1>5, <1>6, <1>7, <1>8
     DEF Next, NetworkError, AbortError

(* The types of the dispatcher's state. *)
THEOREM DispatcherTyped == Spec => []TypeOK
<1>1. DispatchInv => TypeOK
  BY DEF DispatchInv
<1> QED
  BY InitDispatch, DispatchInductive, <1>1, PTL DEF Spec

LEMMA DispatchAlways == Spec => []DispatchInv
BY InitDispatch, DispatchInductive, PTL DEF Spec

(* An attempt is ok exactly when a 2xx answer was read to its end before   *)
(* the timer fired (dispatch and readResponseBody).                        *)
THEOREM AttemptsAreTrue == Spec => []OutcomeIsTrue
<1>1. DispatchInv => OutcomeIsTrue
  BY DEF DispatchInv, OutcomeTrue, OutcomeIsTrue
<1> QED
  BY DispatchAlways, <1>1, PTL

(* Every way out of dispatch clears the timer. *)
THEOREM TimersAreCleared == Spec => []NoTimerLeaks
<1>1. DispatchInv => NoTimerLeaks
  BY DEF DispatchInv, TypeOK, TimerFollows, NoTimerLeaks, Open
<1> QED
  BY DispatchAlways, <1>1, PTL

-------------------------------------------------------------------------------
(* The dispatcher takes the steps of CallbackExchange only: what Simulator *)
(* and C2B build on, but for the promise that every exchange ends.         *)
THEOREM DispatcherRefines == Spec => Exchange!Spec
<1> DEFINE phase(x) ==
      IF Open(x) THEN "open" ELSE IF state[x] = "idle" THEN "idle" ELSE "ended"
<1>1. Init => Exchange!Init
  BY DEF Init, Exchange!Init, Open, Failed, Exchange!Failed, NoBody,
         Exchange!NoBody
<1>2. DispatchInv /\ [Next]_vars => [Exchange!Next]_(Exchange!vars)
  <2> SUFFICES ASSUME DispatchInv, [Next]_vars
               PROVE  Exchange!Next \/ UNCHANGED Exchange!vars
    OBVIOUS
  <2>0. TypeOK
    BY DEF DispatchInv
  <2> DEFINE f == [x \in Exchanges |-> phase(x)]
  <2>1. ASSUME UNCHANGED << state, arrived, outcome >>
        PROVE  UNCHANGED Exchange!vars
    BY <2>1 DEF Exchange!vars, Open
  <2>2. ASSUME NEW x \in Exchanges, Dispatch(x)
        PROVE  Exchange!Start(x)
    BY <2>0, <2>2 DEF Dispatch, Exchange!Start, Open, TypeOK
  <2>3. ASSUME NEW x \in Exchanges, Arrive(x)
        PROVE  Exchange!Arrive(x)
    BY <2>0, <2>3 DEF Arrive, Exchange!Arrive, Open, TypeOK
  <2>4. ASSUME NEW x \in Exchanges, NEW ok \in BOOLEAN, Headers(x, ok)
        PROVE  UNCHANGED Exchange!vars
    BY <2>0, <2>4 DEF Headers, Exchange!vars, Open, TypeOK
  <2>5. ASSUME NEW x \in Exchanges, NEW o \in Outcome, Open(x), Return(x, o),
               o # Failed => x \in arrived
        PROVE  Exchange!EndSomehow(x)
    <3>1. o \in Exchange!Outcome /\ Exchange!Failed = Failed
      BY DEF Outcome, Exchange!Outcome, NoBody, Exchange!NoBody, Failed,
             Exchange!Failed
    <3>2. Exchange!End(x, o)
      BY <2>0, <2>5, <3>1 DEF Return, Exchange!End, Open, TypeOK
    <3> QED
      BY <3>1, <3>2 DEF Exchange!EndSomehow
  <2>6. ASSUME NEW x \in Exchanges, NEW text \in Text, ReadBody(x, text)
        PROVE  Exchange!EndSomehow(x)
    <3>1. /\ Open(x) /\ x \in arrived
          /\ Return(x, Attempt(answer[x].ok, text))
      BY <2>6 DEF ReadBody, Open, DispatchInv, AnswerFollows
    <3>2. Attempt(answer[x].ok, text) \in Outcome
      BY <2>0, BodyOfText DEF TypeOK, Answer
    <3> QED
      BY <2>5, <3>1, <3>2
  <2>7. ASSUME NEW x \in Exchanges, NetworkError(x) \/ AbortError(x)
        PROVE  Exchange!EndSomehow(x)
    BY <2>5, <2>7, FailedIsOutcome DEF NetworkError, AbortError
  <2>8. ASSUME Tick \/ \E x \in Exchanges : TimerFires(x)
        PROVE  UNCHANGED Exchange!vars
    BY <2>1, <2>8 DEF Tick, TimerFires
  <2>9. CASE UNCHANGED vars
    BY <2>1, <2>9 DEF vars
  <2> QED
    BY <2>2, <2>3, <2>4, <2>6, <2>7, <2>8, <2>9 DEF Next, Exchange!Next
<1> QED
  BY DispatchAlways, <1>1, <1>2, PTL DEF Spec, Exchange!Spec

(* Whoever looks at nothing but `ok`, as Simulator does, may take every    *)
(* exchange for one without a body.                                        *)
Bodiless ==
  INSTANCE CallbackExchange WITH
    Bodies  <- {},
    phase   <- [x \in Exchanges |->
                  IF Open(x) THEN "open"
                  ELSE IF state[x] = "idle" THEN "idle" ELSE "ended"],
    outcome <- [x \in Exchanges |-> [ok |-> outcome[x].ok, body |-> NoBody]]

(* The dispatcher also takes the steps of the exchange Simulator uses: one *)
(* whose bodies are forgotten.                                             *)
THEOREM DispatcherRefinesBodiless == Spec => Bodiless!Spec
<1> DEFINE forget(o) == [ok |-> o.ok, body |-> NoBody]
<1>0. Bodiless!Failed = Failed /\ forget(Failed) = Failed
  BY DEF Failed, Bodiless!Failed, NoBody, Bodiless!NoBody
<1>1. Exchange!Init => Bodiless!Init
  BY <1>0 DEF Exchange!Init, Bodiless!Init, Exchange!Failed, Exchange!NoBody,
              Bodiless!NoBody, Bodiless!Failed
<1>2. ASSUME TypeOK, [Exchange!Next]_(Exchange!vars)
      PROVE  [Bodiless!Next]_(Bodiless!vars)
  <2>1. CASE UNCHANGED Exchange!vars
    BY <2>1 DEF Exchange!vars, Bodiless!vars
  <2>2. ASSUME NEW x \in Exchanges, Exchange!Start(x)
        PROVE  Bodiless!Start(x)
    BY <2>2 DEF Exchange!Start, Bodiless!Start
  <2>3. ASSUME NEW x \in Exchanges, Exchange!Arrive(x)
        PROVE  Bodiless!Arrive(x)
    BY <2>3 DEF Exchange!Arrive, Bodiless!Arrive
  <2>4. ASSUME NEW x \in Exchanges, NEW o \in Exchange!Outcome,
               Exchange!End(x, o)
        PROVE  Bodiless!EndSomehow(x)
    <3>1. forget(o) \in Bodiless!Outcome
      BY DEF Exchange!Outcome, Bodiless!Outcome, NoBody, Bodiless!NoBody
    <3>2. forget(o) # Bodiless!Failed => o # Exchange!Failed
      BY <1>0 DEF Exchange!Failed, Exchange!NoBody, Failed, NoBody
    <3>3. outcome' = [outcome EXCEPT ![x] = o]
      BY <2>4 DEF Exchange!End
    <3>4. [y \in Exchanges |-> forget(outcome'[y])] =
            [[y \in Exchanges |-> forget(outcome[y])] EXCEPT ![x] = forget(o)]
      BY <1>2, <3>3 DEF TypeOK
    <3>5. Bodiless!End(x, forget(o))
      BY <2>4, <3>2, <3>4 DEF Exchange!End, Bodiless!End
    <3> QED
      BY <3>1, <3>5 DEF Bodiless!EndSomehow
  <2> QED
    BY <1>2, <2>1, <2>2, <2>3, <2>4
       DEF Exchange!Next, Exchange!EndSomehow, Bodiless!Next
<1> QED
  BY <1>1, <1>2, DispatcherRefines, DispatcherTyped, PTL
     DEF Exchange!Spec, Bodiless!Spec

===============================================================================
