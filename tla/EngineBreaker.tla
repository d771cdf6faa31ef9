---------------------------- MODULE EngineBreaker ----------------------------
(***************************************************************************)
(* A domain's circuit breaker as Engine.deliverMessage uses it: a worker   *)
(* looks at State() first and defers the message when the breaker is open; *)
(* only otherwise does it call Execute, with beforeRequest's own check.    *)
(***************************************************************************)
EXTENDS CircuitBreaker

VARIABLES
  checked    \* workers that have seen State() # StateOpen and will call Execute

engineVars == <<vars, checked>>

EngineInit == Init /\ checked = {}

(* deliverMessage: State() is not open. *)
StateAllows(c) ==
  /\ pc[c] = "idle"
  /\ c \notin checked
  /\ state # "open"
  /\ checked' = checked \union {c}
  /\ UNCHANGED vars

(* deliverMessage: State() is open, Retry defers the message. *)
Defer(c) ==
  /\ pc[c] = "idle"
  /\ c \notin checked
  /\ state = "open"
  /\ Goto(c, "refused")
  /\ UNCHANGED <<fields, mu, failed, target, remote, checked>>

Execute(c) ==
  /\ c \in checked
  /\ BeforeRequest(c)
  /\ checked' = checked \ {c}

InExecute(c) == (Step(c) \/ CallAgain(c)) /\ UNCHANGED checked

(* The timeout is not spent between State() and Execute either. *)
EngineTimeoutElapses ==
  /\ checked = {}
  /\ TimeoutElapses
  /\ UNCHANGED checked

EngineNext ==
  \/ \E c \in Callers : StateAllows(c) \/ Defer(c) \/ Execute(c) \/ InExecute(c)
  \/ EngineTimeoutElapses
  \/ RemoteChanges /\ UNCHANGED checked

EngineSpec == EngineInit /\ [][EngineNext]_engineVars

(* Workers run, deliveries end, time passes, and there is always more mail. *)
EngineFairSpec ==
  /\ EngineSpec
  /\ \A c \in Callers : /\ WF_engineVars(StateAllows(c) \/ Defer(c) \/ Execute(c))
                        /\ WF_engineVars(InExecute(c))
  /\ WF_engineVars(EngineTimeoutElapses)

(* "5 minutes -> circuit half-opens (try one)": an open breaker does not stay
   open for ever while there is mail for its domain.                         *)
HalfOpensAgain == state = "open" ~> state = "half-open"

(* An open breaker that nobody has asked yet: no worker is between State() and
   the end of beforeRequest, or on its way to another transition.            *)
LeftOpen ==
  /\ state = "open"
  /\ checked = {}
  /\ \A c \in Callers : pc[c] \in Long \union {"after", "stampOpen"}
=============================================================================
