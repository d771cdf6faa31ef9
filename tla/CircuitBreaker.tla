--------------------------- MODULE CircuitBreaker ---------------------------
(***************************************************************************)
(* internal/resilience/circuitbreaker.go: one breaker, called by several   *)
(* goroutines at once.  Its fields are read and written with atomic        *)
(* operations; only transitionTo takes the mutex, and readers do not.  A   *)
(* step of the model is one atomic operation, so whatever a goroutine has  *)
(* loaded may be stale when it acts on it.                                 *)
(*                                                                         *)
(* Time is abstract: `elapsed' says that Timeout has passed since          *)
(* lastFailureTime.                                                        *)
(***************************************************************************)
EXTENDS Integers, FiniteSets

CONSTANTS
  Callers,            \* goroutines that call Execute
  FailureThreshold,
  SuccessThreshold,
  HalfOpenMaxCalls,
  NoCaller            \* the mutex is free

ASSUME BreakerAssumption ==
  /\ FailureThreshold \in Nat \ {0}
  /\ SuccessThreshold \in Nat \ {0}
  /\ HalfOpenMaxCalls \in Nat \ {0}
  /\ NoCaller \notin Callers /\ IsFiniteSet(Callers)

States == {"closed", "open", "half-open"}

VARIABLES
  state, failureCount, successCount, halfOpenCalls,   \* fields of CircuitBreaker
  elapsed,    \* time.Since(lastFailureTime) >= Timeout
  since,      \* callers that have not finished what they did at lastFailureTime
  mu,         \* the goroutine that holds the mutex
  pc,         \* where each caller is
  failed,     \* the result of the call that a caller is recording: isFailure
  target,     \* the newState a caller passes to transitionTo
  remote      \* what the callers' functions talk to: up, down, or anything

counters == <<failureCount, successCount, halfOpenCalls>>
fields == <<state, counters, elapsed>>
vars == <<fields, since, mu, pc, failed, target, remote>>

(* Where a caller may spend a long time: outside Execute, and in its function. *)
Long == {"idle", "run", "refused"}
Places == Long \union
          {"timeout", "admit", "reject", "after",
           "countFailure", "stampClosed", "release", "stampHalfOpen", "countSuccess",
           "stampOpen", "lock", "resetSuccess", "resetCalls", "store"}

TypeOK ==
  /\ state \in States
  /\ failureCount \in Nat
  /\ successCount \in Nat
  /\ halfOpenCalls \in Int
  /\ elapsed \in BOOLEAN
  /\ since \subseteq Callers
  /\ mu \in Callers \union {NoCaller}
  /\ pc \in [Callers -> Places]
  /\ failed \in [Callers -> BOOLEAN]
  /\ target \in [Callers -> States]
  /\ remote \in {"up", "down", "flaky"}

Init ==
  /\ state = "closed"
  /\ failureCount = 0
  /\ successCount = 0
  /\ halfOpenCalls = 0
  /\ elapsed = FALSE
  /\ since = {}
  /\ mu = NoCaller
  /\ pc = [c \in Callers |-> "idle"]
  /\ failed = [c \in Callers |-> FALSE]
  /\ target = [c \in Callers |-> "closed"]
  /\ remote = "flaky"

(* Control moves on. *)
Goto(c, place) ==
  /\ pc' = [pc EXCEPT ![c] = place]
  /\ since' = IF place \in Long THEN since \ {c} ELSE since

(* StoreInt64(&lastFailureTime, now), and control moves on. *)
StampGoto(c, place) ==
  /\ elapsed' = FALSE
  /\ pc' = [pc EXCEPT ![c] = place]
  /\ since' = {d \in Callers : pc'[d] \notin Long}

(* The call transitionTo(newState): the argument. *)
Target(c, newState) == target' = [target EXCEPT ![c] = newState]

-----------------------------------------------------------------------------
(* beforeRequest: the load of the state, and its three cases.                *)

BeforeRequest(c) ==
  /\ pc[c] = "idle"
  /\ Goto(c, CASE state = "closed" -> "run"
               [] state = "open" -> "timeout"
               [] state = "half-open" -> "admit")
  /\ UNCHANGED <<fields, mu, failed, target, remote>>

(* Open: before the timeout, ErrCircuitOpen; after it, to half-open. *)
CheckTimeout(c) ==
  /\ pc[c] = "timeout"
  /\ \/ elapsed /\ Goto(c, "lock") /\ Target(c, "half-open")
     \/ ~elapsed /\ Goto(c, "refused") /\ UNCHANGED target
  /\ UNCHANGED <<fields, mu, failed, remote>>

(* Half-open: AddInt64(&halfOpenCalls, 1) and the comparison of its result. *)
HalfOpenAdmit(c) ==
  /\ pc[c] = "admit"
  /\ halfOpenCalls' = halfOpenCalls + 1
  /\ Goto(c, IF halfOpenCalls' > HalfOpenMaxCalls THEN "reject" ELSE "run")
  /\ UNCHANGED <<state, failureCount, successCount, elapsed, mu, failed, target, remote>>

(* Fault: a refused call keeps its slot. *)
HalfOpenRejectKeeps(c) ==
  /\ pc[c] = "reject"
  /\ Goto(c, "refused")
  /\ UNCHANGED <<fields, mu, failed, target, remote>>

HalfOpenReject(c) ==
  /\ pc[c] = "reject"
  /\ halfOpenCalls' = halfOpenCalls - 1
  /\ Goto(c, "refused")
  /\ UNCHANGED <<state, failureCount, successCount, elapsed, mu, failed, target, remote>>

-----------------------------------------------------------------------------
(* Execute: the function returns, panics, is cancelled or times out.         *)

Run(c) ==
  /\ pc[c] = "run"
  /\ \E isFailure \in CASE remote = "up" -> {FALSE}
                        [] remote = "down" -> {TRUE}
                        [] remote = "flaky" -> BOOLEAN :
       failed' = [failed EXCEPT ![c] = isFailure]
  /\ Goto(c, "after")
  /\ UNCHANGED <<fields, mu, target, remote>>

-----------------------------------------------------------------------------
(* afterRequest: the load of the state, and its three cases.                 *)

AfterRequest(c) ==
  /\ pc[c] = "after"
  /\ Goto(c, CASE state = "closed" -> "countFailure"
               [] state = "half-open" -> "release"
               [] state = "open" -> IF failed[c] THEN "stampOpen" ELSE "idle")
  /\ UNCHANGED <<fields, mu, failed, target, remote>>

(* Fault: a success takes one failure back. *)
CountFailureDecays(c) ==
  /\ pc[c] = "countFailure"
  /\ \/ /\ failed[c]
        /\ failureCount' = failureCount + 1
        /\ Target(c, IF failureCount' >= FailureThreshold THEN "open" ELSE "closed")
        /\ Goto(c, "stampClosed")
     \/ /\ ~failed[c]
        /\ failureCount' = failureCount - 1
        /\ Goto(c, "idle")
        /\ UNCHANGED target
  /\ UNCHANGED <<state, successCount, halfOpenCalls, elapsed, mu, failed, remote>>

(* Fault: the threshold itself does not open the breaker. *)
CountFailureBeyond(c) ==
  /\ pc[c] = "countFailure"
  /\ \/ /\ failed[c]
        /\ failureCount' = failureCount + 1
        /\ Target(c, IF failureCount' > FailureThreshold THEN "open" ELSE "closed")
        /\ Goto(c, "stampClosed")
     \/ /\ ~failed[c]
        /\ failureCount' = 0
        /\ Goto(c, "idle")
        /\ UNCHANGED target
  /\ UNCHANGED <<state, successCount, halfOpenCalls, elapsed, mu, failed, remote>>

(* The closed state: a failure is counted, a success stores a zero count. *)
CountFailure(c) ==
  /\ pc[c] = "countFailure"
  /\ \/ /\ failed[c]
        /\ failureCount' = failureCount + 1
        /\ Target(c, IF failureCount' >= FailureThreshold THEN "open" ELSE "closed")
        /\ Goto(c, "stampClosed")
     \/ /\ ~failed[c]
        /\ failureCount' = 0
        /\ Goto(c, "idle")
        /\ UNCHANGED target
  /\ UNCHANGED <<state, successCount, halfOpenCalls, elapsed, mu, failed, remote>>

(* Then the comparison of the count, whose result `target' has kept. *)
StampClosed(c) ==
  /\ pc[c] = "stampClosed"
  /\ StampGoto(c, IF target[c] = "open" THEN "lock" ELSE "idle")
  /\ UNCHANGED <<state, counters, mu, failed, target, remote>>

(* Fault: the slot is kept. *)
ReleaseKeeps(c) ==
  /\ pc[c] = "release"
  /\ Goto(c, IF failed[c] THEN "stampHalfOpen" ELSE "countSuccess")
  /\ UNCHANGED <<fields, mu, failed, target, remote>>

(* Half-open: the slot is given back, whoever took one. *)
Release(c) ==
  /\ pc[c] = "release"
  /\ halfOpenCalls' = halfOpenCalls - 1
  /\ Goto(c, IF failed[c] THEN "stampHalfOpen" ELSE "countSuccess")
  /\ UNCHANGED <<state, failureCount, successCount, elapsed, mu, failed, target, remote>>

(* Fault: a failure in the half-open state does not open the breaker. *)
StampHalfOpenStays(c) ==
  /\ pc[c] = "stampHalfOpen"
  /\ StampGoto(c, "idle")
  /\ UNCHANGED <<state, counters, mu, failed, target, remote>>

StampHalfOpen(c) ==
  /\ pc[c] = "stampHalfOpen"
  /\ StampGoto(c, "lock")
  /\ Target(c, "open")
  /\ UNCHANGED <<state, counters, mu, failed, remote>>

CountSuccess(c) ==
  /\ pc[c] = "countSuccess"
  /\ successCount' = successCount + 1
  /\ \/ successCount' >= SuccessThreshold /\ Goto(c, "lock") /\ Target(c, "closed")
     \/ successCount' < SuccessThreshold /\ Goto(c, "idle") /\ UNCHANGED target
  /\ UNCHANGED <<state, failureCount, halfOpenCalls, elapsed, mu, failed, remote>>

StampOpen(c) ==
  /\ pc[c] = "stampOpen"
  /\ StampGoto(c, "idle")
  /\ UNCHANGED <<state, counters, mu, failed, target, remote>>

-----------------------------------------------------------------------------
(* transitionTo: the caller goes on with its function after a transition to
   half-open, which beforeRequest makes, and is done after the others.       *)

AfterTransition(c) == Goto(c, IF target[c] = "half-open" THEN "run" ELSE "idle")

(* The mutex is taken; when the state is the new one already it is released
   again, otherwise the first counter is reset.                              *)
TransitionLock(c) ==
  /\ pc[c] = "lock"
  /\ mu = NoCaller
  /\ \/ /\ state = target[c]
        /\ AfterTransition(c)
        /\ UNCHANGED <<failureCount, mu>>
     \/ /\ state # target[c]
        /\ mu' = c
        /\ failureCount' = 0
        /\ Goto(c, "resetSuccess")
  /\ UNCHANGED <<state, successCount, halfOpenCalls, elapsed, failed, target, remote>>

ResetSuccess(c) ==
  /\ pc[c] = "resetSuccess"
  /\ successCount' = 0
  /\ Goto(c, "resetCalls")
  /\ UNCHANGED <<state, failureCount, halfOpenCalls, elapsed, mu, failed, target, remote>>

ResetCalls(c) ==
  /\ pc[c] = "resetCalls"
  /\ halfOpenCalls' = 0
  /\ Goto(c, "store")
  /\ UNCHANGED <<state, failureCount, successCount, elapsed, mu, failed, target, remote>>

StoreState(c) ==
  /\ pc[c] = "store"
  /\ state' = target[c]
  /\ mu' = NoCaller
  /\ AfterTransition(c)
  /\ UNCHANGED <<counters, elapsed, failed, target, remote>>

(* Reset: transitionTo(StateClosed), by a goroutine outside Execute. *)
Reset(c) ==
  /\ pc[c] = "idle"
  /\ Goto(c, "lock")
  /\ Target(c, "closed")
  /\ UNCHANGED <<fields, mu, failed, remote>>

(* After ErrCircuitOpen a caller waits before it calls again (Retry: 5 minutes
   at least), longer than another caller's increment of halfOpenCalls that is
   taken back at once.                                                       *)
CallAgain(c) ==
  /\ pc[c] = "refused"
  /\ \A d \in Callers : pc[d] # "reject"
  /\ Goto(c, "idle")
  /\ UNCHANGED <<fields, mu, failed, target, remote>>

(* A caller inside Execute. *)
Step(c) ==
  \/ CheckTimeout(c) \/ HalfOpenAdmit(c) \/ HalfOpenReject(c) \/ Run(c)
  \/ AfterRequest(c) \/ CountFailure(c) \/ StampClosed(c)
  \/ Release(c) \/ StampHalfOpen(c) \/ CountSuccess(c) \/ StampOpen(c)
  \/ TransitionLock(c) \/ ResetSuccess(c) \/ ResetCalls(c) \/ StoreState(c)

-----------------------------------------------------------------------------
(* Timeout (5 minutes in the delivery engine) passes after lastFailureTime.  The
   instructions of beforeRequest and afterRequest take far less, so what the
   callers were doing between them at lastFailureTime they have finished.    *)
TimeoutElapses ==
  /\ ~elapsed
  /\ since = {}
  /\ elapsed' = TRUE
  /\ UNCHANGED <<state, counters, since, mu, pc, failed, target, remote>>

RemoteChanges ==
  /\ remote' \in {"up", "down", "flaky"}
  /\ remote' # remote
  /\ UNCHANGED <<fields, since, mu, pc, failed, target>>

Next ==
  \/ \E c \in Callers : BeforeRequest(c) \/ Step(c) \/ Reset(c) \/ CallAgain(c)
  \/ TimeoutElapses
  \/ RemoteChanges

Spec == Init /\ [][Next]_vars

(* Goroutines run, functions return (ExecutionTimeout), time passes, and there
   are always more calls to make.                                            *)
Fairness ==
  /\ \A c \in Callers : SF_vars(BeforeRequest(c)) /\ WF_vars(Step(c)) /\ WF_vars(CallAgain(c))
  /\ WF_vars(TimeoutElapses)

FairSpec == Spec /\ Fairness

-----------------------------------------------------------------------------
(* Properties.                                                               *)

AtRest == \A c \in Callers : pc[c] \in {"idle", "refused"}

(* Slots of the half-open state may leak, as transitions reset the counter while
   calls hold slots and calls take slots of a state that has passed; the last one
   never does: a breaker at rest in the half-open state admits the next call.  *)
SlotLeft == AtRest /\ state = "half-open" => halfOpenCalls < HalfOpenMaxCalls

(* No transition is lost: a breaker at rest is not closed with the failures
   that should have opened it, nor half-open with the successes that should
   have closed it, however counting, reset and state store interleave.       *)
NoLostTransition ==
  AtRest =>
          /\ state = "closed" => failureCount < FailureThreshold
          /\ state = "half-open" => successCount < SuccessThreshold

(* Once the remote side stays up the breaker closes for good, from whatever
   state the races left it in.                                               *)
RecoversWhenUp == <>[](remote = "up") => <>[](state = "closed")

(* While the remote side stays down the breaker is open again and again. *)
OpensWhenDown == <>[](remote = "down") => []<>(state = "open")
=============================================================================
