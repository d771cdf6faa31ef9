----------------------------- MODULE MCRecovery -----------------------------
(***************************************************************************)
(* Two components in which something must happen in the end, each in a     *)
(* behaviour of its own: the circuit breaker and the greylist.             *)
(***************************************************************************)
EXTENDS CircuitBreaker, Greylist

CONSTANTS c1, c2, g1, g2

VARIABLE part

RecoveryInit == Init /\ GreyInit /\ part \in {"breaker", "greylist"}

BreakerPart == part = "breaker" /\ Next /\ UNCHANGED <<part, greyVars>>
GreyPart == part = "greylist" /\ GreyNext /\ UNCHANGED <<part, vars>>

RecoveryNext == BreakerPart \/ GreyPart

(* Each component's fairness, in the behaviours that are about it: the breaker's
   as CircuitBreaker states it; attempts, Check's statements and time in the
   greylist.                                                                 *)
RecoveryFairness ==
  /\ \A c \in Callers :
       /\ SF_vars(part = "breaker" /\ BeforeRequest(c))
       /\ WF_vars(part = "breaker" /\ Step(c))
       /\ WF_vars(part = "breaker" /\ CallAgain(c))
  /\ WF_vars(part = "breaker" /\ TimeoutElapses)
  /\ \A g \in GreySessions :
       /\ WF_greyVars(part = "greylist" /\ Check(g))
       /\ WF_greyVars(part = "greylist" /\ CheckStep(g))
  /\ WF_greyVars(part = "greylist" /\ GreyTick)

recoveryVars == <<part, vars, greyVars>>

RecoverySpec == RecoveryInit /\ [][RecoveryNext]_recoveryVars /\ RecoveryFairness

=============================================================================
