------------------------ MODULE CircuitBreaker_proofs ------------------------
(***************************************************************************)
(* Type correctness of the circuit breaker, that no transition is lost and *)
(* that a slot is left in the half-open state, for any number of callers   *)
(* and any thresholds; the same of the breaker as the delivery engine uses *)
(* it, and that the engine never takes it out of the open state.           *)
(***************************************************************************)
EXTENDS EngineBreaker, FiniteSetTheorems, TLAPS

(* The places between Lock and Unlock in transitionTo. *)
Locked == {"resetSuccess", "resetCalls", "store"}

(* The mutex belongs to the caller that is inside transitionTo. *)
MutexHeld == \A c \in Callers : pc[c] \in Locked <=> mu = c

Opener(c) == pc[c] \in {"stampClosed", "lock"} /\ target[c] = "open"
Closer(c) == pc[c] = "lock" /\ target[c] = "closed"

(* Enough failures: some caller is on its way to open the breaker, or found it
   open.                                                                     *)
FailuresSeen ==
  failureCount >= FailureThreshold
    => (mu = NoCaller /\ state = "open") \/ \E c \in Callers : Opener(c)

(* Enough successes: some caller is on its way to close the breaker, or found it
   closed, or the count is about to be reset.                                *)
SuccessesSeen ==
  successCount >= SuccessThreshold
    => \/ mu = NoCaller /\ state = "closed"
       \/ \E c \in Callers : Closer(c) \/ pc[c] = "resetSuccess"

Inductive == TypeOK /\ MutexHeld /\ FailuresSeen /\ SuccessesSeen

-----------------------------------------------------------------------------
LEMMA InductiveInit == Init => Inductive
<1> SUFFICES ASSUME Init
             PROVE  Inductive
  OBVIOUS
<1> USE BreakerAssumption DEF Init
<1>1. TypeOK
  <2>1. failed \in [Callers -> BOOLEAN] /\ elapsed \in BOOLEAN
    BY Zenon
  <2> QED BY <2>1 DEF TypeOK, States, Places, Long
<1>2. MutexHeld
  BY DEF MutexHeld, Locked
<1>3. FailuresSeen /\ SuccessesSeen
  BY DEF FailuresSeen, SuccessesSeen
<1> QED BY <1>1, <1>2, <1>3 DEF Inductive

(* The caller steps that write none of the counters and do not hold the mutex:
   control moves from `from' to `to', outside transitionTo.                  *)
LEMMA QuietStep ==
  ASSUME Inductive, NEW c \in Callers, NEW to \in Places \ Locked,
         pc[c] \notin Locked,
         ~Opener(c), ~Closer(c),
         pc' = [pc EXCEPT ![c] = to],
         target' \in [Callers -> States], \A d \in Callers \ {c} : target'[d] = target[d],
         UNCHANGED <<state, failureCount, successCount, mu>>
  PROVE  MutexHeld' /\ FailuresSeen' /\ SuccessesSeen'
<1>t. pc \in [Callers -> Places] /\ NoCaller \notin Callers
  BY BreakerAssumption DEF Inductive, TypeOK
<1>1. MutexHeld'
  BY <1>t DEF Inductive, MutexHeld, Locked
<1>2. FailuresSeen'
  <2>1. ASSUME NEW d \in Callers, Opener(d)
        PROVE  Opener(d)'
    BY <1>t, <2>1 DEF Opener
  <2> QED BY <2>1 DEF Inductive, FailuresSeen
<1>3. SuccessesSeen'
  <2>1. ASSUME NEW d \in Callers, Closer(d) \/ pc[d] = "resetSuccess"
        PROVE  Closer(d)' \/ pc'[d] = "resetSuccess"
    BY <1>t, <2>1 DEF Closer, Locked
  <2> QED BY <2>1 DEF Inductive, SuccessesSeen
<1> QED BY <1>1, <1>2, <1>3

(* Every step keeps the types. *)
LEMMA TypeStep == TypeOK /\ [Next]_vars => TypeOK'
<1> SUFFICES ASSUME TypeOK, [Next]_vars
             PROVE  TypeOK'
  OBVIOUS
<1> USE BreakerAssumption DEF TypeOK, Goto, StampGoto, Target, fields, counters, States, Places, Long
<1>1. CASE UNCHANGED vars
  BY <1>1 DEF vars
<1>2. CASE TimeoutElapses \/ RemoteChanges
  BY <1>2 DEF TimeoutElapses, RemoteChanges
<1>3. ASSUME NEW c \in Callers, BeforeRequest(c) \/ Reset(c) \/ CallAgain(c)
      PROVE  TypeOK'
  BY <1>3 DEF BeforeRequest, Reset, CallAgain
<1>4. ASSUME NEW c \in Callers,
             CheckTimeout(c) \/ HalfOpenAdmit(c) \/ HalfOpenReject(c)
      PROVE  TypeOK'
  BY <1>4 DEF CheckTimeout, HalfOpenAdmit, HalfOpenReject
<1>5. ASSUME NEW c \in Callers, Run(c) \/ AfterRequest(c)
      PROVE  TypeOK'
  BY <1>5 DEF Run, AfterRequest
<1>6. ASSUME NEW c \in Callers, CountFailure(c) \/ Release(c) \/ CountSuccess(c)
      PROVE  TypeOK'
  <2>1. CASE CountFailure(c)
    BY <2>1 DEF CountFailure
  <2>2. CASE Release(c)
    BY <2>2 DEF Release
  <2>3. CASE CountSuccess(c)
    BY <2>3 DEF CountSuccess
  <2> QED BY <1>6, <2>1, <2>2, <2>3
<1>7. ASSUME NEW c \in Callers, StampClosed(c) \/ StampHalfOpen(c) \/ StampOpen(c)
      PROVE  TypeOK'
  <2>1. CASE StampClosed(c)
    BY <2>1 DEF StampClosed
  <2>2. CASE StampHalfOpen(c)
    BY <2>2 DEF StampHalfOpen
  <2>3. CASE StampOpen(c)
    BY <2>3 DEF StampOpen
  <2> QED BY <1>7, <2>1, <2>2, <2>3
<1>8. ASSUME NEW c \in Callers,
             TransitionLock(c) \/ ResetSuccess(c) \/ ResetCalls(c) \/ StoreState(c)
      PROVE  TypeOK'
  BY <1>8 DEF TransitionLock, ResetSuccess, ResetCalls, StoreState, AfterTransition
<1> QED BY <1>1, <1>2, <1>3, <1>4, <1>5, <1>6, <1>7, <1>8 DEF Next, Step

LEMMA InductiveStep == Inductive /\ [Next]_vars => Inductive'
<1> SUFFICES ASSUME Inductive, [Next]_vars
             PROVE  Inductive'
  OBVIOUS
<1>0. TypeOK'
  BY TypeStep DEF Inductive
<1>t. /\ pc \in [Callers -> Places] /\ target \in [Callers -> States]
      /\ mu \in Callers \union {NoCaller} /\ NoCaller \notin Callers
      /\ failureCount \in Nat /\ successCount \in Nat
      /\ FailureThreshold \in Nat \ {0} /\ SuccessThreshold \in Nat \ {0}
  BY BreakerAssumption DEF Inductive, TypeOK
<1>u. target' \in [Callers -> States]
  BY <1>0 DEF TypeOK
<1> DEFINE Rest == MutexHeld' /\ FailuresSeen' /\ SuccessesSeen'
<1>1. ASSUME UNCHANGED <<state, failureCount, successCount, mu, pc, target>>
      PROVE  Rest
  BY <1>1 DEF Inductive, MutexHeld, FailuresSeen, SuccessesSeen, Opener, Closer
<1>2. ASSUME TimeoutElapses \/ RemoteChanges \/ UNCHANGED vars
      PROVE  Rest
  BY <1>1, <1>2 DEF TimeoutElapses, RemoteChanges, vars, fields, counters
<1>3. ASSUME NEW c \in Callers,
             \/ BeforeRequest(c) \/ Reset(c) \/ CallAgain(c) \/ CheckTimeout(c)
             \/ HalfOpenAdmit(c) \/ HalfOpenReject(c) \/ Run(c) \/ AfterRequest(c)
             \/ Release(c) \/ StampHalfOpen(c) \/ StampOpen(c)
      PROVE  Rest
  <2> DEFINE Quiet == /\ pc[c] \notin Locked \union {"stampClosed", "lock"}
                      /\ \E to \in Places \ Locked : pc' = [pc EXCEPT ![c] = to]
                      /\ \A d \in Callers \ {c} : target'[d] = target[d]
                      /\ UNCHANGED <<state, failureCount, successCount, mu>>
  <2> USE <1>t DEF Goto, StampGoto, Target, fields, counters, Locked, Places, Long
  <2>1. BeforeRequest(c) => Quiet
    BY DEF BeforeRequest, Inductive, TypeOK, States
  <2>2. (Reset(c) \/ CallAgain(c)) => Quiet
    BY DEF Reset, CallAgain
  <2>3. CheckTimeout(c) => Quiet
    BY DEF CheckTimeout
  <2>4. (HalfOpenAdmit(c) \/ HalfOpenReject(c)) => Quiet
    BY DEF HalfOpenAdmit, HalfOpenReject
  <2>5. Run(c) => Quiet
    BY DEF Run
  <2>6. AfterRequest(c) => Quiet
    BY DEF AfterRequest, Inductive, TypeOK, States
  <2>7. Release(c) => Quiet
    BY DEF Release
  <2>8. (StampHalfOpen(c) \/ StampOpen(c)) => Quiet
    BY DEF StampHalfOpen, StampOpen
  <2>9. Quiet
    BY <1>3, <2>1, <2>2, <2>3, <2>4, <2>5, <2>6, <2>7, <2>8
  <2> QED BY <1>u, <2>9, QuietStep DEF Opener, Closer
<1>4. ASSUME NEW c \in Callers, CountFailure(c)
      PROVE  Rest
  <2>1. /\ pc[c] = "countFailure"
        /\ UNCHANGED <<state, successCount, mu>>
        /\ \A d \in Callers \ {c} : pc'[d] = pc[d] /\ target'[d] = target[d]
        /\ pc'[c] \in {"stampClosed", "idle"}
    BY <1>4, <1>t DEF CountFailure, Goto, Target
  <2>2. MutexHeld'
    BY <2>1, <1>t DEF Inductive, MutexHeld, Locked
  <2>3. FailuresSeen'
    <3>1. CASE failureCount' >= FailureThreshold
      <4>1. pc'[c] = "stampClosed" /\ target'[c] = "open"
        BY <1>4, <1>t, <3>1 DEF CountFailure, Goto, Target
      <4> QED BY <4>1 DEF FailuresSeen, Opener
    <3> QED BY <3>1 DEF FailuresSeen
  <2>4. SuccessesSeen'
    BY <2>1 DEF Inductive, SuccessesSeen, Closer
  <2> QED BY <2>2, <2>3, <2>4
<1>5. ASSUME NEW c \in Callers, StampClosed(c)
      PROVE  Rest
  <2>1. /\ pc[c] = "stampClosed"
        /\ UNCHANGED <<state, failureCount, successCount, mu, target>>
        /\ \A d \in Callers \ {c} : pc'[d] = pc[d]
        /\ pc'[c] = IF target[c] = "open" THEN "lock" ELSE "idle"
    BY <1>5, <1>t DEF StampClosed, StampGoto, counters
  <2>2. MutexHeld'
    BY <2>1, <1>t DEF Inductive, MutexHeld, Locked
  <2>3. FailuresSeen' /\ SuccessesSeen'
    BY <2>1 DEF Inductive, FailuresSeen, SuccessesSeen, Opener, Closer
  <2> QED BY <2>2, <2>3
<1>6. ASSUME NEW c \in Callers, CountSuccess(c)
      PROVE  Rest
  <2>1. /\ pc[c] = "countSuccess"
        /\ UNCHANGED <<state, failureCount, mu>>
        /\ \A d \in Callers \ {c} : pc'[d] = pc[d] /\ target'[d] = target[d]
        /\ pc'[c] \in {"lock", "idle"}
    BY <1>6, <1>t DEF CountSuccess, Goto, Target
  <2>2. MutexHeld'
    BY <2>1, <1>t DEF Inductive, MutexHeld, Locked
  <2>3. FailuresSeen'
    BY <2>1 DEF Inductive, FailuresSeen, Opener
  <2>4. SuccessesSeen'
    <3>1. CASE successCount' >= SuccessThreshold
      <4>1. successCount' \in Nat
        BY <1>6, <1>t DEF CountSuccess
      <4>2. pc'[c] = "lock" /\ target'[c] = "closed"
        BY <1>6, <1>t, <3>1, <4>1 DEF CountSuccess, Goto, Target
      <4> QED BY <4>2 DEF SuccessesSeen, Closer
    <3> QED BY <3>1 DEF SuccessesSeen
  <2> QED BY <2>2, <2>3, <2>4
<1>7. ASSUME NEW c \in Callers, TransitionLock(c)
      PROVE  Rest
  <2>1. /\ pc[c] = "lock" /\ mu = NoCaller
        /\ UNCHANGED <<state, successCount, target>>
        /\ \A d \in Callers \ {c} : pc'[d] = pc[d]
    BY <1>7, <1>t DEF TransitionLock, AfterTransition, Goto
  <2>2. CASE state = target[c]
    <3>1. pc'[c] \in {"run", "idle"} /\ UNCHANGED <<failureCount, mu>>
      BY <1>7, <1>t, <2>2 DEF TransitionLock, AfterTransition, Goto
    <3>2. MutexHeld'
      BY <2>1, <3>1, <1>t DEF Inductive, MutexHeld, Locked
    <3>3. FailuresSeen' /\ SuccessesSeen'
      BY <2>1, <2>2, <3>1 DEF Inductive, FailuresSeen, SuccessesSeen, Opener, Closer
    <3> QED BY <3>2, <3>3
  <2>3. CASE state # target[c]
    <3>1. pc'[c] = "resetSuccess" /\ mu' = c /\ failureCount' = 0
      BY <1>7, <1>t, <2>3 DEF TransitionLock, Goto
    <3>2. MutexHeld'
      BY <2>1, <3>1, <1>t DEF Inductive, MutexHeld, Locked
    <3>3. FailuresSeen'
      BY <3>1, <1>t DEF FailuresSeen
    <3>4. SuccessesSeen'
      BY <3>1 DEF SuccessesSeen
    <3> QED BY <3>2, <3>3, <3>4
  <2> QED BY <2>2, <2>3
<1>8. ASSUME NEW c \in Callers, ResetSuccess(c) \/ ResetCalls(c)
      PROVE  Rest
  <2>1. /\ pc[c] \in {"resetSuccess", "resetCalls"} /\ pc'[c] \in {"resetCalls", "store"}
        /\ UNCHANGED <<state, failureCount, mu, target>>
        /\ \A d \in Callers \ {c} : pc'[d] = pc[d]
        /\ successCount' = 0 \/ (UNCHANGED successCount /\ pc[c] = "resetCalls")
    BY <1>8, <1>t DEF ResetSuccess, ResetCalls, Goto
  <2>2. MutexHeld'
    BY <2>1, <1>t DEF Inductive, MutexHeld, Locked
  <2>3. FailuresSeen'
    BY <2>1 DEF Inductive, FailuresSeen, Opener
  <2>4. SuccessesSeen'
    BY <2>1, <1>t DEF Inductive, SuccessesSeen, Closer
  <2> QED BY <2>2, <2>3, <2>4
<1>9. ASSUME NEW c \in Callers, StoreState(c)
      PROVE  Rest
  <2>1. /\ pc[c] = "store" /\ pc'[c] \in {"run", "idle"} /\ mu' = NoCaller
        /\ UNCHANGED <<failureCount, successCount, target>>
        /\ \A d \in Callers \ {c} : pc'[d] = pc[d]
    BY <1>9, <1>t DEF StoreState, AfterTransition, Goto, counters
  <2>2. mu = c
    BY <2>1 DEF Inductive, MutexHeld, Locked
  <2>3. MutexHeld'
    BY <2>1, <2>2, <1>t DEF Inductive, MutexHeld, Locked
  <2>4. FailuresSeen' /\ SuccessesSeen'
    BY <2>1, <2>2, <1>t DEF Inductive, FailuresSeen, SuccessesSeen, Opener, Closer
  <2> QED BY <2>3, <2>4
<1>10. Rest
  BY <1>1, <1>2, <1>3, <1>4, <1>5, <1>6, <1>7, <1>8, <1>9 DEF Next, Step
<1> QED BY <1>0, <1>10 DEF Inductive

(* The breaker's fields and its callers keep their types; only a decrement can
   make halfOpenCalls negative, so its type is Int.                          *)
THEOREM BreakerTypeCorrect == Spec => []TypeOK
<1>1. Inductive => TypeOK
  BY DEF Inductive
<1> QED BY InductiveInit, InductiveStep, <1>1, PTL DEF Spec

LEMMA InductiveRests == Inductive => NoLostTransition
<1> SUFFICES ASSUME Inductive, AtRest
             PROVE  /\ state = "closed" => failureCount < FailureThreshold
                    /\ state = "half-open" => successCount < SuccessThreshold
  BY DEF NoLostTransition
<1>1. failureCount \in Nat /\ successCount \in Nat
      /\ FailureThreshold \in Nat /\ SuccessThreshold \in Nat
  BY BreakerAssumption DEF Inductive, TypeOK
<1>2. \A c \in Callers : ~Opener(c) /\ ~Closer(c) /\ pc[c] # "resetSuccess"
  BY DEF AtRest, Opener, Closer
<1> QED BY <1>1, <1>2 DEF Inductive, FailuresSeen, SuccessesSeen

(* However many goroutines count failures and successes while others reset the
   counters and store the state, a breaker at rest has made the transition that
   its counters call for.                                                    *)
THEOREM TransitionsNotLost == Spec => []NoLostTransition
BY InductiveInit, InductiveStep, InductiveRests, PTL DEF Spec

-----------------------------------------------------------------------------
(* The slots of the half-open state.                                         *)

(* How many callers are in one of the places that f gives them. *)
CountIn(f, places) == Cardinality({c \in Callers : f[c] \in places})

(* The calls that occupy a slot, or are about to give one back. *)
Holding == {"run", "after", "release", "reject"}

(* Beyond the maximum there are only calls that will be refused; and in the
   half-open state all slots but one are accounted for by leaks, the others by
   calls under way.                                                          *)
SlotsCounted ==
  /\ halfOpenCalls <= HalfOpenMaxCalls + CountIn(pc, {"reject"})
  /\ state = "half-open" => halfOpenCalls <= HalfOpenMaxCalls - 1 + CountIn(pc, Holding)

(* A set that gains or loses a caller. *)
LEMMA CountType ==
  ASSUME NEW f, NEW P
  PROVE  IsFiniteSet({c \in Callers : f[c] \in P}) /\ CountIn(f, P) \in Nat
BY BreakerAssumption, FS_Subset, FS_CardinalityType DEF CountIn

(* A caller counts one. *)
CountBut(f, P, c) == Cardinality({d \in Callers \ {c} : f[d] \in P})

LEMMA CountOthers ==
  ASSUME NEW f, NEW P, NEW c \in Callers
  PROVE  /\ CountBut(f, P, c) \in Nat
         /\ CountIn(f, P) = CountBut(f, P, c) + (IF f[c] \in P THEN 1 ELSE 0)
<1> DEFINE S == {d \in Callers : f[d] \in P}
           T == {d \in Callers \ {c} : f[d] \in P}
<1>1. IsFiniteSet(T)
  <2>1. T \in SUBSET Callers
    OBVIOUS
  <2> HIDE DEF T
  <2> QED BY <2>1, BreakerAssumption, FS_Subset
<1>2. Cardinality(T) \in Nat
  BY <1>1, FS_CardinalityType
<1>3. CASE f[c] \in P
  <2>1. S = T \union {c} /\ c \notin T
    BY <1>3
  <2>2. Cardinality(T \union {c}) = Cardinality(T) + 1
    <3> HIDE DEF T
    <3> QED BY <1>1, <2>1, FS_AddElement
  <2> QED BY <1>2, <1>3, <2>1, <2>2 DEF CountIn, CountBut
<1>4. CASE f[c] \notin P
  <2>1. S = T
    BY <1>4
  <2>2. Cardinality(S) = Cardinality(T) + 0
    BY <1>2, <2>1
  <2> QED BY <1>2, <1>4, <2>2 DEF CountIn, CountBut
<1> QED BY <1>3, <1>4

LEMMA CountMove ==
  ASSUME NEW f, NEW g, NEW P, NEW c \in Callers, \A d \in Callers \ {c} : g[d] = f[d]
  PROVE  CountIn(g, P)
           = CountIn(f, P) - (IF f[c] \in P THEN 1 ELSE 0) + (IF g[c] \in P THEN 1 ELSE 0)
<1>1. {d \in Callers \ {c} : g[d] \in P} = {d \in Callers \ {c} : f[d] \in P}
  OBVIOUS
<1>2. CountBut(f, P, c) = CountBut(g, P, c)
  BY <1>1 DEF CountBut
<1>3. /\ CountBut(f, P, c) \in Nat
      /\ CountIn(f, P) = CountBut(f, P, c) + (IF f[c] \in P THEN 1 ELSE 0)
      /\ CountIn(g, P) = CountBut(g, P, c) + (IF g[c] \in P THEN 1 ELSE 0)
  BY CountOthers
<1> QED BY <1>2, <1>3

(* More places, more callers; and one more for a caller in the others. *)
LEMMA CountSubset ==
  ASSUME NEW f, NEW c \in Callers, NEW P, NEW Q, P \subseteq Q, f[c] \in Q \ P
  PROVE  CountIn(f, P) + 1 <= CountIn(f, Q)
<1> DEFINE S == {d \in Callers : f[d] \in P}
           T == {d \in Callers : f[d] \in Q}
<1>1. IsFiniteSet(S) /\ IsFiniteSet(T) /\ S \union {c} \subseteq T /\ c \notin S
  BY CountType
<1>2. Cardinality(S \union {c}) <= Cardinality(T) /\ Cardinality(S \union {c}) = Cardinality(S) + 1
  <2>1. S \union {c} \subseteq T /\ IsFiniteSet(T)
    BY <1>1
  <2>2. Cardinality(S \union {c}) <= Cardinality(T)
    <3> HIDE DEF S, T
    <3> QED BY <2>1, FS_Subset
  <2>3. Cardinality(S \union {c}) = Cardinality(S) + 1
    <3> HIDE DEF S, T
    <3> QED BY <1>1, FS_AddElement
  <2> QED BY <2>2, <2>3
<1> QED BY <1>2 DEF CountIn

(* A step that moves a caller and leaves halfOpenCalls alone keeps the account
   when the caller gives up no slot, or does so outside the half-open state. *)
LEMMA SlotsMove ==
  ASSUME TypeOK, SlotsCounted, NEW c \in Callers,
         \A d \in Callers \ {c} : pc'[d] = pc[d], pc[c] # "reject", UNCHANGED halfOpenCalls,
         state' = "half-open" => state = "half-open" /\ (pc[c] \in Holding => pc'[c] \in Holding)
  PROVE  SlotsCounted'
<1> DEFINE before == CountIn(pc, {"reject"})
           after == CountIn(pc', {"reject"})
           held == CountIn(pc, Holding)
           holding == CountIn(pc', Holding)
<1>1. /\ halfOpenCalls \in Int /\ HalfOpenMaxCalls \in Nat
      /\ before \in Nat /\ after \in Nat /\ held \in Nat /\ holding \in Nat
  BY BreakerAssumption, CountType DEF TypeOK
<1>2. before <= after
  <2>1. after = before - (IF pc[c] \in {"reject"} THEN 1 ELSE 0) + (IF pc'[c] \in {"reject"} THEN 1 ELSE 0)
    BY CountMove
  <2> HIDE DEF before, after
  <2> QED BY <1>1, <2>1
<1>3. state' = "half-open" => held <= holding
  <2>1. holding = held - (IF pc[c] \in Holding THEN 1 ELSE 0) + (IF pc'[c] \in Holding THEN 1 ELSE 0)
    BY CountMove
  <2> HIDE DEF held, holding
  <2> QED BY <1>1, <2>1
<1>4. /\ halfOpenCalls <= HalfOpenMaxCalls + before
      /\ state = "half-open" => halfOpenCalls <= HalfOpenMaxCalls - 1 + held
  BY DEF SlotsCounted
<1>5. /\ halfOpenCalls <= HalfOpenMaxCalls + after
      /\ state' = "half-open" => halfOpenCalls <= HalfOpenMaxCalls - 1 + holding
  <2> HIDE DEF before, after, held, holding
  <2> QED BY <1>1, <1>2, <1>3, <1>4
<1> QED BY <1>5 DEF SlotsCounted

LEMMA SlotsStep == TypeOK /\ SlotsCounted /\ [Next]_vars => SlotsCounted'
<1> SUFFICES ASSUME TypeOK, SlotsCounted, [Next]_vars
             PROVE  SlotsCounted'
  OBVIOUS
<1>t. /\ pc \in [Callers -> Places] /\ halfOpenCalls \in Int /\ HalfOpenMaxCalls \in Nat \ {0}
  BY BreakerAssumption DEF TypeOK
<1> USE DEF Goto, StampGoto, fields, counters
<1>1. CASE TimeoutElapses \/ RemoteChanges \/ UNCHANGED vars
  BY <1>1 DEF TimeoutElapses, RemoteChanges, vars, SlotsCounted
<1> DEFINE Moves(c) ==
      /\ \A d \in Callers \ {c} : pc'[d] = pc[d]
      /\ pc[c] # "reject" /\ UNCHANGED halfOpenCalls
      /\ state' = "half-open" => state = "half-open" /\ (pc[c] \in Holding => pc'[c] \in Holding)
<1>2. ASSUME NEW c \in Callers, BeforeRequest(c) \/ Reset(c) \/ CallAgain(c) \/ CheckTimeout(c)
      PROVE  SlotsCounted'
  <2>1. Moves(c)
    BY <1>t, <1>2 DEF BeforeRequest, Reset, CallAgain, CheckTimeout, Holding
  <2> QED BY <2>1, SlotsMove
<1>3. ASSUME NEW c \in Callers, Run(c) \/ AfterRequest(c)
      PROVE  SlotsCounted'
  <2>1. Moves(c)
    BY <1>t, <1>3 DEF Run, AfterRequest, Holding
  <2> QED BY <2>1, SlotsMove
<1>4. ASSUME NEW c \in Callers, CountFailure(c) \/ CountSuccess(c)
      PROVE  SlotsCounted'
  <2>1. Moves(c)
    BY <1>t, <1>4 DEF CountFailure, CountSuccess, Holding
  <2> QED BY <2>1, SlotsMove
<1>5. ASSUME NEW c \in Callers, StampClosed(c) \/ StampHalfOpen(c) \/ StampOpen(c)
      PROVE  SlotsCounted'
  <2>1. Moves(c)
    BY <1>t, <1>5 DEF StampClosed, StampHalfOpen, StampOpen, Holding
  <2> QED BY <2>1, SlotsMove
<1>6. ASSUME NEW c \in Callers, TransitionLock(c) \/ ResetSuccess(c)
      PROVE  SlotsCounted'
  <2>1. Moves(c)
    BY <1>t, <1>6 DEF TransitionLock, AfterTransition, ResetSuccess, Holding
  <2> QED BY <2>1, SlotsMove
<1> DEFINE refused == CountIn(pc, {"reject"})
           refused2 == CountIn(pc', {"reject"})
           held == CountIn(pc, Holding)
           held2 == CountIn(pc', Holding)
<1>n. /\ refused \in Nat /\ refused2 \in Nat /\ held \in Nat /\ held2 \in Nat
      /\ halfOpenCalls <= HalfOpenMaxCalls + refused
      /\ state = "half-open" => halfOpenCalls <= HalfOpenMaxCalls - 1 + held
  BY CountType DEF SlotsCounted
<1>d. SlotsCounted'
        <=> /\ halfOpenCalls' <= HalfOpenMaxCalls + refused2
            /\ state' = "half-open" => halfOpenCalls' <= HalfOpenMaxCalls - 1 + held2
  BY DEF SlotsCounted
<1>m. ASSUME NEW c \in Callers, \A d \in Callers \ {c} : pc'[d] = pc[d]
      PROVE  /\ refused2 = refused - (IF pc[c] \in {"reject"} THEN 1 ELSE 0) + (IF pc'[c] \in {"reject"} THEN 1 ELSE 0)
             /\ held2 = held - (IF pc[c] \in Holding THEN 1 ELSE 0) + (IF pc'[c] \in Holding THEN 1 ELSE 0)
  BY <1>m, CountMove
<1> HIDE DEF refused, refused2, held, held2
<1>7. ASSUME NEW c \in Callers, HalfOpenAdmit(c)
      PROVE  SlotsCounted'
  <2>1. CASE halfOpenCalls + 1 > HalfOpenMaxCalls
    <3>1. /\ pc[c] = "admit" /\ halfOpenCalls' = halfOpenCalls + 1 /\ UNCHANGED state
          /\ pc'[c] = "reject" /\ \A d \in Callers \ {c} : pc'[d] = pc[d]
      BY <1>t, <1>7, <2>1 DEF HalfOpenAdmit
    <3>2. refused2 = refused + 1 /\ held2 = held + 1
      BY <1>m, <1>n, <3>1 DEF Holding
    <3> QED BY <1>d, <1>n, <1>t, <3>1, <3>2
  <2>2. CASE ~(halfOpenCalls + 1 > HalfOpenMaxCalls)
    <3>1. /\ pc[c] = "admit" /\ halfOpenCalls' = halfOpenCalls + 1 /\ UNCHANGED state
          /\ pc'[c] = "run" /\ \A d \in Callers \ {c} : pc'[d] = pc[d]
      BY <1>t, <1>7, <2>2 DEF HalfOpenAdmit
    <3>2. held2 = held + 1
      BY <1>m, <1>n, <3>1 DEF Holding
    <3> QED BY <1>d, <1>n, <1>t, <2>2, <3>1, <3>2
  <2> QED BY <2>1, <2>2
<1>8. ASSUME NEW c \in Callers, HalfOpenReject(c)
      PROVE  SlotsCounted'
  <2>1. /\ pc[c] = "reject" /\ halfOpenCalls' = halfOpenCalls - 1 /\ UNCHANGED state
        /\ pc'[c] = "refused" /\ \A d \in Callers \ {c} : pc'[d] = pc[d]
    BY <1>t, <1>8 DEF HalfOpenReject
  <2>2. refused2 = refused - 1 /\ held2 = held - 1
    BY <1>m, <1>n, <2>1 DEF Holding
  <2> QED BY <1>d, <1>n, <1>t, <2>1, <2>2
<1>9. ASSUME NEW c \in Callers, Release(c)
      PROVE  SlotsCounted'
  <2>1. pc'[c] \in {"stampHalfOpen", "countSuccess"} /\ \A d \in Callers \ {c} : pc'[d] = pc[d]
    BY <1>9, <1>t DEF Release
  <2>2. /\ pc[c] = "release" /\ halfOpenCalls' = halfOpenCalls - 1 /\ UNCHANGED state
    BY <1>9 DEF Release
  <2>3. refused2 = refused /\ held2 = held - 1
    BY <1>m, <1>n, <2>1, <2>2 DEF Holding
  <2> QED BY <1>d, <1>n, <1>t, <2>2, <2>3
<1>10. ASSUME NEW c \in Callers, ResetCalls(c)
       PROVE  SlotsCounted'
  <2>1. halfOpenCalls' = 0 /\ pc'[c] = "store" /\ \A d \in Callers \ {c} : pc'[d] = pc[d]
    BY <1>t, <1>10 DEF ResetCalls
  <2> QED BY <1>d, <1>n, <1>t, <2>1
<1>11. ASSUME NEW c \in Callers, StoreState(c)
       PROVE  SlotsCounted'
  <2>1. CASE target[c] # "half-open"
    BY <1>11, <2>1, SlotsMove DEF StoreState, AfterTransition, Holding
  <2>2. CASE target[c] = "half-open"
    <3>1. /\ pc[c] = "store" /\ UNCHANGED halfOpenCalls /\ state' = "half-open"
          /\ pc'[c] = "run" /\ \A d \in Callers \ {c} : pc'[d] = pc[d]
      BY <1>t, <1>11, <2>2 DEF StoreState, AfterTransition
    <3>2. refused2 + 1 <= held2
      <4>1. pc'[c] \in Holding \ {"reject"} /\ {"reject"} \subseteq Holding
        BY <1>t, <3>1 DEF Holding
      <4> QED BY <4>1, CountSubset DEF refused2, held2
    <3>3. refused2 = refused
      BY <1>m, <1>n, <3>1
    <3> QED BY <1>d, <1>n, <1>t, <3>1, <3>2, <3>3
  <2> QED BY <2>1, <2>2
<1> QED BY <1>1, <1>2, <1>3, <1>4, <1>5, <1>6, <1>7, <1>8, <1>9, <1>10, <1>11 DEF Next, Step

Accounted == Inductive /\ SlotsCounted

LEMMA AccountedInit == Init => Accounted
<1> SUFFICES ASSUME Init PROVE Accounted
  OBVIOUS
<1>1. CountIn(pc, {"reject"}) \in Nat
  BY CountType
<1> QED BY <1>1, InductiveInit, BreakerAssumption DEF Init, Accounted, SlotsCounted

LEMMA AccountedStep == Accounted /\ [Next]_vars => Accounted'
BY InductiveStep, SlotsStep DEF Accounted, Inductive

LEMMA AccountedSlots == Accounted => SlotLeft
<1> SUFFICES ASSUME Accounted, AtRest, state = "half-open"
             PROVE  halfOpenCalls < HalfOpenMaxCalls
  BY DEF SlotLeft
<1>1. {c \in Callers : pc[c] \in Holding} = {}
  BY DEF AtRest, Holding
<1>2. CountIn(pc, Holding) = 0
  BY <1>1, FS_EmptySet DEF CountIn
<1> QED BY <1>2, BreakerAssumption DEF Accounted, Inductive, SlotsCounted, TypeOK

(* Whatever slots leak while calls overlap transitions, one of HalfOpenMaxCalls
   is left: a breaker at rest in the half-open state admits the next call, so
   that it is not half-open for ever.                                        *)
THEOREM SlotsLast == Spec => []SlotLeft
BY AccountedInit, AccountedStep, AccountedSlots, PTL DEF Spec

-----------------------------------------------------------------------------
(* The breaker as deliverMessage uses it.                                    *)

(* The engine's own step, Defer, is the one that the breaker does not know. *)
LEMMA EngineAccounted == Accounted /\ [EngineNext]_engineVars => Accounted'
<1> SUFFICES ASSUME Accounted, [EngineNext]_engineVars
             PROVE  Accounted'
  OBVIOUS
<1>1. ASSUME NEW c \in Callers, Defer(c)
      PROVE  Accounted'
  <2>1. /\ Inductive /\ TypeOK /\ SlotsCounted
        /\ pc[c] = "idle" /\ pc' = [pc EXCEPT ![c] = "refused"] /\ since' = since \ {c}
        /\ UNCHANGED <<state, failureCount, successCount, halfOpenCalls, elapsed, mu, failed, target, remote>>
    BY <1>1 DEF Accounted, Inductive, Defer, Goto, Long, fields, counters
  <2>2. TypeOK'
    BY <2>1 DEF TypeOK, Places, Long
  <2>3. MutexHeld' /\ FailuresSeen' /\ SuccessesSeen'
    <3>1. /\ "refused" \in Places \ Locked /\ pc[c] \notin Locked
          /\ ~Opener(c) /\ ~Closer(c)
          /\ target' \in [Callers -> States] /\ \A d \in Callers \ {c} : target'[d] = target[d]
      BY <2>1 DEF Places, Long, Locked, Opener, Closer, TypeOK
    <3> QED BY <2>1, <3>1, QuietStep
  <2>4. SlotsCounted'
    <3>1. /\ \A d \in Callers \ {c} : pc'[d] = pc[d]
          /\ pc[c] # "reject" /\ pc[c] \notin Holding
      BY <2>1 DEF TypeOK, Holding
    <3> QED BY <2>1, <3>1, SlotsMove
  <2> QED BY <2>2, <2>3, <2>4 DEF Accounted, Inductive
<1>2. CASE [Next]_vars
  BY <1>2, AccountedStep
<1>3. ASSUME NEW c \in Callers, StateAllows(c) \/ Execute(c) \/ InExecute(c)
      PROVE  [Next]_vars
  BY <1>3 DEF StateAllows, Execute, InExecute, Next
<1>4. CASE EngineTimeoutElapses \/ RemoteChanges \/ UNCHANGED engineVars
  BY <1>4, <1>2 DEF EngineTimeoutElapses, Next, engineVars
<1> QED BY <1>1, <1>2, <1>3, <1>4 DEF EngineNext

(* A breaker at rest has made its transitions and has a slot left in the engine's
   use of it too, where workers look at State() before they call Execute.    *)
THEOREM EngineBreakerSound == EngineSpec => [](NoLostTransition /\ SlotLeft)
<1>1. EngineInit => Accounted
  BY AccountedInit DEF EngineInit
<1>2. Accounted => NoLostTransition /\ SlotLeft
  BY AccountedSlots, InductiveRests DEF Accounted
<1> QED BY <1>1, <1>2, EngineAccounted, PTL DEF EngineSpec

(* What a worker does with an open breaker: it defers its message, or, when it
   was let in before, it stamps its failure.                                 *)
LEMMA LeftOpenStep == Accounted /\ LeftOpen /\ [EngineNext]_engineVars => LeftOpen'
<1> SUFFICES ASSUME Accounted, LeftOpen, [EngineNext]_engineVars
             PROVE  LeftOpen'
  OBVIOUS
<1>t. pc \in [Callers -> Places]
  BY DEF Accounted, Inductive, TypeOK
<1> USE DEF LeftOpen, Goto, StampGoto, fields, counters, vars, Long
<1>1. ASSUME NEW c \in Callers, StateAllows(c) \/ Defer(c) \/ Execute(c)
      PROVE  LeftOpen'
  <2>1. ~StateAllows(c) /\ ~Execute(c)
    BY DEF StateAllows, Execute
  <2> QED BY <1>1, <1>t, <2>1 DEF Defer
<1>2. ASSUME NEW c \in Callers, InExecute(c)
      PROVE  LeftOpen'
  <2>1. CASE CallAgain(c)
    BY <1>2, <1>t, <2>1 DEF InExecute, CallAgain
  <2>2. CASE Run(c) \/ AfterRequest(c) \/ StampOpen(c)
    BY <1>2, <1>t, <2>2 DEF InExecute, Run, AfterRequest, StampOpen
  <2> QED BY <1>2, <2>1, <2>2 DEF InExecute, Step, CheckTimeout, HalfOpenAdmit, HalfOpenReject,
             CountFailure, StampClosed, Release, StampHalfOpen, CountSuccess,
             TransitionLock, ResetSuccess, ResetCalls, StoreState
<1>3. CASE EngineTimeoutElapses \/ (RemoteChanges /\ UNCHANGED checked) \/ UNCHANGED engineVars
  BY <1>3 DEF EngineTimeoutElapses, TimeoutElapses, RemoteChanges, engineVars
<1> QED BY <1>1, <1>2, <1>3 DEF EngineNext

(* With any number of workers and any thresholds, a domain's breaker that is open
   with nobody about to ask it stays open until the server is restarted: the
   workers look at State(), which does not look at the timeout.              *)
THEOREM OpenForGood == EngineSpec => [](LeftOpen => [](state = "open"))
<1>1. LeftOpen => state = "open"
  BY DEF LeftOpen
<1>2. EngineInit => Accounted
  BY AccountedInit DEF EngineInit
<1> QED BY <1>1, <1>2, EngineAccounted, LeftOpenStep, PTL DEF EngineSpec

(* So an open breaker becomes half-open again, as the README has it, only where
   none is ever left open with nobody about to ask it.                       *)
THEOREM PromiseNeedsRestart == EngineSpec /\ HalfOpensAgain => []~LeftOpen
<1>1. LeftOpen => state = "open"
  BY DEF LeftOpen
<1>2. ~(state = "open" /\ state = "half-open")
  OBVIOUS
<1> QED BY <1>1, <1>2, OpenForGood, PTL DEF HalfOpensAgain
=============================================================================
