------------------------ MODULE DeliveryEngine_proofs ------------------------
(***************************************************************************)
(* Proofs about DeliveryEngine, for every set of messages, workers and     *)
(* files and every bound: its types, its safety invariants, and that it    *)
(* implements ReliableQueue.                                               *)
(*                                                                         *)
(* The inductive invariant adds to the properties what the processes carry *)
(* from one step to the next: a process that is about to write "sent"      *)
(* works on a delivered message, one that is about to write "failed" on a  *)
(* message with a reason, and no copy of a record counts more attempts     *)
(* than were begun.                                                        *)
(***************************************************************************)
EXTENDS DeliveryEngine, TLAPS

(* A process holds a message exactly when it is in the middle of handling one. *)
HoldsMessage ==
  \A p \in Procs : pc[p] \notin {"idle", "scan"} => cur[p] \in Msgs

Typed == TypeOK /\ HoldsMessage

LEMMA NewMessageType == NewMessage \in Message
BY DEF NewMessage, Message

(* The transactions of RedisQueue keep the types of the Redis state. *)
LEMMA TxTypes ==
  ASSUME QueueTypeOK, NEW m \in Msgs, NEW msg \in Message,
         \/ EnqueueTx(m, msg) \/ MoveTx(m) \/ RollbackTx(m) \/ UpdateMessage(m, msg)
         \/ CompleteTx(m, msg) \/ RetryTx(m, msg) \/ FailTx(m, msg)
         \/ UNCHANGED redisVars
  PROVE  QueueTypeOK'
<1>1. CASE EnqueueTx(m, msg)
  BY <1>1 DEF QueueTypeOK, EnqueueTx, SetMessage, Statuses
<1>2. CASE MoveTx(m)
  BY <1>2 DEF QueueTypeOK, MoveTx
<1>3. CASE RollbackTx(m)
  BY <1>3 DEF QueueTypeOK, RollbackTx
<1>4. CASE UpdateMessage(m, msg)
  BY <1>4 DEF QueueTypeOK, UpdateMessage, SetMessage, Statuses, Message
<1>5. CASE CompleteTx(m, msg)
  BY <1>5 DEF QueueTypeOK, CompleteTx, SetMessage, Statuses
<1>6. CASE RetryTx(m, msg)
  BY <1>6 DEF QueueTypeOK, RetryTx, SetMessage, Statuses
<1>7. CASE FailTx(m, msg)
  BY <1>7 DEF QueueTypeOK, FailTx, SetMessage, Statuses
<1>8. CASE UNCHANGED redisVars
  BY <1>8 DEF QueueTypeOK, redisVars
<1> QED BY <1>1, <1>2, <1>3, <1>4, <1>5, <1>6, <1>7, <1>8

(* A change of one process keeps the types of the local state. *)
LEMMA BecomeTypes ==
  ASSUME Typed, NEW p \in Procs, NEW next \in PCs, NEW m \in Msgs \union {NoMsg},
         NEW msg \in Message, Become(p, next, m, msg),
         next \notin {"idle", "scan"} => m \in Msgs
  PROVE  /\ pc' \in [Procs -> PCs]
         /\ cur' \in [Procs -> Msgs \union {NoMsg}]
         /\ copy' \in [Procs -> Message]
         /\ HoldsMessage'
BY DEF Typed, TypeOK, HoldsMessage, Become

(* What a Redis call does to the state, whether it succeeds or not. *)
LEMMA RedisTypes ==
  ASSUME Typed, NEW p \in Procs, NEW m \in Msgs, NEW msg \in Message,
         NEW ACTION Tx,
         \/ RedisOK(p, Tx) \/ RedisError(p, Tx),
         Tx => \/ EnqueueTx(m, msg) \/ MoveTx(m) \/ RollbackTx(m)
               \/ UpdateMessage(m, msg) \/ CompleteTx(m, msg) \/ RetryTx(m, msg)
               \/ FailTx(m, msg) \/ UNCHANGED redisVars
  PROVE  QueueTypeOK' /\ events' \in 0..MaxEvents
<1>1. Tx \/ UNCHANGED redisVars
  BY DEF RedisOK, RedisError, redisVars
<1>2. QueueTypeOK'
  BY <1>1, TxTypes DEF Typed, TypeOK
<1>3. events' \in 0..MaxEvents
  BY EngineAssumption DEF RedisOK, RedisError, Event, Typed, TypeOK
<1> QED BY <1>2, <1>3

(* A step that changes Redis, the bound and one process keeps the types. *)
LEMMA TypedCall ==
  ASSUME Typed, NEW p \in Procs, NEW next \in PCs, NEW m \in Msgs \union {NoMsg},
         NEW msg \in Message, Become(p, next, m, msg),
         next \notin {"idle", "scan"} => m \in Msgs,
         QueueTypeOK', events' \in 0..MaxEvents,
         UNCHANGED <<todo, files, sub, acked, stopping, expired, historyVars>>
  PROVE  Typed'
<1>1. /\ pc' \in [Procs -> PCs]
      /\ cur' \in [Procs -> Msgs \union {NoMsg}]
      /\ copy' \in [Procs -> Message]
      /\ HoldsMessage'
  BY BecomeTypes
<1> QED BY <1>1 DEF Typed, TypeOK, historyVars

(* The same for the next step on the message the process holds. *)
LEMMA TypedGoto ==
  ASSUME Typed, NEW p \in Procs, NEW next \in PCs, pc[p] \notin {"idle", "scan"},
         Goto(p, next), QueueTypeOK', events' \in 0..MaxEvents,
         UNCHANGED <<todo, files, sub, acked, stopping, expired, historyVars>>
  PROVE  Typed'
<1>1. cur[p] \in Msgs
  BY DEF Typed, HoldsMessage
<1>2. next \in {"idle", "scan"} \/ next \notin {"idle", "scan"}
  OBVIOUS
<1> QED BY <1>1, <1>2, TypedCall, NewMessageType DEF Goto

(* The same for a GetMessage. *)
LEMMA TypedGet ==
  ASSUME Typed, NEW p \in Procs, NEW next \in PCs, pc[p] \notin {"idle", "scan"},
         GetMessage(p, next),
         UNCHANGED <<todo, files, sub, acked, stopping, expired, historyVars>>
  PROVE  Typed'
<1>1. cur[p] \in Msgs
  BY DEF Typed, HoldsMessage
<1>2. QueueTypeOK' /\ events' \in 0..MaxEvents
  BY <1>1, RedisTypes, NewMessageType DEF GetMessage
<1>3. record[cur[p]] \in Message
  BY <1>1 DEF Typed, TypeOK, QueueTypeOK
<1> QED BY <1>1, <1>2, <1>3, TypedCall DEF GetMessage

LEMMA TypedGetError ==
  ASSUME Typed, NEW p \in Procs, NEW next \in PCs, pc[p] \notin {"idle", "scan"},
         GetMessageError(p), Goto(p, next),
         UNCHANGED <<todo, files, sub, acked, stopping, expired, historyVars>>
  PROVE  Typed'
<1>1. cur[p] \in Msgs
  BY DEF Typed, HoldsMessage
<1>2. QueueTypeOK' /\ events' \in 0..MaxEvents
  BY <1>1, RedisTypes, NewMessageType DEF GetMessageError
<1> QED BY <1>2, TypedGoto

(* Retry and Fail, whoever calls them. *)
LEMMA TypedRetryFail ==
  ASSUME Typed, NEW p \in Procs, NEW at \in PCs, NEW atTx \in PCs, NEW next \in PCs,
         at \notin {"idle", "scan"}, atTx \notin {"idle", "scan"},
         \/ RetryGet(p) \/ Retry(p) \/ FailGet(p, at, atTx, next) \/ Fail(p, atTx, next)
  PROVE  Typed'
<1> USE DEF EngineUnchanged
<1>p. {"idle", "scan", "giveUp", "retryTx"} \subseteq PCs
  BY DEF PCs
<1>c. copy[p] \in Message
  BY DEF Typed, TypeOK
<1>1. CASE RetryGet(p)
  <2>1. pc[p] \notin {"idle", "scan"}
    BY <1>1 DEF RetryGet
  <2>2. CASE GetMessage(p, "retryTx")
    BY <1>1, <1>p, <2>1, <2>2, TypedGet DEF RetryGet
  <2>3. CASE RedisOK(p, UNCHANGED redisVars) /\ Goto(p, "giveUp")
    <3>1. QueueTypeOK' /\ events' \in 0..MaxEvents
      BY <2>3 DEF RedisOK, redisVars, Typed, TypeOK, QueueTypeOK
    <3> QED BY <1>1, <1>p, <2>1, <2>3, <3>1, TypedGoto DEF RetryGet
  <2>4. CASE GetMessageError(p) /\ Return(p)
    BY <1>1, <1>p, <2>1, <2>4, TypedGetError DEF RetryGet, Return
  <2> QED BY <1>1, <2>2, <2>3, <2>4 DEF RetryGet
<1>2. CASE Retry(p)
  <2>1. pc[p] \notin {"idle", "scan"} /\ cur[p] \in Msgs
    BY <1>2 DEF Retry, Typed, HoldsMessage
  <2>2. QueueTypeOK' /\ events' \in 0..MaxEvents
    BY <1>2, <1>c, <2>1, RedisTypes DEF Retry
  <2> QED BY <1>2, <1>p, <2>1, <2>2, TypedGoto DEF Retry, Return
<1>3. CASE FailGet(p, at, atTx, next)
  <2>1. pc[p] \notin {"idle", "scan"}
    BY <1>3 DEF FailGet
  <2> QED BY <1>3, <2>1, TypedGet, TypedGetError DEF FailGet
<1>4. CASE Fail(p, atTx, next)
  <2>1. pc[p] \notin {"idle", "scan"} /\ cur[p] \in Msgs
    BY <1>4 DEF Fail, Typed, HoldsMessage
  <2>2. QueueTypeOK' /\ events' \in 0..MaxEvents
    BY <1>4, <1>c, <2>1, RedisTypes DEF Fail
  <2> QED BY <1>4, <2>1, <2>2, TypedGoto DEF Fail
<1> QED BY <1>1, <1>2, <1>3, <1>4

LEMMA TypedWorker ==
  ASSUME Typed, NEW w \in Workers, Worker(w)
  PROVE  Typed'
<1> USE EngineAssumption, NewMessageType DEF EngineUnchanged
<1>w. w \in Procs /\ w # Recovery /\ w # Admin
  BY DEF Procs
<1>p. /\ {"idle", "scan", "move", "get", "update", "rollback", "deliver"} \subseteq PCs
      /\ {"complete", "completeTx", "retry", "giveUp", "giveUpTx"} \subseteq PCs
      /\ {"reject", "rejectTx", "bounce", "cleanup"} \subseteq PCs
  BY DEF PCs
<1>c. copy[w] \in Message /\ (pc[w] \notin {"idle", "scan"} => cur[w] \in Msgs)
  BY <1>w DEF Typed, TypeOK, HoldsMessage
<1>q. UNCHANGED <<redisVars, events>> => QueueTypeOK' /\ events' \in 0..MaxEvents
  BY DEF Typed, TypeOK, QueueTypeOK, redisVars
<1>1. CASE DequeueQuery(w)
  <2>1. PICK m \in due : Become(w, "move", m, NewMessage)
    BY <1>1 DEF DequeueQuery
  <2>2. m \in Msgs
    BY DEF Typed, TypeOK, QueueTypeOK
  <2> QED BY <1>1, <1>w, <1>p, <1>q, <2>1, <2>2, TypedCall DEF DequeueQuery
<1>2. CASE DequeueMove(w)
  <2>1. QueueTypeOK' /\ events' \in 0..MaxEvents
    BY <1>2, <1>w, <1>c, RedisTypes DEF DequeueMove
  <2> QED BY <1>2, <1>w, <1>p, <2>1, TypedGoto DEF DequeueMove, Return
<1>3. CASE DequeueGet(w)
  BY <1>3, <1>w, <1>p, TypedGet, TypedGetError DEF DequeueGet
<1>4. CASE DequeueUpdate(w)
  <2>1. QueueTypeOK' /\ events' \in 0..MaxEvents
    BY <1>4, <1>w, <1>c, RedisTypes DEF DequeueUpdate
  <2>2. tries' \in [Msgs -> Nat]
    BY <1>4, <1>c DEF DequeueUpdate, Typed, TypeOK
  <2>3. PICK next \in {"deliver", "rollback"} : Goto(w, next)
    BY <1>4 DEF DequeueUpdate
  <2>4. /\ pc' \in [Procs -> PCs]
        /\ cur' \in [Procs -> Msgs \union {NoMsg}]
        /\ copy' \in [Procs -> Message]
        /\ HoldsMessage'
    BY <1>4, <1>w, <1>p, <1>c, <2>3, BecomeTypes DEF DequeueUpdate, Goto
  <2> QED BY <1>4, <2>1, <2>2, <2>4 DEF DequeueUpdate, Typed, TypeOK
<1>5. CASE DequeueRollback(w)
  <2>1. QueueTypeOK' /\ events' \in 0..MaxEvents
    BY <1>5, <1>w, <1>c, RedisTypes DEF DequeueRollback
  <2> QED BY <1>5, <1>w, <1>p, <2>1, TypedGoto DEF DequeueRollback, Return
<1>6. CASE DeliverSuccess(w) \/ DeliverTimeout(w) \/ DeliverTemporary(w) \/ DeliverPermanent(w)
  <2>1. PICK next \in {"complete", "retry", "reject"} : DeliverOutcome(w, next)
    BY <1>6 DEF DeliverSuccess, DeliverTimeout, DeliverTemporary, DeliverPermanent
  <2>2. /\ pc' \in [Procs -> PCs]
        /\ cur' \in [Procs -> Msgs \union {NoMsg}]
        /\ copy' \in [Procs -> Message]
        /\ HoldsMessage'
    BY <1>w, <1>p, <1>c, <2>1, BecomeTypes DEF DeliverOutcome, Goto
  <2>3. delivered' \subseteq Msgs /\ rejected' \subseteq Msgs
    BY <1>6, <1>c DEF DeliverOutcome, DeliverSuccess, DeliverTimeout, DeliverTemporary,
       DeliverPermanent, Typed, TypeOK
  <2> QED BY <1>q, <2>1, <2>2, <2>3 DEF DeliverOutcome, Typed, TypeOK
<1>7. CASE CompleteGet(w)
  BY <1>7, <1>w, <1>p, TypedGet, TypedGetError DEF CompleteGet
<1>8. CASE Complete(w)
  <2>1. QueueTypeOK' /\ events' \in 0..MaxEvents
    BY <1>8, <1>w, <1>c, RedisTypes DEF Complete
  <2> QED BY <1>8, <1>w, <1>p, <2>1, TypedGoto DEF Complete
<1>9. CASE \/ RetryGet(w) \/ Retry(w)
           \/ FailGet(w, "giveUp", "giveUpTx", "idle") \/ Fail(w, "giveUpTx", "idle")
           \/ FailGet(w, "reject", "rejectTx", "bounce") \/ Fail(w, "rejectTx", "bounce")
  BY <1>9, <1>w, <1>p, TypedRetryFail
<1>10. CASE SendBounce(w)
  <2>1. /\ pc' \in [Procs -> PCs]
        /\ cur' \in [Procs -> Msgs \union {NoMsg}]
        /\ copy' \in [Procs -> Message]
        /\ HoldsMessage'
    BY <1>10, <1>w, <1>p, <1>c, BecomeTypes DEF SendBounce, Goto
  <2>2. QueueTypeOK' /\ events' \in 0..MaxEvents
    <3>1. CASE UNCHANGED <<redisVars, files, events>>
      BY <3>1, <1>q
    <3>2. ASSUME NEW b \in Bounces,
                 RedisOK(w, EnqueueTx(b, NewMessage)) \/ RedisError(w, EnqueueTx(b, NewMessage))
          PROVE  QueueTypeOK' /\ events' \in 0..MaxEvents
      BY <3>2, <1>w, RedisTypes
    <3> QED BY <1>10, <3>1, <3>2 DEF SendBounce
  <2>3. files' \subseteq Files
    BY <1>10 DEF SendBounce, Typed, TypeOK
  <2> QED BY <1>10, <2>1, <2>2, <2>3 DEF SendBounce, Typed, TypeOK, historyVars
<1>11. CASE CleanupMessageFile(w)
  <2>1. /\ pc' \in [Procs -> PCs]
        /\ cur' \in [Procs -> Msgs \union {NoMsg}]
        /\ copy' \in [Procs -> Message]
        /\ HoldsMessage'
    BY <1>11, <1>w, <1>p, <1>c, BecomeTypes DEF CleanupMessageFile, Goto, Return
  <2> QED BY <1>11, <1>q, <2>1 DEF CleanupMessageFile, Typed, TypeOK, historyVars
<1> QED BY <1>1, <1>2, <1>3, <1>4, <1>5, <1>6, <1>7, <1>8, <1>9, <1>10, <1>11 DEF Worker

LEMMA TypedRecovery ==
  ASSUME Typed, RecoveryWorker
  PROVE  Typed'
<1> USE EngineAssumption, NewMessageType
<1>w. Recovery \in Procs
  BY DEF Procs
<1>p. {"idle", "scan", "retry", "giveUp", "giveUpTx"} \subseteq PCs
  BY DEF PCs
<1>q. UNCHANGED <<redisVars, events>> => QueueTypeOK' /\ events' \in 0..MaxEvents
  BY DEF Typed, TypeOK, QueueTypeOK, redisVars
<1>1. CASE RecoverScan
  <2>1. /\ pc' \in [Procs -> PCs]
        /\ cur' \in [Procs -> Msgs \union {NoMsg}]
        /\ copy' \in [Procs -> Message]
        /\ HoldsMessage'
    BY <1>1, <1>w, <1>p, BecomeTypes DEF RecoverScan, Goto
  <2>2. todo' \subseteq Msgs
    BY <1>1 DEF RecoverScan, Typed, TypeOK, QueueTypeOK
  <2> QED BY <1>1, <1>q, <2>1, <2>2 DEF RecoverScan, Typed, TypeOK, historyVars
<1>2. CASE RecoverNext
  <2>1. PICK m \in todo :
          /\ todo' = todo \ {m}
          /\ \/ Become(Recovery, "retry", m, NewMessage)
             \/ UNCHANGED localVars
    BY <1>2 DEF RecoverNext
  <2>2. m \in Msgs /\ todo' \subseteq Msgs
    BY <2>1 DEF Typed, TypeOK
  <2>3. QueueTypeOK' /\ events' \in 0..MaxEvents
    BY <1>2 DEF RecoverNext, RedisOK, RedisError, Event, redisVars, Typed, TypeOK, QueueTypeOK
  <2>4. /\ pc' \in [Procs -> PCs]
        /\ cur' \in [Procs -> Msgs \union {NoMsg}]
        /\ copy' \in [Procs -> Message]
        /\ HoldsMessage'
    <3>1. CASE Become(Recovery, "retry", m, NewMessage)
      BY <1>w, <1>p, <2>2, <3>1, BecomeTypes
    <3>2. CASE UNCHANGED localVars
      BY <3>2 DEF localVars, Typed, TypeOK, HoldsMessage
    <3> QED BY <2>1, <3>1, <3>2
  <2> QED BY <1>2, <2>2, <2>3, <2>4 DEF RecoverNext, Typed, TypeOK, historyVars
<1>3. CASE RecoverDone
  <2>1. /\ pc' \in [Procs -> PCs]
        /\ cur' \in [Procs -> Msgs \union {NoMsg}]
        /\ copy' \in [Procs -> Message]
        /\ HoldsMessage'
    BY <1>3, <1>w, <1>p, BecomeTypes DEF RecoverDone, Goto
  <2> QED BY <1>3, <1>q, <2>1 DEF RecoverDone, Typed, TypeOK, historyVars
<1>4. CASE \/ RetryGet(Recovery) \/ Retry(Recovery)
           \/ FailGet(Recovery, "giveUp", "giveUpTx", "scan")
           \/ Fail(Recovery, "giveUpTx", "scan")
  BY <1>4, <1>w, <1>p, TypedRetryFail
<1> QED BY <1>1, <1>2, <1>3, <1>4 DEF RecoveryWorker

LEMMA TypedAdmin ==
  ASSUME Typed, AdminRetry \/ AdminDelete \/ AdminStep
  PROVE  Typed'
<1> USE EngineAssumption, NewMessageType DEF EngineUnchanged
<1>w. Admin \in Procs /\ Admin # Recovery
  BY DEF Procs
<1>p. {"idle", "requeue", "delete", "deleteTx"} \subseteq PCs
  BY DEF PCs
<1>1. CASE AdminRetry
  <2>1. PICK m \in Msgs : Become(Admin, "requeue", m, record[m])
    BY <1>1 DEF AdminRetry
  <2>2. record[m] \in Message
    BY DEF Typed, TypeOK, QueueTypeOK
  <2>3. QueueTypeOK' /\ events' \in 0..MaxEvents
    BY <1>1 DEF AdminRetry, Event, redisVars, Typed, TypeOK, QueueTypeOK
  <2> QED BY <1>1, <1>w, <1>p, <2>1, <2>2, <2>3, TypedCall DEF AdminRetry
<1>2. CASE AdminDelete
  <2>1. PICK m \in Msgs : Become(Admin, "delete", m, NewMessage) /\ deleted' = deleted \union {m}
    BY <1>2 DEF AdminDelete
  <2>2. /\ pc' \in [Procs -> PCs]
        /\ cur' \in [Procs -> Msgs \union {NoMsg}]
        /\ copy' \in [Procs -> Message]
        /\ HoldsMessage'
    BY <1>w, <1>p, <2>1, BecomeTypes
  <2>3. QueueTypeOK' /\ events' \in 0..MaxEvents
    BY <1>2 DEF AdminDelete, Event, redisVars, Typed, TypeOK, QueueTypeOK
  <2> QED BY <1>2, <2>1, <2>2, <2>3 DEF AdminDelete, Typed, TypeOK
<1>3. CASE AdminRequeue
  <2>1. pc[Admin] \notin {"idle", "scan"} /\ cur[Admin] \in Msgs /\ copy[Admin] \in Message
    BY <1>3, <1>w DEF AdminRequeue, Typed, TypeOK, HoldsMessage
  <2> DEFINE msg == [copy[Admin] EXCEPT !.attempts = 0]
  <2>2. msg \in Message
    BY <2>1 DEF Message
  <2>3. QueueTypeOK' /\ events' \in 0..MaxEvents
    <3>1. RedisOK(Admin, EnqueueTx(cur[Admin], msg)) \/ RedisError(Admin, EnqueueTx(cur[Admin], msg))
      BY <1>3 DEF AdminRequeue
    <3> HIDE DEF msg
    <3> QED BY <3>1, <1>w, <2>1, <2>2, RedisTypes
  <2> QED BY <1>3, <1>w, <1>p, <2>1, <2>3, TypedGoto DEF AdminRequeue, Return
<1>4. CASE FailGet(Admin, "delete", "deleteTx", "idle") \/ Fail(Admin, "deleteTx", "idle")
  BY <1>4, <1>w, <1>p, TypedRetryFail
<1> QED BY <1>1, <1>2, <1>3, <1>4 DEF AdminStep

LEMMA TypedOther ==
  ASSUME Typed,
         \/ \E f \in SubmittedFiles : Submission(f)
         \/ Stop \/ Restart \/ Crash
         \/ \E m \in Msgs : TimePasses(m) \/ Expire(m)
  PROVE  Typed'
<1> USE EngineAssumption, NewMessageType
<1>q. UNCHANGED redisVars => QueueTypeOK'
  BY DEF Typed, TypeOK, QueueTypeOK, redisVars
<1>e. \A k : Event(k) => events' \in 0..MaxEvents
  BY DEF Event, Typed, TypeOK
<1>h. UNCHANGED localVars => HoldsMessage'
  BY DEF Typed, HoldsMessage, localVars
<1>f. SubmittedFiles \subseteq Files
  BY DEF SubmittedFiles, Submitted
<1>s. \A f \in SubmittedFiles : MsgsOf(f) \subseteq Submitted
  BY DEF SubmittedFiles, Submitted, MsgsOf
<1>m. Submitted \subseteq Msgs
  BY DEF Submitted
<1>1. ASSUME NEW f \in SubmittedFiles, Submission(f)
      PROVE  Typed'
  <2>1. CASE SaveMessageToQueue(f)
    BY <2>1, <1>q, <1>h, <1>f DEF SaveMessageToQueue, Submissions, localVars, historyVars, Typed, TypeOK
  <2>2. CASE EnqueueDomain(f)
    <3>1. PICK m \in MsgsOf(f) \ acked : EnqueueTx(m, NewMessage) /\ acked' = acked \union {m}
      BY <2>2 DEF EnqueueDomain
    <3>2. QueueTypeOK' /\ acked' \subseteq Submitted
      BY <3>1, <1>s, <1>m, TxTypes DEF Typed, TypeOK
    <3> QED BY <2>2, <3>2, <1>h DEF EnqueueDomain, localVars, historyVars, Typed, TypeOK
  <2>3. CASE EnqueueTransient(f) \/ EnqueueRefused(f)
    <3>1. PICK m \in MsgsOf(f) \ acked : EnqueueTx(m, NewMessage) \/ UNCHANGED redisVars
      BY <2>3 DEF EnqueueTransient, EnqueueRefused
    <3>2. QueueTypeOK'
      BY <3>1, <1>s, <1>m, TxTypes DEF Typed, TypeOK
    <3> QED BY <2>3, <3>2, <1>h, <1>e DEF EnqueueTransient, EnqueueRefused, Submissions, localVars, historyVars, Typed, TypeOK
  <2>4. CASE SubmissionAccepted(f)
    BY <2>4, <1>q, <1>h DEF SubmissionAccepted, Submissions, localVars, historyVars, Typed, TypeOK
  <2> QED BY <1>1, <2>1, <2>2, <2>3, <2>4 DEF Submission
<1>2. CASE Stop
  BY <1>2, <1>q, <1>h, <1>e DEF Stop, localVars, historyVars, Typed, TypeOK
<1>3. CASE Restart
  BY <1>3, <1>q, <1>h DEF Restart, AbortSubmissions, Submissions, localVars, historyVars, Typed, TypeOK
<1>4. CASE Crash
  BY <1>4, <1>q, <1>e DEF Crash, AbortSubmissions, Submissions, PCs, historyVars, Typed, TypeOK, HoldsMessage
<1>5. ASSUME NEW m \in Msgs, TimePasses(m)
      PROVE  Typed'
  <2>1. QueueTypeOK'
    <3>1. CASE BecomeDue(m)
      BY <3>1 DEF BecomeDue, Typed, TypeOK, QueueTypeOK
    <3>2. CASE LastAttemptAges(m)
      <4>1. [record[m] EXCEPT !.recent = FALSE] \in Message
        BY DEF Typed, TypeOK, QueueTypeOK, Message
      <4>2. record' \in [Msgs -> Message]
        BY <3>2, <4>1 DEF LastAttemptAges, Typed, TypeOK, QueueTypeOK
      <4> QED BY <3>2, <4>2 DEF LastAttemptAges, Typed, TypeOK, QueueTypeOK
    <3> QED BY <1>5, <3>1, <3>2 DEF TimePasses
  <2> QED BY <1>5, <1>h, <2>1 DEF TimePasses, localVars, historyVars, Typed, TypeOK
<1>6. ASSUME NEW m \in Msgs, Expire(m)
      PROVE  Typed'
  BY <1>6, <1>q, <1>h DEF Expire, localVars, historyVars, Typed, TypeOK
<1> QED BY <1>1, <1>2, <1>3, <1>4, <1>5, <1>6

LEMMA TypedInit == Init => Typed
<1> SUFFICES ASSUME Init PROVE Typed
  OBVIOUS
<1>1. QueueTypeOK
  BY NewMessageType DEF Init, QueueInit, QueueTypeOK, Statuses
<1>2. /\ pc \in [Procs -> PCs]
      /\ cur \in [Procs -> Msgs \union {NoMsg}]
      /\ copy \in [Procs -> Message]
      /\ HoldsMessage
  BY NewMessageType DEF Init, HoldsMessage, PCs
<1>3. sub \in [SubmittedFiles -> Submissions] /\ tries \in [Msgs -> Nat]
  BY DEF Init, Submissions
<1>4. stopping \in BOOLEAN
  BY Zenon DEF Init
<1>5. events \in 0..MaxEvents
  BY EngineAssumption DEF Init
<1> QED BY <1>1, <1>2, <1>3, <1>4, <1>5 DEF Init, Typed, TypeOK

LEMMA TypedStep == Typed /\ [Next]_vars => Typed'
<1> SUFFICES ASSUME Typed, [Next]_vars PROVE Typed'
  OBVIOUS
<1>1. CASE UNCHANGED vars
  BY <1>1 DEF vars, redisVars, localVars, historyVars, Typed, TypeOK, QueueTypeOK, HoldsMessage
<1> QED BY <1>1, TypedWorker, TypedRecovery, TypedAdmin, TypedOther DEF Next

(* Type correctness of the composed system, at every point of every
   interleaving of workers, recovery, administrator, submissions and failures. *)
THEOREM TypeCorrect == Spec => []TypeOK
<1>1. Init => Typed
  BY TypedInit
<1>2. Typed /\ [Next]_vars => Typed'
  BY TypedStep
<1>3. Typed => TypeOK
  BY DEF Typed
<1> QED BY <1>1, <1>2, <1>3, PTL DEF Spec

-----------------------------------------------------------------------------
(* Safety.                                                                   *)

(* The attempt count n of a record of m is not above the attempts begun. *)
NotOvercounted(n, m) == n <= tries[m] \/ tries[m] = MaxAttempts[m]

Reason(m) == m \in rejected \union deleted \union expired \/ tries[m] = MaxAttempts[m]

(* What holds of a process at pc `at' with message m and record copy msg. *)
Fits(at, m, msg) ==
  /\ m \in Msgs => Stored(m) /\ NotOvercounted(msg.attempts, m)
  /\ at \in {"complete", "completeTx"} => m \in delivered
  /\ at \in {"reject", "rejectTx", "bounce"} => m \in rejected
  /\ at = "cleanup" => m \in delivered \union rejected
  /\ at \in {"giveUp", "giveUpTx"} => Reason(m)
  /\ at \in {"delete", "deleteTx"} => m \in deleted

Progress == \A p \in Procs : Fits(pc[p], cur[p], copy[p])

(* The ids in the active collections and in RecoverStale's list are stored. *)
Known == \A m \in pending \union processing \union todo : Stored(m)

Counts ==
  \A m \in Msgs : tries[m] <= MaxAttempts[m] /\ NotOvercounted(record[m].attempts, m)

(* Some message queued with file f has had its outcome. *)
Outcome(f) == MsgsOf(f) \intersect (delivered \union rejected) # {}

QueueingHasFile ==
  \A f \in SubmittedFiles : sub[f] = "queueing" => f \in files \/ Outcome(f)

Safe ==
  /\ Progress
  /\ Known
  /\ Counts
  /\ NeverDropped
  /\ StatusAgrees
  /\ SentIsDelivered
  /\ GivenUpForAReason
  /\ FileUntilOutcome
  /\ QueueingHasFile

-----------------------------------------------------------------------------
(* What a step may do to Redis, and under which condition.                   *)

(* Who may be enqueued: a stored message again, a bounce, a new submission. *)
Enqueueable(m) == Stored(m) \/ m \in Bounces \/ sub[FileOf[m]] = "queueing"

GuardedTx(m, msg) ==
  \/ EnqueueTx(m, msg) /\ msg.attempts = 0 /\ Enqueueable(m)
  \/ LastAttemptAges(m)
  \/ /\ Stored(m)
     /\ \/ MoveTx(m) \/ RollbackTx(m) \/ BecomeDue(m)
        \/ /\ UpdateMessage(m, msg) /\ NotOvercounted(msg.attempts, m)
           /\ tries' = [tries EXCEPT ![m] = IF @ < MaxAttempts[m] THEN @ + 1 ELSE @]
        \/ CompleteTx(m, msg) /\ m \in delivered /\ NotOvercounted(msg.attempts, m)
        \/ RetryTx(m, msg) /\ NotOvercounted(msg.attempts, m)
        \/ FailTx(m, msg) /\ Reason(m) /\ NotOvercounted(msg.attempts, m)

RedisStep ==
  \/ \E m \in Msgs, msg \in Message : GuardedTx(m, msg)
  \/ UNCHANGED redisVars

LEMMA ReadIsRedisStep ==
  ASSUME NEW p,
         RedisOK(p, UNCHANGED redisVars) \/ RedisError(p, UNCHANGED redisVars)
  PROVE  RedisStep
<1>1. UNCHANGED redisVars
  BY DEF RedisOK, RedisError, redisVars
<1> QED BY <1>1 DEF RedisStep

LEMMA RetryFailIsRedisStep ==
  ASSUME Typed, Progress, NEW p \in Procs, NEW at, NEW atTx, NEW next,
         atTx \in {"giveUpTx", "rejectTx", "deleteTx"},
         \/ RetryGet(p) \/ Retry(p) \/ FailGet(p, at, atTx, next) \/ Fail(p, atTx, next)
  PROVE  RedisStep
<1>c. copy[p] \in Message /\ (pc[p] \notin {"idle", "scan"} => cur[p] \in Msgs)
  BY DEF Typed, TypeOK, HoldsMessage
<1>f. Fits(pc[p], cur[p], copy[p])
  BY DEF Progress
<1>1. CASE RetryGet(p) \/ FailGet(p, at, atTx, next)
  BY <1>1, ReadIsRedisStep DEF RetryGet, FailGet, GetMessage, GetMessageError
<1>2. CASE Retry(p)
  <2>1. RetryTx(cur[p], copy[p]) \/ UNCHANGED redisVars
    BY <1>2 DEF Retry, RedisOK, RedisError
  <2>2. cur[p] \in Msgs
    BY <1>2, <1>c DEF Retry
  <2> QED BY <2>1, <2>2, <1>c, <1>f DEF RedisStep, GuardedTx, Fits
<1>3. CASE Fail(p, atTx, next)
  <2>1. FailTx(cur[p], copy[p]) \/ UNCHANGED redisVars
    BY <1>3 DEF Fail, RedisOK, RedisError
  <2>2. cur[p] \in Msgs /\ pc[p] = atTx
    BY <1>3, <1>c DEF Fail
  <2>3. Reason(cur[p])
    BY <2>2, <1>f DEF Fits, Reason
  <2> QED BY <2>1, <2>2, <2>3, <1>c, <1>f DEF RedisStep, GuardedTx, Fits
<1> QED BY <1>1, <1>2, <1>3

LEMMA WorkerIsRedisStep ==
  ASSUME Typed, Progress, NEW w \in Workers, Worker(w)
  PROVE  RedisStep
<1> USE EngineAssumption, NewMessageType
<1>w. w \in Procs
  BY DEF Procs
<1>c. copy[w] \in Message /\ (pc[w] \notin {"idle", "scan"} => cur[w] \in Msgs)
  BY <1>w DEF Typed, TypeOK, HoldsMessage
<1>f. Fits(pc[w], cur[w], copy[w])
  BY <1>w DEF Progress
<1>1. CASE DequeueQuery(w) \/ CleanupMessageFile(w)
  BY <1>1 DEF DequeueQuery, CleanupMessageFile, RedisStep, redisVars
<1>2. CASE DequeueMove(w)
  <2>1. MoveTx(cur[w]) \/ UNCHANGED redisVars
    BY <1>2 DEF DequeueMove, RedisOK, RedisError
  <2>2. cur[w] \in Msgs
    BY <1>2, <1>c DEF DequeueMove
  <2> QED BY <2>1, <2>2, <1>c, <1>f DEF RedisStep, GuardedTx, Fits
<1>3. CASE DequeueGet(w) \/ CompleteGet(w)
  BY <1>3, ReadIsRedisStep DEF DequeueGet, CompleteGet, GetMessage, GetMessageError
<1>4. CASE DequeueUpdate(w)
  <2>1. UpdateMessage(cur[w], copy[w]) \/ UNCHANGED redisVars
    BY <1>4 DEF DequeueUpdate, RedisOK, RedisError
  <2>2. cur[w] \in Msgs
    BY <1>4, <1>c DEF DequeueUpdate
  <2>3. tries' = [tries EXCEPT ![cur[w]] = IF @ < MaxAttempts[cur[w]] THEN @ + 1 ELSE @]
    BY <1>4 DEF DequeueUpdate
  <2> QED BY <2>1, <2>2, <2>3, <1>c, <1>f DEF RedisStep, GuardedTx, Fits
<1>5. CASE DequeueRollback(w)
  <2>1. RollbackTx(cur[w]) \/ UNCHANGED redisVars
    BY <1>5 DEF DequeueRollback, RedisOK, RedisError
  <2>2. cur[w] \in Msgs
    BY <1>5, <1>c DEF DequeueRollback
  <2> QED BY <2>1, <2>2, <1>c, <1>f DEF RedisStep, GuardedTx, Fits
<1>6. CASE DeliverSuccess(w) \/ DeliverTimeout(w) \/ DeliverTemporary(w) \/ DeliverPermanent(w)
  BY <1>6 DEF DeliverSuccess, DeliverTimeout, DeliverTemporary, DeliverPermanent,
     DeliverOutcome, RedisStep, redisVars
<1>7. CASE Complete(w)
  <2>1. CompleteTx(cur[w], copy[w]) \/ UNCHANGED redisVars
    BY <1>7 DEF Complete, RedisOK, RedisError
  <2>2. cur[w] \in Msgs /\ cur[w] \in delivered
    BY <1>7, <1>c, <1>f DEF Complete, Fits
  <2> QED BY <2>1, <2>2, <1>c, <1>f DEF RedisStep, GuardedTx, Fits
<1>8. CASE \/ RetryGet(w) \/ Retry(w)
           \/ FailGet(w, "giveUp", "giveUpTx", "idle") \/ Fail(w, "giveUpTx", "idle")
           \/ FailGet(w, "reject", "rejectTx", "bounce") \/ Fail(w, "rejectTx", "bounce")
  BY <1>8, <1>w, RetryFailIsRedisStep
<1>9. CASE SendBounce(w)
  <2>1. CASE UNCHANGED redisVars
    BY <2>1 DEF RedisStep
  <2>2. ASSUME NEW b \in Bounces, EnqueueTx(b, NewMessage)
        PROVE  RedisStep
    BY <2>2 DEF RedisStep, GuardedTx, NewMessage, Enqueueable
  <2>3. UNCHANGED redisVars \/ \E b \in Bounces : EnqueueTx(b, NewMessage)
    BY <1>9 DEF SendBounce, RedisOK, RedisError, redisVars
  <2> QED BY <2>1, <2>2, <2>3
<1> QED BY <1>1, <1>2, <1>3, <1>4, <1>5, <1>6, <1>7, <1>8, <1>9 DEF Worker

LEMMA NextIsRedisStep ==
  ASSUME Typed, Progress, Known, [Next]_vars
  PROVE  RedisStep
<1> USE EngineAssumption, NewMessageType
<1>1. CASE UNCHANGED vars
  BY <1>1 DEF vars, redisVars, RedisStep
<1>2. CASE RecoveryWorker
  <2>1. CASE RecoverScan \/ RecoverDone
    BY <2>1 DEF RecoverScan, RecoverDone, RedisStep, redisVars
  <2>2. CASE RecoverNext
    <3>1. UNCHANGED redisVars
      BY <2>2 DEF RecoverNext, RedisOK, RedisError, redisVars
    <3> QED BY <3>1 DEF RedisStep
  <2> QED BY <1>2, <2>1, <2>2, RetryFailIsRedisStep DEF RecoveryWorker, Procs
<1>3. CASE AdminRetry \/ AdminDelete
  BY <1>3 DEF AdminRetry, AdminDelete, RedisStep, redisVars
<1>4. CASE AdminStep
  <2>a. Admin \in Procs
    BY DEF Procs
  <2>1. CASE AdminRequeue
    <3>1. cur[Admin] \in Msgs /\ copy[Admin] \in Message /\ Stored(cur[Admin])
      BY <2>a, <2>1 DEF AdminRequeue, Typed, TypeOK, HoldsMessage, Progress, Fits
    <3> DEFINE msg == [copy[Admin] EXCEPT !.attempts = 0]
    <3>2. msg \in Message /\ msg.attempts = 0
      BY <3>1 DEF Message
    <3>3. EnqueueTx(cur[Admin], msg) \/ UNCHANGED redisVars
      BY <2>1 DEF AdminRequeue, RedisOK, RedisError
    <3> HIDE DEF msg
    <3> QED BY <3>1, <3>2, <3>3 DEF RedisStep, GuardedTx, Enqueueable
  <2> QED BY <1>4, <2>a, <2>1, RetryFailIsRedisStep DEF AdminStep
<1>5. ASSUME NEW f \in SubmittedFiles, Submission(f)
      PROVE  RedisStep
  <2>1. CASE SaveMessageToQueue(f) \/ SubmissionAccepted(f)
    BY <2>1 DEF SaveMessageToQueue, SubmissionAccepted, RedisStep, redisVars
  <2>2. CASE EnqueueDomain(f) \/ EnqueueTransient(f) \/ EnqueueRefused(f)
    <3>1. \/ UNCHANGED redisVars
          \/ \E m \in Msgs : EnqueueTx(m, NewMessage) /\ sub[FileOf[m]] = "queueing"
      BY <2>2 DEF EnqueueDomain, EnqueueTransient, EnqueueRefused, MsgsOf
    <3>2. NewMessage.attempts = 0
      BY DEF NewMessage
    <3> QED BY <3>1, <3>2 DEF RedisStep, GuardedTx, Enqueueable
  <2> QED BY <1>5, <2>1, <2>2 DEF Submission
<1>6. CASE Stop \/ Restart \/ Crash
  BY <1>6 DEF Stop, Restart, Crash, RedisStep, redisVars
<1>7. ASSUME NEW m \in Msgs, TimePasses(m) \/ Expire(m)
      PROVE  RedisStep
  <2>1. CASE Expire(m)
    BY <2>1 DEF Expire, RedisStep, redisVars
  <2>2. CASE TimePasses(m) /\ BecomeDue(m)
    <3>1. Stored(m)
      BY <2>2 DEF BecomeDue, Known
    <3> QED BY <2>2, <3>1 DEF RedisStep, GuardedTx
  <2>3. CASE TimePasses(m) /\ LastAttemptAges(m)
    BY <2>3 DEF RedisStep, GuardedTx
  <2> QED BY <1>7, <2>1, <2>2, <2>3 DEF TimePasses
<1> QED BY <1>1, <1>2, <1>3, <1>4, <1>5, <1>6, <1>7, WorkerIsRedisStep DEF Next

-----------------------------------------------------------------------------
(* History only grows, and nothing is ever un-stored.                        *)

Growing ==
  /\ delivered \subseteq delivered'
  /\ rejected \subseteq rejected'
  /\ deleted \subseteq deleted'
  /\ expired \subseteq expired'
  /\ \A m \in Msgs : /\ status[m] # "none" => status'[m] # "none"
                     /\ tries'[m] \in Nat
                     /\ tries[m] <= tries'[m]
                     /\ tries[m] = MaxAttempts[m] => tries'[m] = MaxAttempts[m]

LEMMA HistoryStep ==
  ASSUME Typed, [Next]_vars
  PROVE  /\ delivered \subseteq delivered'
         /\ rejected \subseteq rejected'
         /\ deleted \subseteq deleted'
         /\ expired \subseteq expired'
         /\ \/ UNCHANGED tries
            \/ \E m \in Msgs :
                 tries' = [tries EXCEPT ![m] = IF @ < MaxAttempts[m] THEN @ + 1 ELSE @]
<1> USE EngineAssumption DEF historyVars
<1>1. ASSUME NEW w \in Workers, Worker(w), ~DequeueUpdate(w)
      PROVE  /\ delivered \subseteq delivered' /\ rejected \subseteq rejected'
             /\ UNCHANGED <<deleted, expired, tries>>
  BY <1>1 DEF Worker, DequeueQuery, DequeueMove, DequeueGet, DequeueRollback, DeliverSuccess,
     DeliverTimeout, DeliverTemporary, DeliverPermanent, DeliverOutcome, CompleteGet, Complete,
     RetryGet, Retry, FailGet, Fail, SendBounce, CleanupMessageFile, EngineUnchanged
<1>2. ASSUME NEW w \in Workers, DequeueUpdate(w)
      PROVE  /\ UNCHANGED <<delivered, rejected, deleted, expired>>
             /\ \E m \in Msgs :
                  tries' = [tries EXCEPT ![m] = IF @ < MaxAttempts[m] THEN @ + 1 ELSE @]
  <2>1. cur[w] \in Msgs
    BY <1>2 DEF DequeueUpdate, Typed, HoldsMessage, Procs
  <2> QED BY <1>2, <2>1 DEF DequeueUpdate, EngineUnchanged
<1>3. CASE RecoveryWorker
  BY <1>3 DEF RecoveryWorker, RecoverScan, RecoverNext, RecoverDone, RetryGet, Retry, FailGet, Fail,
     EngineUnchanged
<1>4. CASE AdminRetry \/ AdminDelete \/ AdminStep
  BY <1>4 DEF AdminRetry, AdminDelete, AdminStep, AdminRequeue, FailGet, Fail, EngineUnchanged
<1>5. ASSUME NEW f \in SubmittedFiles, Submission(f)
      PROVE  UNCHANGED <<delivered, rejected, deleted, expired, tries>>
  BY <1>5 DEF Submission, SaveMessageToQueue, EnqueueDomain, EnqueueTransient, EnqueueRefused,
     SubmissionAccepted
<1>6. CASE Stop \/ Restart \/ Crash
  BY <1>6 DEF Stop, Restart, Crash
<1>7. ASSUME NEW m \in Msgs, TimePasses(m) \/ Expire(m)
      PROVE  UNCHANGED <<delivered, rejected, deleted, tries>> /\ expired \subseteq expired'
  BY <1>7 DEF TimePasses, Expire
<1>8. CASE UNCHANGED vars
  BY <1>8 DEF vars
<1> QED BY <1>1, <1>2, <1>3, <1>4, <1>5, <1>6, <1>7, <1>8 DEF Next

LEMMA GrowingStep ==
  ASSUME Typed, Progress, Known, [Next]_vars
  PROVE  Growing
<1>1. \A m \in Msgs : status[m] # "none" => status'[m] # "none"
  <2>1. RedisStep
    BY NextIsRedisStep
  <2>2. ASSUME NEW m \in Msgs, NEW msg \in Message, GuardedTx(m, msg)
        PROVE  \A n \in Msgs : status[n] # "none" => status'[n] # "none"
    BY <2>2 DEF GuardedTx, EnqueueTx, MoveTx, RollbackTx, BecomeDue, LastAttemptAges,
       UpdateMessage, CompleteTx, RetryTx, FailTx, SetMessage, Typed, TypeOK, QueueTypeOK
  <2> QED BY <2>1, <2>2 DEF RedisStep, redisVars
<1>2. \A m \in Msgs : /\ tries'[m] \in Nat
                      /\ tries[m] <= tries'[m]
                      /\ tries[m] = MaxAttempts[m] => tries'[m] = MaxAttempts[m]
  <2>1. tries \in [Msgs -> Nat] /\ MaxAttempts \in [Msgs -> Nat]
    BY MaxAttemptsAssumption DEF Typed, TypeOK
  <2> QED BY <2>1, HistoryStep
<1> QED BY <1>1, <1>2, HistoryStep DEF Growing

-----------------------------------------------------------------------------
(* Progress: what the processes carry.                                       *)

(* Fits, of the next state. *)
FitsNext(at, m, msg) ==
  /\ m \in Msgs => /\ status'[m] # "none"
                   /\ msg.attempts <= tries'[m] \/ tries'[m] = MaxAttempts[m]
  /\ at \in {"complete", "completeTx"} => m \in delivered'
  /\ at \in {"reject", "rejectTx", "bounce"} => m \in rejected'
  /\ at = "cleanup" => m \in delivered' \union rejected'
  /\ at \in {"giveUp", "giveUpTx"} =>
       m \in rejected' \union deleted' \union expired' \/ tries'[m] = MaxAttempts[m]
  /\ at \in {"delete", "deleteTx"} => m \in deleted'

LEMMA FitsGrows ==
  ASSUME Typed, Growing, NEW at, NEW m \in Msgs \union {NoMsg}, NEW msg \in Message, 
         at \notin {"idle", "scan"} => m \in Msgs,
         Fits(at, m, msg)
  PROVE  FitsNext(at, m, msg)
<1>1. m \in Msgs => tries[m] \in Nat /\ msg.attempts \in Nat
  BY DEF Typed, TypeOK, Message
<1> QED BY <1>1 DEF Growing, Fits, FitsNext, Reason, NotOvercounted, Stored

LEMMA ProgressPrime ==
  ASSUME \A p \in Procs : FitsNext(pc'[p], cur'[p], copy'[p])
  PROVE  Progress'
BY DEF Progress, Fits, FitsNext, Reason, NotOvercounted, Stored

(* One process takes a step to a place where it fits. *)
LEMMA ProgressStep ==
  ASSUME Typed, Progress, Growing, NEW p \in Procs, NEW next, NEW m, NEW msg,
         Become(p, next, m, msg), FitsNext(next, m, msg)
  PROVE  Progress'
<1>1. ASSUME NEW q \in Procs
      PROVE  FitsNext(pc'[q], cur'[q], copy'[q])
  <2>1. CASE q = p
    BY <2>1 DEF Become, Typed, TypeOK
  <2>2. CASE q # p
    <3>1. pc'[q] = pc[q] /\ cur'[q] = cur[q] /\ copy'[q] = copy[q]
      BY <2>2 DEF Become, Typed, TypeOK
    <3>2. /\ cur[q] \in Msgs \union {NoMsg} /\ copy[q] \in Message
          /\ pc[q] \notin {"idle", "scan"} => cur[q] \in Msgs
          /\ Fits(pc[q], cur[q], copy[q])
      BY DEF Typed, TypeOK, HoldsMessage, Progress
    <3>3. FitsNext(pc[q], cur[q], copy[q])
      BY <3>2, FitsGrows
    <3> QED BY <3>1, <3>3
  <2> QED BY <2>1, <2>2
<1> QED BY <1>1, ProgressPrime

(* No process takes a step. *)
LEMMA ProgressIdle ==
  ASSUME Typed, Progress, Growing, UNCHANGED localVars
  PROVE  Progress'
<1>1. ASSUME NEW q \in Procs
      PROVE  FitsNext(pc'[q], cur'[q], copy'[q])
  <2>1. pc'[q] = pc[q] /\ cur'[q] = cur[q] /\ copy'[q] = copy[q]
    BY DEF localVars
  <2>2. /\ cur[q] \in Msgs \union {NoMsg} /\ copy[q] \in Message
        /\ pc[q] \notin {"idle", "scan"} => cur[q] \in Msgs
        /\ Fits(pc[q], cur[q], copy[q])
    BY DEF Typed, TypeOK, HoldsMessage, Progress
  <2>3. FitsNext(pc[q], cur[q], copy[q])
    BY <2>2, FitsGrows
  <2> QED BY <2>1, <2>3
<1> QED BY <1>1, ProgressPrime

(* What the next place asks of the message. *)
Entitled(next, m) ==
  /\ next \in {"complete", "completeTx"} => m \in delivered'
  /\ next \in {"reject", "rejectTx", "bounce"} => m \in rejected'
  /\ next = "cleanup" => m \in delivered' \union rejected'
  /\ next \in {"giveUp", "giveUpTx"} =>
       m \in rejected' \union deleted' \union expired' \/ tries'[m] = MaxAttempts[m]
  /\ next \in {"delete", "deleteTx"} => m \in deleted'

LEMMA ProgressGoto ==
  ASSUME Typed, Progress, Growing, NEW p \in Procs, NEW next,
         pc[p] \notin {"idle", "scan"}, Goto(p, next), Entitled(next, cur[p])
  PROVE  Progress'
<1>1. cur[p] \in Msgs /\ Stored(cur[p])
  BY DEF Typed, HoldsMessage, Progress, Fits
<1>2. status'[cur[p]] # "none" /\ tries'[cur[p]] \in Nat /\ NewMessage.attempts = 0
  BY <1>1 DEF Growing, Stored, NewMessage
<1>3. CASE next \in {"idle", "scan"}
  <2>1. FitsNext(next, NoMsg, NewMessage)
    BY <1>3, EngineAssumption DEF FitsNext
  <2> QED BY <1>3, <2>1, ProgressStep DEF Goto
<1>4. CASE next \notin {"idle", "scan"}
  <2>1. FitsNext(next, cur[p], NewMessage)
    BY <1>1, <1>2 DEF FitsNext, Entitled
  <2> QED BY <1>4, <2>1, ProgressStep DEF Goto
<1> QED BY <1>3, <1>4

LEMMA ProgressGet ==
  ASSUME Typed, Progress, Counts, Growing, NEW p \in Procs, NEW next,
         pc[p] \notin {"idle", "scan"}, GetMessage(p, next), Entitled(next, cur[p])
  PROVE  Progress'
<1>1. cur[p] \in Msgs /\ Stored(cur[p])
  BY DEF Typed, HoldsMessage, Progress, Fits
<1>2. record[cur[p]] \in Message /\ NotOvercounted(record[cur[p]].attempts, cur[p])
  BY <1>1 DEF Typed, TypeOK, QueueTypeOK, Counts
<1>3. record[cur[p]].attempts \in Nat /\ tries[cur[p]] \in Nat
  BY <1>1, <1>2 DEF Message, Typed, TypeOK
<1>4. FitsNext(next, cur[p], record[cur[p]])
  BY <1>1, <1>2, <1>3 DEF FitsNext, Entitled, Growing, NotOvercounted, Stored
<1> QED BY <1>4, ProgressStep DEF GetMessage

LEMMA ProgressRetryFail ==
  ASSUME Typed, Progress, Counts, Growing, NEW p \in Procs,
         NEW at, NEW atTx, NEW next,
         \/ /\ at = "giveUp" /\ atTx = "giveUpTx" /\ next \in {"idle", "scan"}
         \/ /\ at = "reject" /\ atTx = "rejectTx" /\ next = "bounce"
         \/ /\ at = "delete" /\ atTx = "deleteTx" /\ next = "idle",
         \/ RetryGet(p) \/ Retry(p) \/ FailGet(p, at, atTx, next) \/ Fail(p, atTx, next)
  PROVE  Progress'
<1>f. Fits(pc[p], cur[p], copy[p]) /\ (pc[p] \notin {"idle", "scan"} => cur[p] \in Msgs)
  BY DEF Progress, Typed, HoldsMessage
<1>i. \A m : Entitled("idle", m) /\ Entitled("scan", m) /\ Entitled("retryTx", m)
  BY DEF Entitled
<1>1. CASE RetryGet(p)
  <2>1. pc[p] = "retry" /\ cur[p] \in Msgs
    BY <1>1, <1>f DEF RetryGet
  <2>2. CASE GetMessage(p, "retryTx")
    BY <1>i, <2>1, <2>2, ProgressGet
  <2>3. CASE GiveUp(cur[p], record[cur[p]], cur[p] \in expired) /\ Goto(p, "giveUp")
    <3>1. /\ record[cur[p]].attempts \in Nat /\ tries[cur[p]] \in Nat
          /\ MaxAttempts[cur[p]] \in Nat
      BY <2>1, MaxAttemptsAssumption DEF Typed, TypeOK, QueueTypeOK, Message
    <3>2. cur[p] \in expired \/ tries[cur[p]] = MaxAttempts[cur[p]]
      BY <2>1, <2>3, <3>1 DEF GiveUp, Counts, NotOvercounted
    <3>3. Entitled("giveUp", cur[p])
      BY <2>1, <3>2 DEF Entitled, Growing
    <3> QED BY <2>1, <2>3, <3>3, ProgressGoto
  <2>4. CASE Return(p)
    BY <1>i, <2>1, <2>4, ProgressGoto DEF Return
  <2> QED BY <1>1, <2>2, <2>3, <2>4 DEF RetryGet
<1>2. CASE Retry(p)
  BY <1>2, <1>i, ProgressGoto DEF Retry, Return
<1>3. CASE FailGet(p, at, atTx, next)
  <2>1. pc[p] = at /\ cur[p] \in Msgs
    BY <1>3, <1>f DEF FailGet
  <2>2. Entitled(atTx, cur[p]) /\ Entitled(next, cur[p])
    BY <2>1, <1>f DEF Entitled, Fits, Reason, Growing
  <2> QED BY <1>3, <2>1, <2>2, ProgressGet, ProgressGoto DEF FailGet
<1>4. CASE Fail(p, atTx, next)
  <2>1. pc[p] = atTx /\ cur[p] \in Msgs
    BY <1>4, <1>f DEF Fail
  <2>2. Entitled(next, cur[p])
    BY <2>1, <1>f DEF Entitled, Fits, Growing
  <2> QED BY <1>4, <2>1, <2>2, ProgressGoto DEF Fail
<1> QED BY <1>1, <1>2, <1>3, <1>4

LEMMA ProgressWorker ==
  ASSUME Typed, Progress, Counts, Known, Growing, NEW w \in Workers, Worker(w)
  PROVE  Progress'
<1>w. w \in Procs /\ w # Recovery
  BY EngineAssumption DEF Procs
<1>f. Fits(pc[w], cur[w], copy[w]) /\ (pc[w] \notin {"idle", "scan"} => cur[w] \in Msgs)
  BY <1>w DEF Progress, Typed, HoldsMessage
<1>i. \A m : /\ Entitled("idle", m) /\ Entitled("get", m) /\ Entitled("rollback", m)
             /\ Entitled("update", m) /\ Entitled("deliver", m) /\ Entitled("retry", m)
  BY DEF Entitled
<1>1. CASE DequeueQuery(w)
  <2>1. PICK m \in due : Become(w, "move", m, NewMessage)
    BY <1>1 DEF DequeueQuery
  <2>2. m \in Msgs /\ status[m] # "none"
    BY DEF Typed, TypeOK, QueueTypeOK, Known, Stored
  <2>3. FitsNext("move", m, NewMessage)
    BY <2>2 DEF FitsNext, Growing, NewMessage
  <2> QED BY <1>w, <2>1, <2>3, ProgressStep
<1>2. CASE DequeueMove(w)
  BY <1>2, <1>w, <1>i, ProgressGoto DEF DequeueMove, Return
<1>3. CASE DequeueGet(w)
  BY <1>3, <1>w, <1>i, ProgressGoto, ProgressGet DEF DequeueGet
<1>4. CASE DequeueUpdate(w)
  BY <1>4, <1>w, <1>i, ProgressGoto DEF DequeueUpdate
<1>5. CASE DequeueRollback(w)
  BY <1>5, <1>w, <1>i, ProgressGoto DEF DequeueRollback, Return
<1>6. CASE DeliverSuccess(w)
  <2>1. Entitled("complete", cur[w])
    BY <1>6 DEF DeliverSuccess, Entitled
  <2> QED BY <1>6, <1>w, <2>1, ProgressGoto DEF DeliverSuccess, DeliverOutcome
<1>7. CASE DeliverTimeout(w) \/ DeliverTemporary(w)
  BY <1>7, <1>w, <1>i, ProgressGoto DEF DeliverTimeout, DeliverTemporary, DeliverOutcome
<1>8. CASE DeliverPermanent(w)
  <2>1. Entitled("reject", cur[w])
    BY <1>8 DEF DeliverPermanent, Entitled
  <2> QED BY <1>8, <1>w, <2>1, ProgressGoto DEF DeliverPermanent, DeliverOutcome
<1>9. CASE CompleteGet(w) \/ Complete(w)
  <2>1. pc[w] \in {"complete", "completeTx"}
    BY <1>9 DEF CompleteGet, Complete
  <2>2. Entitled("completeTx", cur[w]) /\ Entitled("cleanup", cur[w])
    BY <2>1, <1>f DEF Entitled, Fits, Growing
  <2> QED BY <1>9, <1>w, <2>1, <2>2, ProgressGoto, ProgressGet DEF CompleteGet, Complete
<1>10. CASE \/ RetryGet(w) \/ Retry(w)
            \/ FailGet(w, "giveUp", "giveUpTx", "idle") \/ Fail(w, "giveUpTx", "idle")
            \/ FailGet(w, "reject", "rejectTx", "bounce") \/ Fail(w, "rejectTx", "bounce")
  BY <1>10, <1>w, ProgressRetryFail
<1>11. CASE SendBounce(w)
  <2>1. pc[w] = "bounce" /\ Goto(w, "cleanup")
    BY <1>11 DEF SendBounce
  <2>2. Entitled("cleanup", cur[w])
    BY <2>1, <1>f DEF Entitled, Fits, Growing
  <2> QED BY <1>w, <2>1, <2>2, ProgressGoto
<1>12. CASE CleanupMessageFile(w)
  BY <1>12, <1>w, <1>i, ProgressGoto DEF CleanupMessageFile, Return
<1> QED BY <1>1, <1>2, <1>3, <1>4, <1>5, <1>6, <1>7, <1>8, <1>9, <1>10, <1>11, <1>12 DEF Worker

LEMMA ProgressNext ==
  ASSUME Typed, Progress, Counts, Known, Growing, [Next]_vars
  PROVE  Progress'
<1>i. \A m : Entitled("idle", m) /\ Entitled("scan", m)
  BY DEF Entitled
<1>p. Recovery \in Procs /\ Admin \in Procs /\ Admin # Recovery
  BY EngineAssumption DEF Procs
<1>z. \A next \in {"idle", "scan"} : FitsNext(next, NoMsg, NewMessage)
  BY EngineAssumption DEF FitsNext
<1>0. CASE UNCHANGED localVars
  BY <1>0, ProgressIdle
<1>1. CASE RecoveryWorker
  <2>1. CASE RecoverScan \/ RecoverDone
    BY <2>1, <1>p, <1>z, ProgressStep DEF RecoverScan, RecoverDone, Goto
  <2>2. CASE RecoverNext
    <3>1. ASSUME NEW m \in todo, Become(Recovery, "retry", m, NewMessage)
          PROVE  Progress'
      <4>1. m \in Msgs /\ status[m] # "none"
        BY DEF Typed, TypeOK, Known, Stored
      <4>2. FitsNext("retry", m, NewMessage)
        BY <4>1 DEF FitsNext, Growing, NewMessage
      <4> QED BY <1>p, <3>1, <4>2, ProgressStep
    <3> QED BY <2>2, <1>0, <3>1 DEF RecoverNext
  <2> QED BY <1>1, <1>p, <2>1, <2>2, ProgressRetryFail DEF RecoveryWorker
<1>2. CASE AdminRetry
  <2>1. PICK m \in Msgs : Stored(m) /\ Become(Admin, "requeue", m, record[m])
    BY <1>2 DEF AdminRetry
  <2>2. /\ record[m].attempts \in Nat /\ tries[m] \in Nat
        /\ NotOvercounted(record[m].attempts, m)
    BY DEF Typed, TypeOK, QueueTypeOK, Message, Counts
  <2>3. FitsNext("requeue", m, record[m])
    BY <2>1, <2>2 DEF FitsNext, Growing, NotOvercounted, Stored
  <2> QED BY <1>p, <2>1, <2>3, ProgressStep
<1>3. CASE AdminDelete
  <2>1. PICK m \in Msgs : /\ Stored(m) /\ Become(Admin, "delete", m, NewMessage)
                          /\ deleted' = deleted \union {m}
    BY <1>3 DEF AdminDelete
  <2>2. FitsNext("delete", m, NewMessage)
    BY <2>1 DEF FitsNext, Growing, NewMessage, Stored
  <2> QED BY <1>p, <2>1, <2>2, ProgressStep
<1>4. CASE AdminStep
  <2>1. CASE AdminRequeue
    BY <2>1, <1>p, <1>i, ProgressGoto DEF AdminRequeue, Return
  <2> QED BY <1>4, <1>p, <2>1, ProgressRetryFail DEF AdminStep
<1>5. CASE Crash
  <2>1. \A q \in Procs : pc'[q] = "idle" /\ cur'[q] = NoMsg /\ copy'[q] = NewMessage
    BY <1>5 DEF Crash
  <2> QED BY <1>z, <2>1, ProgressPrime
<1>6. ASSUME NEW f \in SubmittedFiles, Submission(f)
      PROVE  UNCHANGED localVars
  BY <1>6 DEF Submission, SaveMessageToQueue, EnqueueDomain, EnqueueTransient, EnqueueRefused,
     SubmissionAccepted, localVars
<1>7. ASSUME NEW m \in Msgs, TimePasses(m) \/ Expire(m)
      PROVE  UNCHANGED localVars
  BY <1>7 DEF TimePasses, Expire, localVars
<1>8. Stop \/ Restart \/ UNCHANGED vars => UNCHANGED localVars
  BY DEF Stop, Restart, vars, localVars
<1> QED BY <1>0, <1>1, <1>2, <1>3, <1>4, <1>5, <1>6, <1>7, <1>8, ProgressWorker DEF Next

-----------------------------------------------------------------------------
(* The parts of the invariant about Redis and the history variables.         *)

LEMMA TodoStep ==
  ASSUME [Next]_vars
  PROVE  todo' \subseteq todo \union processing
<1>1. ASSUME NEW w \in Workers, Worker(w)
      PROVE  UNCHANGED todo
  BY <1>1 DEF Worker, DequeueQuery, DequeueMove, DequeueGet, DequeueUpdate, DequeueRollback,
     DeliverSuccess, DeliverTimeout, DeliverTemporary, DeliverPermanent, DeliverOutcome,
     CompleteGet, Complete, RetryGet, Retry, FailGet, Fail, SendBounce, CleanupMessageFile,
     EngineUnchanged
<1>2. CASE RecoveryWorker
  BY <1>2 DEF RecoveryWorker, RecoverScan, RecoverNext, RecoverDone, RetryGet, Retry, FailGet,
     Fail, EngineUnchanged
<1>3. CASE AdminRetry \/ AdminDelete \/ AdminStep
  BY <1>3 DEF AdminRetry, AdminDelete, AdminStep, AdminRequeue, FailGet, Fail, EngineUnchanged
<1>4. ASSUME NEW f \in SubmittedFiles, Submission(f)
      PROVE  UNCHANGED todo
  BY <1>4 DEF Submission, SaveMessageToQueue, EnqueueDomain, EnqueueTransient, EnqueueRefused,
     SubmissionAccepted
<1>5. CASE Stop \/ Restart \/ Crash
  BY <1>5 DEF Stop, Restart, Crash
<1>6. ASSUME NEW m \in Msgs, TimePasses(m) \/ Expire(m)
      PROVE  UNCHANGED todo
  BY <1>6 DEF TimePasses, Expire
<1>7. CASE UNCHANGED vars
  BY <1>7 DEF vars
<1> QED BY <1>1, <1>2, <1>3, <1>4, <1>5, <1>6, <1>7 DEF Next

LEMMA KnownStep ==
  ASSUME Typed, Progress, Known, [Next]_vars
  PROVE  Known'
<1>1. Growing /\ RedisStep /\ todo' \subseteq todo \union processing
  BY GrowingStep, NextIsRedisStep, TodoStep
<1>2. \A m \in Msgs : Stored(m) => status'[m] # "none"
  BY <1>1 DEF Growing, Stored
<1>t. pending \subseteq Msgs /\ processing \subseteq Msgs /\ todo \subseteq Msgs
  BY DEF Typed, TypeOK, QueueTypeOK
<1>3. ASSUME NEW m \in pending' \union processing'
      PROVE  status'[m] # "none"
  <2>1. CASE UNCHANGED redisVars
    BY <1>2, <1>3, <1>t, <2>1 DEF redisVars, Known
  <2>2. ASSUME NEW n \in Msgs, NEW msg \in Message, GuardedTx(n, msg)
        PROVE  status'[m] # "none"
    <3>1. /\ pending' \union processing' \subseteq pending \union processing \union {n}
          /\ status'[n] # "none" \/ n \in pending \union processing
             \/ UNCHANGED <<pending, processing>>
      BY <1>2, <2>2 DEF GuardedTx, EnqueueTx, MoveTx, RollbackTx, BecomeDue, LastAttemptAges,
         UpdateMessage, CompleteTx, RetryTx, FailTx, SetMessage, Typed, TypeOK, QueueTypeOK
    <3> QED BY <1>2, <1>3, <1>t, <3>1 DEF Known
  <2> QED BY <1>1, <2>1, <2>2 DEF RedisStep
<1>4. ASSUME NEW m \in todo'
      PROVE  status'[m] # "none"
  BY <1>1, <1>2, <1>4, <1>t DEF Known
<1> QED BY <1>3, <1>4 DEF Known, Stored

LEMMA CountsStep ==
  ASSUME Typed, Progress, Known, Counts, [Next]_vars
  PROVE  Counts'
<1>1. Growing /\ RedisStep
  BY GrowingStep, NextIsRedisStep
<1>t. /\ tries \in [Msgs -> Nat] /\ MaxAttempts \in [Msgs -> Nat]
      /\ record \in [Msgs -> Message]
  BY MaxAttemptsAssumption DEF Typed, TypeOK, QueueTypeOK
<1>2. ASSUME NEW m \in Msgs
      PROVE  tries'[m] \in Nat /\ tries'[m] <= MaxAttempts[m]
  <2>1. tries[m] <= MaxAttempts[m]
    BY DEF Counts
  <2> QED BY <1>t, <2>1, HistoryStep
<1>3. ASSUME NEW m \in Msgs
      PROVE  record'[m].attempts <= tries'[m] \/ tries'[m] = MaxAttempts[m]
  <2>0. /\ record[m].attempts \in Nat
        /\ tries[m] <= MaxAttempts[m]
        /\ record[m].attempts <= tries[m] \/ tries[m] = MaxAttempts[m]
        /\ tries'[m] \in Nat /\ tries[m] <= tries'[m]
        /\ tries[m] = MaxAttempts[m] => tries'[m] = MaxAttempts[m]
    BY <1>1, <1>t DEF Counts, NotOvercounted, Growing, Message
  <2>1. CASE UNCHANGED record
    BY <1>t, <2>0, <2>1
  <2>2. ASSUME NEW n \in Msgs, NEW msg \in Message, GuardedTx(n, msg)
        PROVE  record'[m].attempts <= tries'[m] \/ tries'[m] = MaxAttempts[m]
    <3>1. CASE MoveTx(n) \/ RollbackTx(n) \/ BecomeDue(n)
      BY <2>1, <3>1 DEF MoveTx, RollbackTx, BecomeDue
    <3>2. CASE LastAttemptAges(n)
      <4>1. record'[m].attempts = record[m].attempts
        BY <1>t, <3>2 DEF LastAttemptAges, Message
      <4> QED BY <1>t, <2>0, <4>1
    <3>3. CASE EnqueueTx(n, msg) /\ msg.attempts = 0
      <4>1. record'[m] = IF m = n THEN msg ELSE record[m]
        BY <1>t, <3>3 DEF EnqueueTx, SetMessage
      <4> QED BY <1>t, <2>0, <3>3, <4>1
    <3>4. CASE /\ CompleteTx(n, msg) \/ RetryTx(n, msg) \/ FailTx(n, msg)
               /\ NotOvercounted(msg.attempts, n)
      <4>1. record'[m] = IF m = n THEN msg ELSE record[m]
        BY <1>t, <3>4 DEF CompleteTx, RetryTx, FailTx, SetMessage
      <4>2. msg.attempts \in Nat
        BY DEF Message
      <4> QED BY <1>t, <2>0, <3>4, <4>1, <4>2 DEF NotOvercounted
    <3>5. CASE /\ UpdateMessage(n, msg) /\ NotOvercounted(msg.attempts, n)
               /\ tries' = [tries EXCEPT ![n] = IF @ < MaxAttempts[n] THEN @ + 1 ELSE @]
      <4>1. /\ m = n => record'[m].attempts = msg.attempts + 1
            /\ m # n => record'[m] = record[m]
        BY <1>t, <3>5 DEF UpdateMessage, SetMessage
      <4>2. msg.attempts \in Nat
        BY DEF Message
      <4>3. CASE m = n
        <5>1. tries'[m] = IF tries[m] < MaxAttempts[m] THEN tries[m] + 1 ELSE tries[m]
          BY <1>t, <3>5, <4>3
        <5> QED BY <1>t, <2>0, <3>5, <4>1, <4>2, <4>3, <5>1 DEF NotOvercounted
      <4>4. CASE m # n
        BY <1>t, <2>0, <4>1, <4>4
      <4> QED BY <4>3, <4>4
    <3> QED BY <2>2, <3>1, <3>2, <3>3, <3>4, <3>5 DEF GuardedTx
  <2> QED BY <1>1, <2>1, <2>2 DEF RedisStep, redisVars
<1> QED BY <1>2, <1>3 DEF Counts, NotOvercounted

LEMMA CollectionsStep ==
  ASSUME Typed, Progress, Known, [Next]_vars,
         NeverDropped, StatusAgrees, SentIsDelivered, GivenUpForAReason
  PROVE  NeverDropped' /\ StatusAgrees' /\ SentIsDelivered' /\ GivenUpForAReason'
<1>1. Growing /\ RedisStep
  BY GrowingStep, NextIsRedisStep
<1>t. /\ status \in [Msgs -> Statuses]
      /\ failed \subseteq Msgs /\ sent \subseteq Msgs
  BY DEF Typed, TypeOK, QueueTypeOK
<1>2. NeverDropped'
  <2>1. ASSUME NEW n \in Msgs, NEW msg \in Message, GuardedTx(n, msg), NEW m \in Msgs,
               status'[m] # "none", m \notin sent' \union failed'
        PROVE  m \in pending' \union processing'
    <3>1. status[m] # "none" /\ m \notin sent \union failed
            => m \in pending \union processing
      BY DEF NeverDropped, Stored
    <3> QED BY <1>t, <2>1, <3>1 DEF GuardedTx, EnqueueTx, MoveTx, RollbackTx, BecomeDue,
         LastAttemptAges, UpdateMessage, CompleteTx, RetryTx, FailTx, SetMessage, Stored
  <2> QED BY <1>1, <2>1 DEF RedisStep, redisVars, NeverDropped, Stored
<1>3. StatusAgrees'
  <2>1. ASSUME NEW n \in Msgs, NEW msg \in Message, GuardedTx(n, msg), NEW m \in Msgs
        PROVE  /\ status'[m] \in {"pending", "deferred"} => m \in pending' \union processing'
               /\ status'[m] = "sent" => m \in sent'
               /\ status'[m] = "failed" => m \in failed'
    <3>1. /\ status[m] \in {"pending", "deferred"} => m \in pending \union processing
          /\ status[m] = "sent" => m \in sent
          /\ status[m] = "failed" => m \in failed
      BY DEF StatusAgrees
    <3> QED BY <1>t, <2>1, <3>1 DEF GuardedTx, EnqueueTx, MoveTx, RollbackTx, BecomeDue,
         LastAttemptAges, UpdateMessage, CompleteTx, RetryTx, FailTx, SetMessage
  <2> QED BY <1>1, <2>1 DEF RedisStep, redisVars, StatusAgrees
<1>4. SentIsDelivered'
  <2>1. ASSUME NEW n \in Msgs, NEW msg \in Message, GuardedTx(n, msg)
        PROVE  sent' \subseteq delivered
    BY <2>1 DEF SentIsDelivered, GuardedTx, EnqueueTx, MoveTx, RollbackTx, BecomeDue,
       LastAttemptAges, UpdateMessage, CompleteTx, RetryTx, FailTx
  <2> QED BY <1>1, <2>1 DEF RedisStep, redisVars, SentIsDelivered, Growing
<1>5. GivenUpForAReason'
  <2>1. ASSUME NEW n \in Msgs, NEW msg \in Message, GuardedTx(n, msg)
        PROVE  \A m \in failed' : m \in Msgs /\ Reason(m)
    BY <1>t, <2>1 DEF GivenUpForAReason, Reason, GuardedTx, EnqueueTx, MoveTx, RollbackTx,
       BecomeDue, LastAttemptAges, UpdateMessage, CompleteTx, RetryTx, FailTx
  <2>2. \A m \in failed' : m \in Msgs /\ Reason(m)
    BY <1>1, <1>t, <2>1 DEF RedisStep, redisVars, GivenUpForAReason, Reason
  <2> QED BY <1>1, <2>2 DEF GivenUpForAReason, Reason, Growing
<1> QED BY <1>2, <1>3, <1>4, <1>5

-----------------------------------------------------------------------------
(* The parts about the queue directory.                                      *)

LEMMA NewlyStored ==
  ASSUME Typed, Progress, Known, [Next]_vars
  PROVE  \A m \in Submitted : status[m] = "none" /\ status'[m] # "none"
                               => sub[FileOf[m]] = "queueing"
<1>1. RedisStep
  BY NextIsRedisStep
<1>2. ASSUME NEW n \in Msgs, NEW msg \in Message, GuardedTx(n, msg),
             NEW m \in Submitted, status[m] = "none", status'[m] # "none"
      PROVE  sub[FileOf[m]] = "queueing"
  <2>1. status \in [Msgs -> Statuses] /\ m \in Msgs /\ m \notin Bounces
    BY DEF Typed, TypeOK, QueueTypeOK, Submitted
  <2> QED BY <1>2, <2>1 DEF GuardedTx, Enqueueable, EnqueueTx, MoveTx, RollbackTx, BecomeDue,
       LastAttemptAges, UpdateMessage, CompleteTx, RetryTx, FailTx, SetMessage, Stored
<1> QED BY <1>1, <1>2 DEF RedisStep, redisVars

(* What a step may do to a submission's file and to its progress. *)
FileStepOf(f) ==
  /\ f \in files /\ f \notin files' => sub'[f] = "refused" \/ Outcome(f)
  /\ sub'[f] = "queueing" => sub[f] = "queueing" \/ f \in files'
  /\ sub[f] = "refused" => sub'[f] = "refused"

LEMMA FileStep ==
  ASSUME Typed, Progress, [Next]_vars, NEW f \in SubmittedFiles
  PROVE  FileStepOf(f)
<1> USE EngineAssumption
<1>t. sub \in [SubmittedFiles -> Submissions]
  BY DEF Typed, TypeOK
<1>0. CASE UNCHANGED <<files, sub>>
  BY <1>0 DEF FileStepOf
<1>1. ASSUME NEW w \in Workers, Worker(w)
      PROVE  FileStepOf(f)
  <2>1. CASE SendBounce(w)
    BY <2>1 DEF SendBounce, FileStepOf
  <2>2. CASE CleanupMessageFile(w)
    <3>1. cur[w] \in Msgs /\ cur[w] \in delivered \union rejected
      BY <2>2 DEF CleanupMessageFile, Typed, HoldsMessage, Progress, Fits, Procs
    <3>2. f = FileOf[cur[w]] => Outcome(f)
      BY <3>1 DEF Outcome, MsgsOf
    <3> QED BY <2>2, <3>2 DEF CleanupMessageFile, FileStepOf
  <2>3. CASE ~SendBounce(w) /\ ~CleanupMessageFile(w)
    BY <1>0, <1>1, <2>3 DEF Worker, DequeueQuery, DequeueMove, DequeueGet, DequeueUpdate,
       DequeueRollback, DeliverSuccess, DeliverTimeout, DeliverTemporary, DeliverPermanent,
       DeliverOutcome, CompleteGet, Complete, RetryGet, Retry, FailGet, Fail, EngineUnchanged
  <2> QED BY <2>1, <2>2, <2>3
<1>2. CASE RecoveryWorker
  BY <1>0, <1>2 DEF RecoveryWorker, RecoverScan, RecoverNext, RecoverDone, RetryGet, Retry,
     FailGet, Fail, EngineUnchanged
<1>3. CASE AdminRetry \/ AdminDelete \/ AdminStep
  BY <1>0, <1>3 DEF AdminRetry, AdminDelete, AdminStep, AdminRequeue, FailGet, Fail,
     EngineUnchanged
<1>4. ASSUME NEW g \in SubmittedFiles, Submission(g)
      PROVE  FileStepOf(f)
  <2>1. CASE EnqueueDomain(g) \/ EnqueueTransient(g)
    BY <1>0, <2>1 DEF EnqueueDomain, EnqueueTransient
  <2>2. CASE SaveMessageToQueue(g)
    BY <1>t, <2>2 DEF SaveMessageToQueue, FileStepOf
  <2>3. CASE EnqueueRefused(g) \/ SubmissionAccepted(g)
    BY <1>t, <2>3 DEF EnqueueRefused, SubmissionAccepted, FileStepOf
  <2> QED BY <1>4, <2>1, <2>2, <2>3 DEF Submission
<1>5. CASE Stop \/ UNCHANGED vars
  BY <1>0, <1>5 DEF Stop, vars
<1>6. CASE Restart \/ Crash
  BY <1>6 DEF Restart, Crash, AbortSubmissions, FileStepOf
<1>7. ASSUME NEW m \in Msgs, TimePasses(m) \/ Expire(m)
      PROVE  UNCHANGED <<files, sub>>
  BY <1>7 DEF TimePasses, Expire
<1> QED BY <1>0, <1>1, <1>2, <1>3, <1>4, <1>5, <1>6, <1>7 DEF Next

LEMMA FilesStep ==
  ASSUME Typed, Progress, Known, FileUntilOutcome, QueueingHasFile, [Next]_vars
  PROVE  FileUntilOutcome' /\ QueueingHasFile'
<1>1. \A f \in SubmittedFiles : FileStepOf(f)
  BY FileStep
<1>2. \A f : Outcome(f) => MsgsOf(f) \intersect (delivered' \union rejected') # {}
  BY HistoryStep DEF Outcome
<1>3. FileUntilOutcome'
  <2> SUFFICES ASSUME NEW m \in Submitted, status'[m] # "none", FileOf[m] \notin files',
                      sub'[FileOf[m]] # "refused"
               PROVE  MsgsOf(FileOf[m]) \intersect (delivered' \union rejected') # {}
    BY DEF FileUntilOutcome, Stored, MsgsOf
  <2>1. FileOf[m] \in SubmittedFiles
    BY DEF SubmittedFiles
  <2>2. FileOf[m] \in files \/ Outcome(FileOf[m])
    <3>1. CASE Stored(m)
      BY <1>1, <2>1, <3>1 DEF FileUntilOutcome, FileStepOf, Outcome
    <3>2. CASE ~Stored(m)
      BY <2>1, <3>2, NewlyStored DEF QueueingHasFile, Stored
    <3> QED BY <3>1, <3>2
  <2> QED BY <1>1, <1>2, <2>1, <2>2 DEF FileStepOf
<1>4. QueueingHasFile'
  <2> SUFFICES ASSUME NEW f \in SubmittedFiles, sub'[f] = "queueing", f \notin files'
               PROVE  MsgsOf(f) \intersect (delivered' \union rejected') # {}
    BY DEF QueueingHasFile, Outcome, MsgsOf
  <2> QED BY <1>1, <1>2 DEF FileStepOf, QueueingHasFile
<1> QED BY <1>3, <1>4

-----------------------------------------------------------------------------
(* The inductive invariant and the theorems.                                 *)

LEMMA SafeInit == Init => Safe
<1> SUFFICES ASSUME Init
             PROVE  Safe
  OBVIOUS
<1> USE EngineAssumption, MaxAttemptsAssumption
<1>1. Progress
  BY DEF Init, Progress, Fits
<1>2. Known /\ NeverDropped /\ StatusAgrees /\ SentIsDelivered /\ GivenUpForAReason
  BY DEF Init, QueueInit, Known, NeverDropped, StatusAgrees, SentIsDelivered,
     GivenUpForAReason, Stored
<1>3. Counts
  BY DEF Init, QueueInit, Counts, NotOvercounted, NewMessage
<1>4. FileUntilOutcome /\ QueueingHasFile
  BY DEF Init, QueueInit, FileUntilOutcome, QueueingHasFile, Stored, Submitted
<1> QED BY <1>1, <1>2, <1>3, <1>4 DEF Safe

LEMMA SafeStep == Typed /\ Safe /\ [Next]_vars => Safe'
<1> SUFFICES ASSUME Typed, Safe, [Next]_vars
             PROVE  Safe'
  OBVIOUS
<1>1. Progress'
  BY GrowingStep, ProgressNext DEF Safe
<1>2. Known' /\ Counts'
  BY KnownStep, CountsStep DEF Safe
<1>3. NeverDropped' /\ StatusAgrees' /\ SentIsDelivered' /\ GivenUpForAReason'
  BY CollectionsStep DEF Safe
<1>4. FileUntilOutcome' /\ QueueingHasFile'
  BY FilesStep DEF Safe
<1> QED BY <1>1, <1>2, <1>3, <1>4 DEF Safe

(* The engine's reachable states satisfy the inductive invariant: every process
   that will write "sent" or "failed" or remove a file works on a message that
   entitles it to, and no record counts attempts that were not begun.        *)
THEOREM SafeAlways == Spec => [](Typed /\ Safe)
BY TypedInit, TypedStep, SafeInit, SafeStep, PTL DEF Spec

(* No interleaving of workers, RecoverStale, administrator, failed commands,
   crashes and stops makes the queue drop a stored message.                  *)
THEOREM NothingDropped == Spec => []NeverDropped
<1>1. Safe => NeverDropped
  BY DEF Safe
<1> QED BY SafeAlways, <1>1, PTL

(* The status in a message's record agrees with the collection it is in, in
   spite of the two-step read-modify-write of Complete, Retry and Fail.      *)
THEOREM StatusConsistent == Spec => []StatusAgrees
<1>1. Safe => StatusAgrees
  BY DEF Safe
<1> QED BY SafeAlways, <1>1, PTL

(* Whatever Complete records as sent has been accepted by a remote server. *)
THEOREM SentWasDelivered == Spec => []SentIsDelivered
<1>1. Safe => SentIsDelivered
  BY DEF Safe
<1> QED BY SafeAlways, <1>1, PTL

(* Fail is reached only for a rejected, deleted, expired or exhausted message. *)
THEOREM FailedForAReason == Spec => []GivenUpForAReason
<1>1. Safe => GivenUpForAReason
  BY DEF Safe
<1> QED BY SafeAlways, <1>1, PTL

(* cleanupMessageFile and handleOutbound remove a submission's file only after
   an outcome for one of its messages or after the refusal.                  *)
THEOREM FileKept == Spec => []FileUntilOutcome
<1>1. Safe => FileUntilOutcome
  BY DEF Safe
<1> QED BY SafeAlways, <1>1, PTL

-----------------------------------------------------------------------------
(* The engine implements ReliableQueue.                                      *)

LEMMA DeliveredStep ==
  ASSUME Typed, Progress, [Next]_vars
  PROVE  \/ UNCHANGED delivered
         \/ /\ UNCHANGED redisVars
            /\ \E m \in Msgs : Stored(m) /\ delivered' = delivered \union {m}
<1> USE DEF historyVars
<1>1. ASSUME NEW w \in Workers, DeliverSuccess(w) \/ DeliverTimeout(w)
      PROVE  /\ UNCHANGED redisVars
             /\ \E m \in Msgs : Stored(m) /\ delivered' = delivered \union {m}
  <2>1. pc[w] = "deliver" /\ delivered' = delivered \union {cur[w]} /\ UNCHANGED redisVars
    BY <1>1 DEF DeliverSuccess, DeliverTimeout, DeliverOutcome, redisVars
  <2>2. cur[w] \in Msgs /\ Stored(cur[w])
    BY <2>1 DEF Typed, HoldsMessage, Progress, Fits, Procs
  <2> QED BY <2>1, <2>2
<1>2. ASSUME NEW w \in Workers, Worker(w), ~DeliverSuccess(w), ~DeliverTimeout(w)
      PROVE  UNCHANGED delivered
  BY <1>2 DEF Worker, DequeueQuery, DequeueMove, DequeueGet, DequeueUpdate, DequeueRollback,
     DeliverTemporary, DeliverPermanent, DeliverOutcome, CompleteGet, Complete, RetryGet, Retry,
     FailGet, Fail, SendBounce, CleanupMessageFile
<1>3. CASE RecoveryWorker
  BY <1>3 DEF RecoveryWorker, RecoverScan, RecoverNext, RecoverDone, RetryGet, Retry, FailGet, Fail
<1>4. CASE AdminRetry \/ AdminDelete \/ AdminStep
  BY <1>4 DEF AdminRetry, AdminDelete, AdminStep, AdminRequeue, FailGet, Fail
<1>5. ASSUME NEW f \in SubmittedFiles, Submission(f)
      PROVE  UNCHANGED delivered
  BY <1>5 DEF Submission, SaveMessageToQueue, EnqueueDomain, EnqueueTransient, EnqueueRefused,
     SubmissionAccepted
<1>6. CASE Stop \/ Restart \/ Crash \/ UNCHANGED vars
  BY <1>6 DEF Stop, Restart, Crash, vars
<1>7. ASSUME NEW m \in Msgs, TimePasses(m) \/ Expire(m)
      PROVE  UNCHANGED delivered
  BY <1>7 DEF TimePasses, Expire
<1> QED BY <1>1, <1>2, <1>3, <1>4, <1>5, <1>6, <1>7 DEF Next

(* Each guarded transaction is a step of the contract, or invisible to it. *)
LEMMA TxImplements ==
  ASSUME Typed, NEW m \in Msgs, NEW msg \in Message, GuardedTx(m, msg), UNCHANGED delivered
  PROVE  Contract!Next \/ UNCHANGED Contract!vars
<1> DEFINE taken == {n \in Msgs : Stored(n)}
           active == pending \union processing
<1>t. status \in [Msgs -> Statuses]
  BY DEF Typed, TypeOK, QueueTypeOK
<1>s. ASSUME NEW st \in Statuses \ {"none"}, SetMessage(m, st, msg) \/ status' = [status EXCEPT ![m] = st]
      PROVE  taken' = taken \union {m}
  BY <1>t, <1>s DEF SetMessage, Stored
<1>k. taken' = taken \/ ~(UNCHANGED status)
  BY DEF Stored
<1>1. CASE EnqueueTx(m, msg)
  <2>1. taken' = taken \union {m}
    BY <1>1, <1>s DEF EnqueueTx, Statuses
  <2>2. active' = active \union {m} /\ UNCHANGED <<delivered, sent, failed>>
    BY <1>1 DEF EnqueueTx
  <2>3. Contract!Take(m)
    BY <2>1, <2>2 DEF Contract!Take
  <2> QED BY <2>3 DEF Contract!Next
<1>2. CASE Stored(m) /\ (MoveTx(m) \/ RollbackTx(m))
  <2>1. /\ m \in taken /\ taken' = taken /\ active' = active \union {m}
        /\ UNCHANGED <<delivered, sent, failed>>
    BY <1>2, <1>k DEF MoveTx, RollbackTx
  <2>2. Contract!Reactivate(m)
    BY <2>1 DEF Contract!Reactivate
  <2> QED BY <2>2 DEF Contract!Next
<1>3. CASE BecomeDue(m) \/ LastAttemptAges(m)
  <2>1. taken' = taken /\ active' = active /\ UNCHANGED <<delivered, sent, failed>>
    BY <1>3, <1>k DEF BecomeDue, LastAttemptAges
  <2> QED BY <2>1 DEF Contract!vars
<1>4. CASE Stored(m) /\ UpdateMessage(m, msg)
  <2>1. taken' = taken
    <3>1. status' = [status EXCEPT ![m] = "sending"]
      BY <1>4 DEF UpdateMessage, SetMessage
    <3> QED BY <1>4, <1>s, <3>1 DEF Statuses
  <2>2. active' = active /\ UNCHANGED <<delivered, sent, failed>>
    BY <1>4 DEF UpdateMessage
  <2> QED BY <2>1, <2>2 DEF Contract!vars
<1>5. CASE Stored(m) /\ RetryTx(m, msg)
  <2>1. taken' = taken
    BY <1>5, <1>s DEF RetryTx, Statuses
  <2>2. m \in taken /\ active' = active \union {m} /\ UNCHANGED <<delivered, sent, failed>>
    BY <1>5 DEF RetryTx
  <2>3. Contract!Reactivate(m)
    BY <2>1, <2>2 DEF Contract!Reactivate
  <2> QED BY <2>3 DEF Contract!Next
<1>6. CASE Stored(m) /\ CompleteTx(m, msg) /\ m \in delivered
  <2>1. taken' = taken
    BY <1>6, <1>s DEF CompleteTx, Statuses
  <2>2. /\ active' = active \/ active' = active \ {m}
        /\ sent' = sent \union {m} /\ UNCHANGED <<delivered, failed>>
    BY <1>6 DEF CompleteTx
  <2>3. Contract!MarkSent(m)
    BY <1>6, <2>1, <2>2 DEF Contract!MarkSent
  <2> QED BY <2>3 DEF Contract!Next
<1>7. CASE Stored(m) /\ FailTx(m, msg)
  <2>1. taken' = taken
    BY <1>7, <1>s DEF FailTx, Statuses
  <2>2. /\ active' = active \/ active' = active \ {m}
        /\ failed' = failed \union {m} /\ UNCHANGED <<delivered, sent>>
    BY <1>7 DEF FailTx
  <2>3. Contract!MarkFailed(m)
    BY <1>7, <2>1, <2>2 DEF Contract!MarkFailed
  <2> QED BY <2>3 DEF Contract!Next
<1> QED BY <1>1, <1>2, <1>3, <1>4, <1>5, <1>6, <1>7 DEF GuardedTx

LEMMA StepImplements == Typed /\ Safe /\ [Next]_vars => [Contract!Next]_(Contract!vars)
<1> SUFFICES ASSUME Typed, Safe, [Next]_vars
             PROVE  Contract!Next \/ UNCHANGED Contract!vars
  OBVIOUS
<1>1. RedisStep
  BY NextIsRedisStep DEF Safe
<1>2. CASE UNCHANGED delivered
  BY <1>1, <1>2, TxImplements DEF RedisStep, redisVars, Contract!vars, Stored
<1>3. ASSUME UNCHANGED redisVars, NEW m \in Msgs, Stored(m), delivered' = delivered \union {m}
      PROVE  Contract!Next
  <2>1. Contract!Deliver(m)
    BY <1>3 DEF Contract!Deliver, redisVars, Stored
  <2> QED BY <2>1 DEF Contract!Next
<1> QED BY <1>2, <1>3, DeliveredStep DEF Safe

(* The engine, the recovery worker and the administrator implement the contract
   of the queue: only accepted mail is marked sent and nothing else than an
   outcome ends the activity of a message.                                   *)
THEOREM ImplementsContract == Spec => ContractSpec
<1>1. Init => Contract!Init
  BY DEF Init, QueueInit, Stored, Contract!Init
<1> QED BY <1>1, SafeAlways, StepImplements, PTL DEF Spec, ContractSpec, Contract!Spec
=============================================================================
