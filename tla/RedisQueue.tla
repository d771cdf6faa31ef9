----------------------------- MODULE RedisQueue -----------------------------
(***************************************************************************)
(* The outbound queue of internal/queue/redis.go as it lies in Redis: four *)
(* collections of message ids and one JSON record per id.  Every operator  *)
(* below that changes the collections is one MULTI/EXEC transaction (or    *)
(* one SET) of the code, so it is one atomic step; the Go methods that     *)
(* issue several commands are sequences of such steps, taken by the        *)
(* processes of module DeliveryEngine.                                     *)
(*                                                                         *)
(* Time is abstract.  `due' is the part of `pending' whose score           *)
(* (NextAttempt) is not after the present; a record is `recent' while its  *)
(* LastAttempt is within the stale threshold of the recovery worker.       *)
(***************************************************************************)
EXTENDS Naturals, FiniteSets

CONSTANTS
  Msgs,         \* message ids
  MaxAttempts   \* Message.MaxAttempts of each (Enqueue sets it from MaxRetries)

ASSUME MaxAttemptsAssumption == MaxAttempts \in [Msgs -> Nat \ {0}]

VARIABLES
  pending,      \* members of the zset <prefix>:pending
  due,          \* those of them with a score not after now
  processing,   \* the set <prefix>:processing
  sent,         \* members of the zset <prefix>:sent
  failed,       \* members of the zset <prefix>:failed
  status,       \* Status in the JSON value of <prefix>:message:<id>
  record        \* the other fields of that value

redisVars == <<pending, due, processing, sent, failed, status, record>>

(* Status of redis.go; "none" stands for a key that was never written. *)
Statuses == {"none", "pending", "sending", "deferred", "sent", "failed"}

Message == [attempts: Nat, recent: BOOLEAN]

(* A message before Enqueue: no attempt made, LastAttempt is the zero time. *)
NewMessage == [attempts |-> 0, recent |-> FALSE]

QueueTypeOK ==
  /\ pending \subseteq Msgs
  /\ due \subseteq pending
  /\ processing \subseteq Msgs
  /\ sent \subseteq Msgs
  /\ failed \subseteq Msgs
  /\ status \in [Msgs -> Statuses]
  /\ record \in [Msgs -> Message]

QueueInit ==
  /\ pending = {}
  /\ due = {}
  /\ processing = {}
  /\ sent = {}
  /\ failed = {}
  /\ status = [m \in Msgs |-> "none"]
  /\ record = [m \in Msgs |-> NewMessage]

Stored(m) == status[m] # "none"

(* SET message:<id>: every method that writes a record sets its status. *)
SetMessage(m, st, msg) ==
  /\ status' = [status EXCEPT ![m] = st]
  /\ record' = [record EXCEPT ![m] = msg]

-----------------------------------------------------------------------------
(* The transaction of Enqueue: SET message, ZADD pending at NextAttempt = now
   (a new message) or at the time the administrator asked for a retry.       *)
EnqueueTx(m, msg) ==
  /\ SetMessage(m, "pending", msg)
  /\ pending' = pending \union {m}
  /\ due' = due \union {m}
  /\ UNCHANGED <<processing, sent, failed>>

(* Fault: the move forgets SADD processing. *)
MoveTxLosing(m) ==
  /\ pending' = pending \ {m}
  /\ due' = due \ {m}
  /\ UNCHANGED <<processing, sent, failed, status, record>>

(* Dequeue's move: ZREM pending, SADD processing.  The number of removed
   members is not looked at.                                                 *)
MoveTx(m) ==
  /\ pending' = pending \ {m}
  /\ due' = due \ {m}
  /\ processing' = processing \union {m}
  /\ UNCHANGED <<sent, failed, status, record>>

(* Fault: the rollback forgets ZADD pending. *)
RollbackTxLosing(m) ==
  /\ processing' = processing \ {m}
  /\ UNCHANGED <<pending, due, sent, failed, status, record>>

(* Dequeue's rollback: SREM processing, ZADD pending with the old score. *)
RollbackTx(m) ==
  /\ processing' = processing \ {m}
  /\ pending' = pending \union {m}
  /\ due' = due \union {m}
  /\ UNCHANGED <<sent, failed, status, record>>

(* Dequeue's updateMessage: the record read before, with one more attempt. *)
UpdateMessage(m, msg) ==
  /\ SetMessage(m, "sending", [attempts |-> msg.attempts + 1, recent |-> TRUE])
  /\ UNCHANGED <<pending, due, processing, sent, failed>>

(* Fault: Complete forgets ZADD sent. *)
CompleteTxUnrecorded(m, msg) ==
  /\ processing' = processing \ {m}
  /\ SetMessage(m, "sent", msg)
  /\ UNCHANGED <<pending, due, sent, failed>>

(* The transaction of Complete. *)
CompleteTx(m, msg) ==
  /\ processing' = processing \ {m}
  /\ sent' = sent \union {m}
  /\ SetMessage(m, "sent", msg)
  /\ UNCHANGED <<pending, due, failed>>

(* Fault: one attempt is not made. *)
GiveUpEarly(m, msg, tooOld) == msg.attempts + 1 >= MaxAttempts[m] \/ tooOld

(* Retry gives the message up when its attempts are used up or it is older
   than RetryMaxAge.                                                         *)
GiveUp(m, msg, tooOld) == msg.attempts >= MaxAttempts[m] \/ tooOld

(* Fault: a status the other methods do not know. *)
RetryTxMislabelled(m, msg) ==
  /\ processing' = processing \ {m}
  /\ pending' = pending \union {m}
  /\ due' = due \ {m}
  /\ SetMessage(m, "retry", msg)
  /\ UNCHANGED <<sent, failed>>

(* Fault: Retry forgets ZADD pending. *)
RetryTxLosing(m, msg) ==
  /\ processing' = processing \ {m}
  /\ SetMessage(m, "deferred", msg)
  /\ UNCHANGED <<pending, due, sent, failed>>

(* The transaction of Retry; NextAttempt is at least 5 minutes ahead. *)
RetryTx(m, msg) ==
  /\ processing' = processing \ {m}
  /\ pending' = pending \union {m}
  /\ due' = due \ {m}
  /\ SetMessage(m, "deferred", msg)
  /\ UNCHANGED <<sent, failed>>

(* Fault: Fail forgets SREM processing. *)
FailTxKeeping(m, msg) ==
  /\ failed' = failed \union {m}
  /\ SetMessage(m, "failed", msg)
  /\ UNCHANGED <<pending, due, processing, sent>>

(* The transaction of Fail: it leaves `pending' as it is. *)
FailTx(m, msg) ==
  /\ processing' = processing \ {m}
  /\ failed' = failed \union {m}
  /\ SetMessage(m, "failed", msg)
  /\ UNCHANGED <<pending, due, sent>>

-----------------------------------------------------------------------------
(* The passing of time: the score of a pending message is reached. *)
BecomeDue(m) ==
  /\ m \in pending \ due
  /\ due' = due \union {m}
  /\ UNCHANGED <<pending, processing, sent, failed, status, record>>

(* The passing of time: LastAttempt falls behind the stale threshold. *)
LastAttemptAges(m) ==
  /\ record[m].recent
  /\ record' = [record EXCEPT ![m].recent = FALSE]
  /\ UNCHANGED <<pending, due, processing, sent, failed, status>>
=============================================================================
