--------------------------- MODULE DeliveryEngine ---------------------------
(***************************************************************************)
(* The outbound path: SMTP submissions that write a message file and queue *)
(* one message per destination domain, the delivery workers and the        *)
(* recovery worker of internal/smtp/delivery/delivery.go, the two queue    *)
(* buttons of the administration pages, and what stops them: Redis errors, *)
(* a crash, a graceful stop.  They share the Redis queue (RedisQueue) and  *)
(* the queue directory.                                                    *)
(*                                                                         *)
(* A process is between two steps wherever its Go code waits for Redis,    *)
(* for a remote server or for the file system.  A GetMessage and the       *)
(* transaction that writes the record back are two steps.                  *)
(***************************************************************************)
EXTENDS RedisQueue

CONSTANTS
  Workers,      \* delivery worker goroutines (Config.Workers)
  Recovery,     \* the recoveryWorker goroutine
  Admin,        \* a handler of the administration server
  NoMsg,        \* what an idle process works on
  Bounces,      \* the messages of Msgs that sendBounce creates: null sender
  Files,        \* message files of the queue directory
  FileOf,       \* MessagePath of each message: one file for all domains
  EventKinds,   \* bound: which disturbances happen
  MaxEvents     \* bound: how many of them, all kinds together

ASSUME EngineAssumption ==
  /\ Recovery \notin Workers
  /\ Admin \notin Workers
  /\ Recovery # Admin
  /\ NoMsg \notin Msgs
  /\ Bounces \subseteq Msgs
  /\ FileOf \in [Msgs -> Files]
  /\ \A b \in Bounces, m \in Msgs : FileOf[b] = FileOf[m] => b = m
  /\ EventKinds \subseteq {"fault", "stop", "crash", "admin", "overlap"}
  /\ MaxEvents \in Nat

Procs == Workers \union {Recovery, Admin}

(* The messages that clients submit, and the files they are submitted with. *)
Submitted == Msgs \ Bounces
SubmittedFiles == {FileOf[m] : m \in Submitted}
MsgsOf(f) == {m \in Msgs : FileOf[m] = f}

VARIABLES
  pc,         \* where each process is
  cur,        \* the message each process works on
  copy,       \* the record it has read with GetMessage and will write back
  todo,       \* what is left of RecoverStale's list of processing ids
  files,      \* files that exist in the queue directory
  sub,        \* progress of the submission of each file
  acked,      \* messages whose Enqueue returned nil to the submission
  stopping,   \* Engine.Stop has cancelled the engine's context
  expired,    \* messages older than RetryMaxAge
  delivered,  \* history: messages a remote server has accepted
  rejected,   \* history: messages with a permanent delivery error
  deleted,    \* history: messages the administrator deleted
  tries,      \* history: attempts begun, counted up to MaxAttempts
  events      \* how much of MaxEvents is used

localVars == <<pc, cur, copy>>
historyVars == <<delivered, rejected, deleted, tries>>
vars == <<redisVars, localVars, todo, files, sub, acked, stopping, expired,
          historyVars, events>>

PCs == {"idle", "move", "get", "rollback", "update", "deliver",
        "complete", "completeTx", "retry", "retryTx", "giveUp", "giveUpTx",
        "reject", "rejectTx", "bounce", "cleanup",
        "scan", "requeue", "delete", "deleteTx"}

Submissions == {"new", "queueing", "accepted", "refused", "aborted"}

TypeOK ==
  /\ QueueTypeOK
  /\ pc \in [Procs -> PCs]
  /\ cur \in [Procs -> Msgs \union {NoMsg}]
  /\ copy \in [Procs -> Message]
  /\ todo \subseteq Msgs
  /\ files \subseteq Files
  /\ sub \in [SubmittedFiles -> Submissions]
  /\ acked \subseteq Submitted
  /\ stopping \in BOOLEAN
  /\ expired \subseteq Msgs
  /\ delivered \subseteq Msgs
  /\ rejected \subseteq Msgs
  /\ deleted \subseteq Msgs
  /\ tries \in [Msgs -> Nat]
  /\ events \in 0..MaxEvents

Init ==
  /\ QueueInit
  /\ pc = [p \in Procs |-> "idle"]
  /\ cur = [p \in Procs |-> NoMsg]
  /\ copy = [p \in Procs |-> NewMessage]
  /\ todo = {}
  /\ files = {}
  /\ sub = [f \in SubmittedFiles |-> "new"]
  /\ acked = {}
  /\ stopping = FALSE
  /\ expired = {}
  /\ delivered = {}
  /\ rejected = {}
  /\ deleted = {}
  /\ tries = [m \in Msgs |-> 0]
  /\ events = 0

-----------------------------------------------------------------------------
(* Control and Redis results.                                                *)

Become(p, next, m, msg) ==
  /\ pc' = [pc EXCEPT ![p] = next]
  /\ cur' = [cur EXCEPT ![p] = m]
  /\ copy' = [copy EXCEPT ![p] = msg]

(* The next step on the same message; a process that has done with the message
   forgets it.                                                               *)
Goto(p, next) ==
  Become(p, next, IF next \in {"idle", "scan"} THEN NoMsg ELSE cur[p], NewMessage)

(* The end of Retry or Fail: the recovery worker goes on with its list. *)
Return(p) == Goto(p, IF p = Recovery THEN "scan" ELSE "idle")

(* A disturbance, within the bound. *)
Event(kind) ==
  /\ kind \in EventKinds
  /\ events < MaxEvents
  /\ events' = events + 1

(* The engine's goroutines call Redis with the engine's context: once it is
   cancelled every call returns an error before it is sent.                  *)
Cancelled(p) == stopping /\ p # Admin

(* A command (or transaction) that succeeds. *)
RedisOK(p, Tx) ==
  /\ ~Cancelled(p)
  /\ Tx
  /\ UNCHANGED events

(* A command that returns an error.  A lost answer leaves it open whether the
   server has executed it.                                                   *)
RedisError(p, Tx) ==
  \/ /\ Cancelled(p)
     /\ UNCHANGED <<redisVars, events>>
  \/ /\ ~Cancelled(p)
     /\ Event("fault")
     /\ Tx \/ UNCHANGED redisVars

(* GetMessage: the record is read into the caller's copy. *)
GetMessage(p, next) ==
  /\ RedisOK(p, UNCHANGED redisVars)
  /\ Become(p, next, cur[p], record[cur[p]])

GetMessageError(p) == RedisError(p, UNCHANGED redisVars)

EngineUnchanged == UNCHANGED <<todo, files, sub, acked, stopping, expired>>

-----------------------------------------------------------------------------
(* RedisQueue.Dequeue, called by a worker.                                   *)

(* ZRANGEBYSCORE pending -inf now, one result; the scores order the due
   messages, which the model leaves open.                                    *)
DequeueQuery(w) ==
  /\ pc[w] = "idle"
  /\ ~stopping
  /\ \E m \in due : Become(w, "move", m, NewMessage)
  /\ EngineUnchanged
  /\ UNCHANGED <<redisVars, historyVars, events>>

DequeueMove(w) ==
  /\ pc[w] = "move"
  /\ \/ RedisOK(w, MoveTx(cur[w])) /\ Goto(w, "get")
     \/ RedisError(w, MoveTx(cur[w])) /\ Return(w)
  /\ EngineUnchanged
  /\ UNCHANGED historyVars

DequeueGet(w) ==
  /\ pc[w] = "get"
  /\ \/ GetMessage(w, "update")
     \/ GetMessageError(w) /\ Goto(w, "rollback")
  /\ EngineUnchanged
  /\ UNCHANGED historyVars

DequeueUpdate(w) ==
  /\ pc[w] = "update"
  /\ \/ RedisOK(w, UpdateMessage(cur[w], copy[w])) /\ Goto(w, "deliver")
     \/ RedisError(w, UpdateMessage(cur[w], copy[w])) /\ Goto(w, "rollback")
  /\ tries' = [tries EXCEPT ![cur[w]] = IF @ < MaxAttempts[cur[w]] THEN @ + 1 ELSE @]
  /\ EngineUnchanged
  /\ UNCHANGED <<delivered, rejected, deleted>>

DequeueRollback(w) ==
  /\ pc[w] = "rollback"
  /\ \/ RedisOK(w, RollbackTx(cur[w]))
     \/ RedisError(w, RollbackTx(cur[w]))
  /\ Return(w)
  /\ EngineUnchanged
  /\ UNCHANGED historyVars

-----------------------------------------------------------------------------
(* Engine.deliverMessage.                                                    *)

DeliverOutcome(w, next) ==
  /\ pc[w] = "deliver"
  /\ Goto(w, next)
  /\ EngineUnchanged
  /\ UNCHANGED <<redisVars, events, deleted, tries>>

(* The remote server accepts the message and Execute returns nil. *)
DeliverSuccess(w) ==
  /\ DeliverOutcome(w, "complete")
  /\ FileOf[cur[w]] \in files
  /\ delivered' = delivered \union {cur[w]}
  /\ UNCHANGED rejected

(* The remote server accepts the message after Execute has timed out, so the
   worker sees ErrCircuitTimeout, a temporary error.                         *)
DeliverTimeout(w) ==
  /\ DeliverOutcome(w, "retry")
  /\ FileOf[cur[w]] \in files
  /\ delivered' = delivered \union {cur[w]}
  /\ UNCHANGED rejected

(* Fault: a temporary error is taken for a success. *)
DeliverTemporaryCompletes(w) ==
  /\ DeliverOutcome(w, "complete")
  /\ UNCHANGED <<delivered, rejected>>

(* The domain's breaker is open, or the attempt ends in a temporary error:
   no connection, a 4xx answer, a message file that cannot be read.          *)
DeliverTemporary(w) ==
  /\ DeliverOutcome(w, "retry")
  /\ UNCHANGED <<delivered, rejected>>

(* isPermanentError: a 5xx answer, or an error whose text contains one of the
   codes 550 to 554, as the digits of an unreadable file's name can.         *)
DeliverPermanent(w) ==
  /\ DeliverOutcome(w, "reject")
  /\ rejected' = rejected \union {cur[w]}
  /\ UNCHANGED delivered

(* Complete: its error is ignored, the worker goes on to remove the file. *)
CompleteGet(w) ==
  /\ pc[w] = "complete"
  /\ \/ GetMessage(w, "completeTx")
     \/ GetMessageError(w) /\ Goto(w, "cleanup")
  /\ EngineUnchanged
  /\ UNCHANGED historyVars

Complete(w) ==
  /\ pc[w] = "completeTx"
  /\ \/ RedisOK(w, CompleteTx(cur[w], copy[w]))
     \/ RedisError(w, CompleteTx(cur[w], copy[w]))
  /\ Goto(w, "cleanup")
  /\ EngineUnchanged
  /\ UNCHANGED historyVars

(* Retry, called by a worker or by RecoverStale: read, then decide. *)
RetryGet(p) ==
  /\ pc[p] = "retry"
  /\ \/ /\ GiveUp(cur[p], record[cur[p]], cur[p] \in expired)
        /\ RedisOK(p, UNCHANGED redisVars)
        /\ Goto(p, "giveUp")
     \/ /\ ~GiveUp(cur[p], record[cur[p]], cur[p] \in expired)
        /\ GetMessage(p, "retryTx")
     \/ GetMessageError(p) /\ Return(p)
  /\ EngineUnchanged
  /\ UNCHANGED historyVars

Retry(p) ==
  /\ pc[p] = "retryTx"
  /\ \/ RedisOK(p, RetryTx(cur[p], copy[p]))
     \/ RedisError(p, RetryTx(cur[p], copy[p]))
  /\ Return(p)
  /\ EngineUnchanged
  /\ UNCHANGED historyVars

(* Fail reads the record again; `at' is the caller, `next' what follows it. *)
FailGet(p, at, atTx, next) ==
  /\ pc[p] = at
  /\ \/ GetMessage(p, atTx)
     \/ GetMessageError(p) /\ Goto(p, next)
  /\ EngineUnchanged
  /\ UNCHANGED historyVars

Fail(p, atTx, next) ==
  /\ pc[p] = atTx
  /\ \/ RedisOK(p, FailTx(cur[p], copy[p]))
     \/ RedisError(p, FailTx(cur[p], copy[p]))
  /\ Goto(p, next)
  /\ EngineUnchanged
  /\ UNCHANGED historyVars

ShouldBounce(m) == m \notin Bounces

(* sendBounce writes a file of its own and queues a message with it; when
   Enqueue reports an error the file is removed again.  Bounces is the bound on
   how many are sent.                                                        *)
SendBounce(w) ==
  /\ pc[w] = "bounce"
  /\ Goto(w, "cleanup")
  /\ \/ /\ ShouldBounce(cur[w])
        /\ \E b \in {b \in Bounces : ~Stored(b)} :
             \/ /\ RedisOK(w, EnqueueTx(b, NewMessage))
                /\ files' = files \union {FileOf[b]}
             \/ /\ RedisError(w, EnqueueTx(b, NewMessage))
                /\ UNCHANGED files
     \/ /\ ~ShouldBounce(cur[w]) \/ \A b \in Bounces : Stored(b)
        /\ UNCHANGED <<redisVars, files, events>>
  /\ UNCHANGED <<todo, sub, acked, stopping, expired, historyVars>>

(* cleanupMessageFile: os.Remove, whoever else's MessagePath it is. *)
CleanupMessageFile(w) ==
  /\ pc[w] = "cleanup"
  /\ files' = files \ {FileOf[cur[w]]}
  /\ Return(w)
  /\ UNCHANGED <<redisVars, todo, sub, acked, stopping, expired,
                 historyVars, events>>

Worker(w) ==
  \/ DequeueQuery(w) \/ DequeueMove(w) \/ DequeueGet(w)
  \/ DequeueUpdate(w) \/ DequeueRollback(w)
  \/ DeliverSuccess(w) \/ DeliverTimeout(w)
  \/ DeliverTemporary(w) \/ DeliverPermanent(w)
  \/ CompleteGet(w) \/ Complete(w)
  \/ RetryGet(w) \/ Retry(w)
  \/ FailGet(w, "giveUp", "giveUpTx", "idle") \/ Fail(w, "giveUpTx", "idle")
  \/ FailGet(w, "reject", "rejectTx", "bounce") \/ Fail(w, "rejectTx", "bounce")
  \/ SendBounce(w) \/ CleanupMessageFile(w)

-----------------------------------------------------------------------------
(* Engine.recoveryWorker and RedisQueue.RecoverStale.                        *)

(* No process is in the middle of handling m.  An attempt ends within the
   breaker's ExecutionTimeout of 2 minutes and the Redis timeouts; the shortest
   backoff (5 minutes) and the stale threshold (10 minutes) are longer, so
   these times pass only while no process handles the message.               *)
Quiet(m) == \A p \in Procs : cur[p] # m

(* SMEMBERS processing: the list the loop will go through. *)
RecoverScan ==
  /\ pc[Recovery] = "idle"
  /\ ~stopping
  /\ processing # {}
  /\ todo' = processing
  /\ Goto(Recovery, "scan")
  /\ UNCHANGED <<redisVars, files, sub, acked, stopping, expired,
                 historyVars, events>>

(* One round of the loop: GetMessage, and Retry when LastAttempt is old.  A
   record that cannot be read is skipped.                                    *)
RecoverNext ==
  /\ pc[Recovery] = "scan"
  /\ \E m \in todo :
       /\ todo' = todo \ {m}
       /\ \/ /\ ~Cancelled(Recovery)
             /\ ~record[m].recent
             /\ \/ Quiet(m) /\ UNCHANGED events
                \/ ~Quiet(m) /\ Event("overlap")
             /\ Become(Recovery, "retry", m, NewMessage)
             /\ UNCHANGED redisVars
          \/ /\ RedisOK(Recovery, UNCHANGED redisVars)
             /\ record[m].recent
             /\ UNCHANGED localVars
          \/ /\ RedisError(Recovery, UNCHANGED redisVars)
             /\ UNCHANGED localVars
  /\ UNCHANGED <<files, sub, acked, stopping, expired, historyVars>>

RecoverDone ==
  /\ pc[Recovery] = "scan"
  /\ todo = {}
  /\ Goto(Recovery, "idle")
  /\ UNCHANGED <<redisVars, todo, files, sub, acked, stopping,
                 expired, historyVars, events>>

RecoveryWorker ==
  \/ RecoverScan \/ RecoverNext \/ RecoverDone
  \/ RetryGet(Recovery) \/ Retry(Recovery)
  \/ FailGet(Recovery, "giveUp", "giveUpTx", "scan")
  \/ Fail(Recovery, "giveUpTx", "scan")

-----------------------------------------------------------------------------
(* The administrator's queue page.                                           *)

(* handleQueueRetry: GetMessage, of a message in any collection. *)
AdminRetry ==
  /\ pc[Admin] = "idle"
  /\ ~stopping
  /\ Event("admin")
  /\ \E m \in {m \in Msgs : Stored(m)} :
       Become(Admin, "requeue", m, record[m])
  /\ UNCHANGED <<redisVars, todo, files, sub, acked, stopping, expired,
                 historyVars>>

(* handleQueueRetry: Enqueue of that record with its attempts reset. *)
AdminRequeue ==
  /\ pc[Admin] = "requeue"
  /\ LET msg == [copy[Admin] EXCEPT !.attempts = 0]
     IN  \/ RedisOK(Admin, EnqueueTx(cur[Admin], msg))
         \/ RedisError(Admin, EnqueueTx(cur[Admin], msg))
  /\ Return(Admin)
  /\ EngineUnchanged
  /\ UNCHANGED historyVars

(* handleQueueDelete: Fail, of a message in any collection. *)
AdminDelete ==
  /\ pc[Admin] = "idle"
  /\ ~stopping
  /\ Event("admin")
  /\ \E m \in {m \in Msgs : Stored(m)} :
       /\ Become(Admin, "delete", m, NewMessage)
       /\ deleted' = deleted \union {m}
  /\ UNCHANGED <<redisVars, todo, files, sub, acked, stopping, expired,
                 delivered, rejected, tries>>

AdminStep ==
  \/ AdminRequeue
  \/ FailGet(Admin, "delete", "deleteTx", "idle")
  \/ Fail(Admin, "deleteTx", "idle")

-----------------------------------------------------------------------------
(* Session.handleOutbound and Engine.Enqueue: one submission per file.       *)

(* Fault: the file stays under its temporary name. *)
SaveMessageToQueueUnrenamed(f) ==
  /\ sub[f] = "new"
  /\ ~stopping
  /\ sub' = [sub EXCEPT ![f] = "queueing"]
  /\ UNCHANGED <<redisVars, localVars, todo, files, acked, stopping, expired,
                 historyVars, events>>

(* saveMessageToQueue: write and rename. *)
SaveMessageToQueue(f) ==
  /\ sub[f] = "new"
  /\ ~stopping
  /\ files' = files \union {f}
  /\ sub' = [sub EXCEPT ![f] = "queueing"]
  /\ UNCHANGED <<redisVars, localVars, todo, acked, stopping, expired,
                 historyVars, events>>

(* Engine.Enqueue: one queue message for the next domain. *)
EnqueueDomain(f) ==
  /\ sub[f] = "queueing"
  /\ \E m \in MsgsOf(f) \ acked :
       /\ EnqueueTx(m, NewMessage)
       /\ acked' = acked \union {m}
  /\ UNCHANGED <<localVars, todo, files, sub, stopping, expired, historyVars,
                 events>>

(* Fault: the file is removed although Enqueue goes on. *)
EnqueueTransientRemoves(f) ==
  /\ sub[f] = "queueing"
  /\ Event("fault")
  /\ \E m \in MsgsOf(f) \ acked : EnqueueTx(m, NewMessage) \/ UNCHANGED redisVars
  /\ files' = files \ {f}
  /\ UNCHANGED <<localVars, todo, sub, acked, stopping, expired, historyVars>>

(* A transient error of the transaction: Enqueue tries again with the same id
   and the same record, although the server may have executed it.            *)
EnqueueTransient(f) ==
  /\ sub[f] = "queueing"
  /\ Event("fault")
  /\ \E m \in MsgsOf(f) \ acked : EnqueueTx(m, NewMessage) \/ UNCHANGED redisVars
  /\ UNCHANGED <<localVars, todo, files, sub, acked, stopping, expired,
                 historyVars>>

(* Another error, or the third transient one: the submission is refused with
   451 and handleOutbound removes the file.                                  *)
EnqueueRefused(f) ==
  /\ sub[f] = "queueing"
  /\ Event("fault")
  /\ \E m \in MsgsOf(f) \ acked : EnqueueTx(m, NewMessage) \/ UNCHANGED redisVars
  /\ files' = files \ {f}
  /\ sub' = [sub EXCEPT ![f] = "refused"]
  /\ UNCHANGED <<localVars, todo, acked, stopping, expired, historyVars>>

SubmissionAccepted(f) ==
  /\ sub[f] = "queueing"
  /\ MsgsOf(f) \subseteq acked
  /\ sub' = [sub EXCEPT ![f] = "accepted"]
  /\ UNCHANGED <<redisVars, localVars, todo, files, acked, stopping, expired,
                 historyVars, events>>

Submission(f) ==
  \/ SaveMessageToQueue(f) \/ EnqueueDomain(f) \/ EnqueueTransient(f)
  \/ EnqueueRefused(f) \/ SubmissionAccepted(f)

-----------------------------------------------------------------------------
(* Stop, crash, start, and the passing of time.                              *)

(* Engine.Stop cancels the context and waits for the goroutines. *)
Stop ==
  /\ ~stopping
  /\ Event("stop")
  /\ stopping' = TRUE
  /\ UNCHANGED <<redisVars, localVars, todo, files, sub, acked, expired,
                 historyVars>>

(* What the end of the server process leaves of a submission under way. *)
AbortSubmissions ==
  sub' = [f \in SubmittedFiles |->
            IF sub[f] = "queueing" THEN "aborted" ELSE sub[f]]

(* The server has stopped (every goroutine returned) and is started again. *)
Restart ==
  /\ stopping
  /\ \A p \in Procs : pc[p] = "idle"
  /\ stopping' = FALSE
  /\ AbortSubmissions
  /\ UNCHANGED <<redisVars, localVars, todo, files, acked, expired,
                 historyVars, events>>

(* The server process dies at any point and is started again: what is left is
   Redis and the queue directory.                                            *)
Crash ==
  /\ Event("crash")
  /\ pc' = [p \in Procs |-> "idle"]
  /\ cur' = [p \in Procs |-> NoMsg]
  /\ copy' = [p \in Procs |-> NewMessage]
  /\ todo' = {}
  /\ stopping' = FALSE
  /\ AbortSubmissions
  /\ UNCHANGED <<redisVars, files, acked, expired, historyVars>>

TimePasses(m) ==
  /\ Quiet(m)
  /\ BecomeDue(m) \/ LastAttemptAges(m)
  /\ UNCHANGED <<localVars, todo, files, sub, acked, stopping, expired,
                 historyVars, events>>

(* The message becomes older than RetryMaxAge. *)
Expire(m) ==
  /\ m \in (pending \union processing) \ expired
  /\ expired' = expired \union {m}
  /\ UNCHANGED <<redisVars, localVars, todo, files, sub, acked, stopping,
                 historyVars, events>>

Next ==
  \/ \E w \in Workers : Worker(w)
  \/ RecoveryWorker
  \/ AdminRetry \/ AdminDelete \/ AdminStep
  \/ \E f \in SubmittedFiles : Submission(f)
  \/ Stop \/ Restart \/ Crash
  \/ \E m \in Msgs : TimePasses(m) \/ Expire(m)

Spec == Init /\ [][Next]_vars

(* Goroutines are scheduled, timers fire and time passes.  Nothing makes a
   command fail, the server stop or the administrator act.                   *)
Fairness ==
  /\ \A w \in Workers : WF_vars(Worker(w))
  /\ WF_vars(RecoveryWorker)
  /\ WF_vars(AdminStep)
  /\ \A f \in SubmittedFiles : WF_vars(Submission(f))
  /\ WF_vars(Restart)
  /\ \A m \in Msgs : WF_vars(TimePasses(m)) /\ WF_vars(Expire(m))

FairSpec == Spec /\ Fairness

-----------------------------------------------------------------------------
(* Properties.                                                               *)

(* A stored message that is neither in the sent nor in the failed collection
   is in pending or processing, whatever workers, recovery and administrator
   do to it at the same time and wherever a command fails or the server dies:
   Dequeue, Retry, Complete and Fail never drop an id.                       *)
NeverDropped ==
  \A m \in Msgs : Stored(m) /\ m \notin sent \union failed
                   => m \in pending \union processing

(* The status in a record agrees with the collections: a record that says it
   waits for delivery belongs to an id the workers or RecoverStale will find,
   and one that says sent or failed to an id in that collection, although
   records are read and written back in two steps by several processes.      *)
StatusAgrees ==
  \A m \in Msgs :
    /\ status[m] \in {"pending", "deferred"} => m \in pending \union processing
    /\ status[m] = "sent" => m \in sent
    /\ status[m] = "failed" => m \in failed

(* Only a message that a remote server has accepted is recorded as sent: no
   path through timeouts, breaker and retries reaches Complete without it.   *)
SentIsDelivered == sent \subseteq delivered

(* The file of a submitted message exists until some message queued with that
   file is delivered or permanently rejected, or the submission was refused:
   no restart, retry or recovery removes mail that was never tried.          *)
FileUntilOutcome ==
  \A m \in Submitted :
    Stored(m) /\ FileOf[m] \notin files
      => \/ sub[FileOf[m]] = "refused"
         \/ MsgsOf(FileOf[m]) \intersect (delivered \union rejected) # {}

(* A message is failed only because a server rejected it, the administrator
   deleted it, it is too old, or MaxAttempts attempts were begun: concurrent
   read-modify-write of the record never counts an attempt twice.            *)
GivenUpForAReason ==
  \A m \in failed :
    m \in rejected \union deleted \union expired \/ tries[m] = MaxAttempts[m]

(* The queue implements the contract of ReliableQueue. *)
Contract == INSTANCE ReliableQueue
              WITH taken <- {m \in Msgs : Stored(m)},
                   active <- pending \union processing
ContractSpec == Contract!Spec

(* Every stored message is eventually recorded as sent or failed, through lost
   answers, a crash or a stop: RecoverStale and the limits on attempts and age
   see to it.                                                                *)
EverySettled == \A m \in Msgs : Stored(m) ~> m \in sent \union failed

(* The active collections are eventually empty for good. *)
EventuallyDrained == <>[](pending \union processing = {})

-----------------------------------------------------------------------------
(* What comments of the source say and the code does not do.                 *)

(* "Atomically move to processing queue" (Dequeue): a message that one worker
   has moved to processing is not handed to another one as well.             *)
OneWorkerPerMessage ==
  \A v, w \in Workers :
    v # w /\ cur[v] = cur[w] /\ cur[v] # NoMsg => "move" \in {pc[v], pc[w]}

(* "Mark the message as permanently failed (removes from active queues)"
   (handleQueueDelete): a message deleted and failed is in no active queue.  *)
DeletedLeavesQueues ==
  \A m \in deleted : status[m] = "failed" => m \notin pending \union processing

(* "cleanupMessageFile safely removes a message file after delivery": a message
   that still waits for its delivery keeps its file.                         *)
WaitingKeepsFile ==
  \A m \in Submitted \ (delivered \union rejected) :
    status[m] \in {"pending", "deferred"} /\ sub[FileOf[m]] # "refused"
      => FileOf[m] \in files
=============================================================================
