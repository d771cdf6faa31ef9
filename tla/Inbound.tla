------------------------------- MODULE Inbound -------------------------------
(***************************************************************************)
(* Local delivery (internal/smtp backend.go with internal/auth and the     *)
(* Sieve executor): SMTP sessions deliver, in parallel, to the recipients  *)
(* of their messages, all of which reach one account, directly, by an      *)
(* alias, or an alias that forwards outside; an administrator deletes the  *)
(* account or edits its script meanwhile; database, disk and queue fail.   *)
(* Every message has size 1.  Main always configures a delivery engine.    *)
(***************************************************************************)
EXTENDS Sieve, FiniteSets

CONSTANTS
  Sessions,      \* SMTP sessions, one message each
  Submitters,    \* those on the submission port
  LocalAddrs,    \* addresses of the account: its own and its aliases
  ForwardAddrs,  \* aliases with an external destination
  Scripts,       \* the active script may be any of these sequences of rules
  Quota,         \* quota_bytes, in messages
  Envelopes,     \* the sequences of local recipients a message may have
  MaxMishaps     \* bound on failing calls and changes by the administrator

ASSUME InboundAssumption ==
  /\ IsFiniteSet(Sessions) /\ Quota \in Nat /\ MaxMishaps \in Nat
  /\ Envelopes \subseteq Seq(LocalAddrs \union ForwardAddrs)

VARIABLES
  acct,      \* the account's rows: state, script, boxes, used_bytes, vacation record
  stored,    \* what was delivered into its mailboxes: <<session, recipient number>>
  outbound,  \* what was enqueued: the same, 0 for the external recipients
  answers,   \* vacation answers queued, and still to be sent by a goroutine
  sess,      \* the sessions
  local,     \* the variables of deliverToLocalRecipient in each session
  mishaps    \* failed calls and changes by the administrator so far
inboundVars == <<acct, stored, outbound, answers, sess, local, mishaps>>

NoSession == [pc |-> "idle", kind |-> "mx", rcpts |-> <<>>, ext |-> FALSE, fates |-> <<>>,
              redirectLost |-> FALSE, reply |-> "none"]
NoLocal == [used |-> 0, res |-> Kept, answer |-> FALSE, box |-> "INBOX"]
NoAccount == [state |-> "none", script |-> <<>>, boxes |-> {}, used |-> 0,
              answered |-> FALSE]

InboundInit ==
  /\ acct = NoAccount
  /\ stored = {} /\ outbound = {} /\ mishaps = 0
  /\ answers = [queued |-> 0, pending |-> 0]
  /\ sess = [s \in Sessions |-> NoSession] /\ local = [s \in Sessions |-> NoLocal]

At(s, pc) == sess[s].pc = pc
Session(s, r) == sess' = [sess EXCEPT ![s] = r]
Local(s, l) == local' = [local EXCEPT ![s] = l]
Goto(s, pc) == Session(s, [sess[s] EXCEPT !.pc = pc])
Proceed(s, pc) == Goto(s, pc) /\ UNCHANGED local
Fault == mishaps < MaxMishaps /\ mishaps' = mishaps + 1
NoFault == mishaps' = mishaps
Live == acct.state = "live"

(* The loop over recipients: the one at hand has its fate, the next starts. *)
Settled(s, fate) ==
  LET r == sess[s]
      last == Len(r.fates) + 1 = Len(r.rcpts)
  IN  [r EXCEPT !.fates = Append(@, fate), !.redirectLost = @ \/ fate = "lost",
         !.pc = IF ~last THEN "alias" ELSE IF r.kind = "sub" THEN "external" ELSE "reply"]
Settle(s, fate) == Session(s, Settled(s, fate)) /\ Local(s, NoLocal)
Current(s) == Len(sess[s].fates) + 1
Rcpt(s) == sess[s].rcpts[Current(s)]

-----------------------------------------------------------------------------
(* The administrator: CreateUser and InitializeUserMailboxes, whose failure is
   only logged; DELETE of the user or its domain, rows cascading; the script. *)

CreateUser(script) ==
  /\ acct.state = "none"
  /\ acct' = [NoAccount EXCEPT !.state = "live", !.script = script]
  /\ UNCHANGED <<stored, outbound, answers, sess, local, mishaps>>

InitializeUserMailboxes ==
  /\ Live /\ acct.boxes = {}
  /\ acct' = [acct EXCEPT !.boxes = {"INBOX", "Sent"}]
  /\ UNCHANGED <<stored, outbound, answers, sess, local, mishaps>>

DeleteUser ==
  /\ Live /\ Fault
  /\ acct' = [NoAccount EXCEPT !.state = "gone"]
  /\ UNCHANGED <<stored, outbound, answers, sess, local>>

SetActiveScript(script) ==
  /\ Live /\ Fault
  /\ acct' = [acct EXCEPT !.script = script]
  /\ UNCHANGED <<stored, outbound, answers, sess, local>>

-----------------------------------------------------------------------------
(* NewSession, Rcpt and Data: the envelope.  On port 25 Rcpt asks
   ValidateAddress, a submission (by an authenticated user) takes any
   recipient; handleOutbound splits off the external ones: ext. *)

ValidateAddress(a) == a \in LocalAddrs => Live

Envelope(s, kind, rcpts, ext) ==
  /\ At(s, "idle") /\ acct.state # "none"
  /\ rcpts # <<>> \/ ext
  /\ IF kind = "sub" THEN Live
     ELSE ~ext /\ \A i \in DOMAIN rcpts : ValidateAddress(rcpts[i])
  /\ Session(s, [NoSession EXCEPT !.kind = kind, !.rcpts = rcpts, !.ext = ext,
                   !.pc = IF rcpts # <<>> THEN "alias" ELSE "external"])
  /\ UNCHANGED <<acct, stored, outbound, answers, local, mishaps>>

-----------------------------------------------------------------------------
(* deliverToLocalRecipient, a step per call of database, store or queue. *)

(* saveMessageToQueue and Enqueue; a failure of either removes the file. *)
Enqueued(s, what) == NoFault /\ outbound' = outbound \union {<<s, what>>}
EnqueueFails == Fault /\ UNCHANGED outbound

(* ResolveAlias, then LookupUser or LookupUserByID, which read used_bytes as
   it is now (a deletion between the two fails the same way). *)
ResolveAlias(s) ==
  /\ At(s, "alias")
  /\ \/ /\ Rcpt(s) \in LocalAddrs /\ Live /\ NoFault /\ UNCHANGED outbound
        /\ Goto(s, "sieve") /\ Local(s, [local[s] EXCEPT !.used = acct.used])
     \/ Rcpt(s) \in LocalAddrs /\ ~Live /\ NoFault /\ Settle(s, "failed") /\ UNCHANGED outbound
     \/ Rcpt(s) \in ForwardAddrs /\ Enqueued(s, Current(s)) /\ Settle(s, "queued")
     \/ EnqueueFails /\ Settle(s, "failed")
  /\ UNCHANGED <<acct, stored, answers>>

(* GetActiveScript and the script; an error delivers to INBOX. *)
SieveExecute(s) ==
  /\ At(s, "sieve")
  /\ LET res == ExecuteScript(acct.script, SieveMsg)
     IN  \/ /\ NoFault
            /\ Goto(s, IF res.vacation THEN "should" ELSE "outcome")
            /\ Local(s, [local[s] EXCEPT !.res = res])
         \/ Fault /\ Proceed(s, "mailbox")
  /\ UNCHANGED <<acct, stored, outbound, answers>>

(* VacationAction.Apply: ShouldRespond reads, RecordResponse writes (a
   deleted user's row is refused); after both an answer is due. *)
NoAnswer(s) == Proceed(s, "outcome")
Answer(s) == Goto(s, "outcome") /\ Local(s, [local[s] EXCEPT !.answer = TRUE])

ShouldRespond(s) ==
  /\ At(s, "should")
  /\ \/ ~acct.answered /\ NoFault /\ Proceed(s, "record")
     \/ acct.answered /\ NoFault /\ NoAnswer(s)
     \/ Fault /\ NoAnswer(s)
  /\ UNCHANGED <<acct, stored, outbound, answers>>

(* An answer that is not remembered. *)
RecordResponseForgets(s) ==
  /\ At(s, "record") /\ NoFault /\ Answer(s)
  /\ UNCHANGED <<acct, stored, outbound, answers>>

RecordResponse(s) ==
  /\ At(s, "record")
  /\ \/ /\ Live /\ NoFault /\ Answer(s)
        /\ acct' = [acct EXCEPT !.answered = TRUE]
     \/ ~Live /\ NoFault /\ NoAnswer(s) /\ UNCHANGED acct
     \/ Fault /\ NoAnswer(s) /\ UNCHANGED acct
  /\ UNCHANGED <<stored, outbound, answers>>

(* What deliverToLocalRecipient makes of the result, in its order: discard,
   reject, redirect (a failed Enqueue is logged, a failed save is an error),
   fileinto; the vacation answer is left to a goroutine. *)
Filed(s) ==
  LET res == local[s].res
  IN  /\ Goto(s, "mailbox")
      /\ Local(s, [local[s] EXCEPT !.box = IF res.filed # "" THEN res.filed ELSE "INBOX"])
      /\ answers' = [answers EXCEPT !.pending = IF local[s].answer THEN @ + 1 ELSE @]

Redirected(s) ==
  \/ /\ Enqueued(s, Current(s))
     /\ IF local[s].res.keep THEN Filed(s) ELSE Settle(s, "queued") /\ UNCHANGED answers
  \/ /\ EnqueueFails
     /\ IF local[s].res.keep THEN Filed(s) ELSE Settle(s, "lost") /\ UNCHANGED answers
  \/ EnqueueFails /\ Settle(s, "failed") /\ UNCHANGED answers

SieveOutcome(s) ==
  LET res == local[s].res
  IN  /\ At(s, "outcome")
      /\ CASE res.discarded -> Settle(s, "discarded") /\ NoFault /\ UNCHANGED <<outbound, answers>>
           [] ~res.discarded /\ res.rejected -> Settle(s, "failed") /\ NoFault /\ UNCHANGED <<outbound, answers>>
           [] ~res.discarded /\ ~res.rejected /\ res.redirect # <<>> -> Redirected(s)
           [] OTHER -> Filed(s) /\ NoFault /\ UNCHANGED outbound
      /\ UNCHANGED <<acct, stored>>

(* The message alone is compared with the quota. *)
FitsAlone(s) == Quota = 0 \/ 1 <= Quota

(* The quota check uses the used_bytes LookupUser read. *)
Fits(s) == Quota = 0 \/ local[s].used + 1 <= Quota
CheckQuota(s, box) ==
  IF Fits(s) THEN Goto(s, "append") /\ Local(s, [local[s] EXCEPT !.box = box])
  ELSE Settle(s, "failed")

(* GetMailbox: a missing folder is created, a missing INBOX is an error. *)
GetMailbox(s) ==
  /\ At(s, "mailbox")
  /\ \/ local[s].box \in acct.boxes /\ NoFault /\ CheckQuota(s, local[s].box)
     \/ local[s].box \notin acct.boxes /\ NoFault
        /\ IF local[s].box = "INBOX" THEN Settle(s, "failed") ELSE Proceed(s, "create")
     \/ Fault /\ IF local[s].box = "INBOX" THEN Settle(s, "failed") ELSE Proceed(s, "create")
  /\ UNCHANGED <<acct, stored, outbound, answers>>

(* CreateMailbox fails for a deleted user and for a folder another session
   has made; then the mail goes to INBOX. *)
CreateMailbox(s) ==
  /\ At(s, "create")
  /\ \/ /\ Live /\ local[s].box \notin acct.boxes /\ NoFault
        /\ acct' = [acct EXCEPT !.boxes = @ \union {local[s].box}]
        /\ CheckQuota(s, local[s].box)
     \/ /\ \/ Fault
           \/ (~Live \/ local[s].box \in acct.boxes) /\ NoFault
        /\ IF "INBOX" \in acct.boxes THEN CheckQuota(s, "INBOX") ELSE Settle(s, "failed")
        /\ UNCHANGED acct
  /\ UNCHANGED <<stored, outbound, answers>>

(* AppendMessage (MailStore has its steps): all or nothing but for the count
   of bytes, which it makes itself and whose failure it ignores. *)
AppendMessage(s) ==
  /\ At(s, "append")
  /\ \/ /\ local[s].box \in acct.boxes /\ stored' = stored \union {<<s, Current(s)>>} /\ Proceed(s, "count")
        /\ \/ NoFault /\ acct' = [acct EXCEPT !.used = @ + 1]
           \/ Fault /\ UNCHANGED acct
     \/ /\ Settle(s, "failed") /\ UNCHANGED <<acct, stored>>
        /\ Fault \/ (local[s].box \notin acct.boxes /\ NoFault)
  /\ UNCHANGED <<outbound, answers>>

(* A failed count fails the delivery. *)
UpdateUsedBytesStrict(s) ==
  /\ At(s, "count")
  /\ \/ /\ NoFault /\ Settle(s, "stored")
        /\ acct' = [acct EXCEPT !.used = IF Live THEN @ + 1 ELSE @]
     \/ Fault /\ Settle(s, "failed") /\ UNCHANGED acct
  /\ UNCHANGED <<stored, outbound, answers>>

(* The count of a removal. *)
UpdateUsedBytesNegated(s) ==
  /\ At(s, "count")
  /\ Settle(s, "stored")
  /\ acct' = [acct EXCEPT !.used = IF Live THEN @ - 1 ELSE @]
  /\ NoFault /\ UNCHANGED <<stored, outbound, answers>>

(* UpdateUsedBytes counts the message again; its failure is logged. *)
UpdateUsedBytes(s) ==
  /\ At(s, "count")
  /\ Settle(s, "stored")
  /\ \/ NoFault /\ acct' = [acct EXCEPT !.used = IF Live THEN @ + 1 ELSE @]
     \/ Fault /\ UNCHANGED acct
  /\ UNCHANGED <<stored, outbound, answers>>

(* sendVacationResponse, in its goroutine. *)
SendVacationResponse ==
  /\ answers.pending > 0
  /\ \/ NoFault /\ answers' = [queued |-> answers.queued + 1, pending |-> answers.pending - 1]
     \/ Fault /\ answers' = [answers EXCEPT !.pending = @ - 1]
  /\ UNCHANGED <<acct, stored, outbound, sess, local>>

-----------------------------------------------------------------------------
(* The answer to DATA. *)

Failures(s) == {i \in DOMAIN sess[s].fates : sess[s].fates[i] = "failed"}
Reply(s, code) == Session(s, [sess[s] EXCEPT !.pc = "done", !.reply = code]) /\ UNCHANGED local

(* A failed Enqueue is logged. *)
QueueExternalLogs(s) ==
  /\ At(s, "external")
  /\ IF sess[s].ext THEN Enqueued(s, 0) \/ EnqueueFails ELSE NoFault /\ UNCHANGED outbound
  /\ Reply(s, "250")
  /\ UNCHANGED <<acct, stored, answers>>

(* handleOutbound after its local recipients: queue the external ones, then
   a copy to Sent (counted, not checked). *)
QueueExternal(s) ==
  /\ At(s, "external")
  /\ \/ /\ sess[s].ext /\ EnqueueFails /\ Reply(s, "451") /\ UNCHANGED acct
     \/ /\ IF sess[s].ext THEN Enqueued(s, 0) ELSE NoFault /\ UNCHANGED outbound
        /\ \/ "Sent" \in acct.boxes /\ acct' = [acct EXCEPT !.used = @ + 1]
           \/ UNCHANGED acct
        /\ Reply(s, IF Failures(s) # {} /\ ~sess[s].ext THEN "451" ELSE "250")
  /\ UNCHANGED <<stored, answers>>

(* Nothing is refused any more once the loop is over. *)
FinishInboundAlways(s) ==
  /\ At(s, "reply")
  /\ Reply(s, "250")
  /\ UNCHANGED <<acct, stored, outbound, answers, mishaps>>

(* handleInbound refuses only a message nobody got. *)
FinishInbound(s) ==
  /\ At(s, "reply")
  /\ Reply(s, IF Failures(s) = DOMAIN sess[s].rcpts THEN "451" ELSE "250")
  /\ UNCHANGED <<acct, stored, outbound, answers, mishaps>>

Deliver(s) ==
  \/ ResolveAlias(s) \/ SieveExecute(s) \/ ShouldRespond(s)
  \/ RecordResponse(s) \/ SieveOutcome(s) \/ GetMailbox(s) \/ CreateMailbox(s)
  \/ AppendMessage(s) \/ UpdateUsedBytes(s)

KindsOf(s) == IF s \in Submitters THEN {"sub"} ELSE {"mx"}

InboundNext ==
  \/ \E script \in Scripts : CreateUser(script) \/ SetActiveScript(script)
  \/ InitializeUserMailboxes \/ DeleteUser \/ SendVacationResponse
  \/ \E s \in Sessions :
       \/ \E kind \in KindsOf(s), rcpts \in Envelopes, ext \in BOOLEAN : Envelope(s, kind, rcpts, ext)
       \/ Deliver(s) \/ QueueExternal(s) \/ FinishInbound(s)

InboundSpec == InboundInit /\ [][InboundNext]_inboundVars

-----------------------------------------------------------------------------
InboundTypeOK ==
  /\ acct.state \in {"none", "live", "gone"} /\ acct.used \in Nat
  /\ stored \subseteq Sessions \X Nat
  /\ outbound \subseteq Sessions \X Nat
  /\ answers \in [queued : Nat, pending : Nat]
  /\ \A s \in Sessions : sess[s].reply \in {"none", "250", "451"}

Copies(s) == {i \in DOMAIN sess[s].rcpts : <<s, i>> \in stored \union outbound}

(* A message refused on port 25 has left no copy in a mailbox and none for an
   alias that forwards, so the sender's retry cannot make a second one
   (handleInbound, deliverToLocalRecipient), whatever failed on the way.  The
   exception is a redirect beside a keep: it is queued first. *)
RefusedLeavesNoCopy ==
  \A s \in Sessions : sess[s].kind = "mx" /\ sess[s].reply = "451" =>
    /\ ~\E i \in DOMAIN sess[s].rcpts : <<s, i>> \in stored
    /\ \A i \in Copies(s) : sess[s].rcpts[i] \in LocalAddrs

(* A message acknowledged on port 25 has a copy or was discarded by the
   recipient's script, the one exception being a redirect whose Enqueue
   failed, which is only logged. *)
AcknowledgedIsSafe ==
  \A s \in Sessions : sess[s].kind = "mx" /\ sess[s].reply = "250" =>
    \/ Copies(s) # {}
    \/ \E i \in DOMAIN sess[s].fates : sess[s].fates[i] = "discarded"
    \/ sess[s].redirectLost

(* An acknowledged submission has its external recipients in the queue,
   whatever became of the local ones (handleOutbound). *)
SubmittedIsQueued ==
  \A s \in Sessions : sess[s].ext /\ sess[s].reply = "250" => <<s, 0>> \in outbound

(* The check of used_bytes before the append and its count after it let
   parallel deliveries overrun the quota, by at most a message for each
   other session and each count that failed. *)
QuotaOverrunBounded ==
  Quota > 0 => Cardinality(stored) <= Quota + Cardinality(Sessions) - 1 + mishaps

(* ShouldRespond and RecordResponse race: a sender gets at most an answer per
   parallel session within the interval, never one per message. *)
VacationBounded == answers.queued + answers.pending <= Cardinality(Sessions)
=============================================================================
