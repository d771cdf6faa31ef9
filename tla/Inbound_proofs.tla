---------------------------- MODULE Inbound_proofs ----------------------------
(***************************************************************************)
(* What local delivery promises, for any number of sessions, recipients,   *)
(* scripts and mishaps: which copies an answered message has left          *)
(* (SettledInv), by how much parallel deliveries overrun the quota         *)
(* (QuotaInv), and how many vacation answers a sender gets (VacationInv).  *)
(* What a script makes of a message stays opaque: the fold that computes   *)
(* it is never opened.                                                     *)
(***************************************************************************)
EXTENDS Inbound, FiniteSetTheorems, TLAPS

Delivering == {"alias", "sieve", "should", "record", "outcome", "mailbox", "create", "append", "count"}
Pcs == Delivering \union {"idle", "external", "reply", "done"}
Fates == {"failed", "queued", "lost", "discarded", "stored"}
Addrs == LocalAddrs \union ForwardAddrs
Outcomes == {Kept} \union {ExecuteScript(script, SieveMsg) : script \in Scripts \union {<<>>}}
Boxes == {"INBOX", "Sent"} \union {r.filed : r \in Outcomes}

AcctRecord == [state : {"none", "live", "gone"}, script : Scripts \union {<<>>}, boxes : SUBSET Boxes,
               used : Nat, answered : BOOLEAN]
SessRecord == [pc : Pcs, kind : {"mx", "sub"}, rcpts : Seq(Addrs), ext : BOOLEAN, fates : Seq(Fates),
               redirectLost : BOOLEAN, reply : {"none", "250", "451"}]
LocalRecord == [used : Nat, res : Outcomes, answer : BOOLEAN, box : Boxes]

InTyped ==
  /\ acct \in AcctRecord
  /\ stored \subseteq Sessions \X Nat /\ outbound \subseteq Sessions \X Nat
  /\ answers \in [queued : Nat, pending : Nat]
  /\ sess \in [Sessions -> SessRecord] /\ local \in [Sessions -> LocalRecord]
  /\ mishaps \in Nat

-----------------------------------------------------------------------------
(* Where the loop over the recipients is. *)
InPlace(r) ==
  /\ r.pc \in Delivering => Len(r.fates) < Len(r.rcpts)
  /\ r.pc \in Delivering \ {"alias"} => r.rcpts[Len(r.fates) + 1] \in LocalAddrs
  /\ r.pc \in {"external", "reply", "done"} => Len(r.fates) = Len(r.rcpts)
  /\ r.pc # "done" => r.reply = "none"
  /\ r.pc = "external" => r.kind = "sub"
  /\ r.pc = "reply" => r.kind = "mx"
  /\ r.pc = "idle" => Len(r.fates) = 0
  /\ r.kind = "mx" => r.ext = FALSE

(* The fates a session has noted, and the copies there are, agree. *)
Noted(s, r, st, out) ==
  \A i \in 1..Len(r.fates) :
    /\ r.fates[i] = "stored" => <<s, i>> \in st
    /\ r.fates[i] = "queued" => <<s, i>> \in out
    /\ r.fates[i] = "lost" => r.redirectLost = TRUE
StoredFor(s, r, st) ==
  /\ r.pc = "count" => <<s, Len(r.fates) + 1>> \in st
  /\ \A i \in Nat : <<s, i>> \in st =>
       \/ i \in 1..Len(r.fates) /\ r.fates[i] = "stored"
       \/ r.pc = "count" /\ i = Len(r.fates) + 1
QueuedFor(s, r, out) ==
  \A i \in Nat : <<s, i>> \in out =>
    /\ r.pc # "idle"
    /\ \/ i = 0
       \/ i \in 1..Len(r.rcpts) /\ r.rcpts[i] \in LocalAddrs
       \/ i \in 1..Len(r.fates) /\ r.fates[i] = "queued"

(* What the answer to DATA says of the fates. *)
Replied(s, r, out) ==
  /\ r.kind = "mx" /\ r.reply = "451" => \A i \in 1..Len(r.fates) : r.fates[i] = "failed"
  /\ r.kind = "mx" /\ r.reply = "250" => \E i \in 1..Len(r.fates) : r.fates[i] # "failed"
  /\ r.ext = TRUE /\ r.reply = "250" => <<s, 0>> \in out

SettledFor(s, r, st, out) ==
  InPlace(r) /\ Noted(s, r, st, out) /\ StoredFor(s, r, st) /\ QueuedFor(s, r, out) /\ Replied(s, r, out)

SettledInv == \A s \in Sessions : SettledFor(s, sess[s], stored, outbound)

-----------------------------------------------------------------------------
(* The sessions between the reading of used_bytes and the append whose reading
   lets them pass the quota. *)
Reading == {"sieve", "should", "record", "outcome", "mailbox", "create", "append"}
InFlight == {s \in Sessions : sess[s].pc \in Reading /\ local[s].used + 1 <= Quota}

NothingYet ==
  acct.state = "none" =>
    /\ \A s \in Sessions : sess[s].pc = "idle"
    /\ stored = {} /\ answers.queued = 0 /\ answers.pending = 0

QuotaInv ==
  /\ IsFiniteSet(stored)
  /\ acct.state # "live" => acct.boxes = {}
  /\ Live => Cardinality(stored) <= acct.used + mishaps
  /\ \A s \in Sessions : sess[s].pc = "append" => Fits(s)
  /\ Quota > 0 => Cardinality(stored) + Cardinality(InFlight) <= Quota + Cardinality(Sessions) - 1 + mishaps

(* The sessions that owe an answer, and those that have found none recorded. *)
Owing == {s \in Sessions : sess[s].pc = "outcome" /\ local[s].answer = TRUE}
Recording == {s \in Sessions : sess[s].pc = "record"}

VacationInv ==
  /\ \A s \in Sessions : sess[s].pc \in {"idle", "alias", "sieve", "should", "record"} => local[s].answer = FALSE
  /\ Live /\ acct.answered = FALSE => answers.queued = 0 /\ answers.pending = 0 /\ Owing = {}
  /\ answers.queued + answers.pending + Cardinality(Owing) <= Cardinality(Sessions)
  /\ Live => answers.queued + answers.pending + Cardinality(Owing) + Cardinality(Recording) <= Cardinality(Sessions)

-----------------------------------------------------------------------------
(* The updates the actions are made of. *)

SameButPc(f, r) ==
  /\ f.kind = r.kind /\ f.rcpts = r.rcpts /\ f.ext = r.ext /\ f.fates = r.fates
  /\ f.redirectLost = r.redirectLost /\ f.reply = r.reply

LEMMA SessionLemma ==
  ASSUME InTyped, NEW s \in Sessions, NEW r \in SessRecord, Session(s, r)
  PROVE  /\ sess' \in [Sessions -> SessRecord] /\ sess'[s] = r
         /\ \A q \in Sessions \ {s} : sess'[q] = sess[q]
BY DEF InTyped, Session

LEMMA GotoLemma ==
  ASSUME InTyped, NEW s \in Sessions, NEW pc \in Pcs, Goto(s, pc)
  PROVE  /\ sess' \in [Sessions -> SessRecord] /\ sess'[s].pc = pc /\ SameButPc(sess'[s], sess[s])
         /\ \A q \in Sessions \ {s} : sess'[q] = sess[q]
<1>1. sess[s] \in SessRecord
  BY DEF InTyped
<1>2. [sess[s] EXCEPT !.pc = pc] \in SessRecord
  BY <1>1 DEF SessRecord
<1>3. [sess[s] EXCEPT !.pc = pc].pc = pc /\ SameButPc([sess[s] EXCEPT !.pc = pc], sess[s])
  BY <1>1, <1>2 DEF SessRecord, SameButPc
<1>4. Session(s, [sess[s] EXCEPT !.pc = pc])
  BY DEF Goto
<1> QED BY <1>2, <1>3, <1>4, SessionLemma

LEMMA LocalLemma ==
  ASSUME InTyped, NEW s \in Sessions, NEW l \in LocalRecord, Local(s, l)
  PROVE  /\ local' \in [Sessions -> LocalRecord] /\ local'[s] = l
         /\ \A q \in Sessions \ {s} : local'[q] = local[q]
BY DEF InTyped, Local

LEMMA NoLocalType == NoLocal \in LocalRecord /\ NoLocal.used = 0 /\ NoLocal.answer = FALSE
<1>1. Kept \in Outcomes /\ "INBOX" \in Boxes
  BY DEF Outcomes, Boxes
<1> HIDE DEF Kept
<1> QED BY <1>1 DEF NoLocal, LocalRecord

(* deliverToLocalRecipient's variables, one at a time. *)
LEMMA LocalUpdates ==
  ASSUME NEW l \in LocalRecord
  PROVE  /\ \A u \in Nat : /\ [l EXCEPT !.used = u] \in LocalRecord /\ [l EXCEPT !.used = u].used = u
                           /\ [l EXCEPT !.used = u].answer = l.answer
         /\ \A o \in Outcomes : /\ [l EXCEPT !.res = o] \in LocalRecord /\ [l EXCEPT !.res = o].used = l.used
                                /\ [l EXCEPT !.res = o].answer = l.answer
         /\ /\ [l EXCEPT !.answer = TRUE] \in LocalRecord /\ [l EXCEPT !.answer = TRUE].used = l.used
            /\ [l EXCEPT !.answer = TRUE].answer = TRUE
         /\ \A b \in Boxes : /\ [l EXCEPT !.box = b] \in LocalRecord /\ [l EXCEPT !.box = b].used = l.used
                             /\ [l EXCEPT !.box = b].answer = l.answer
BY DEF LocalRecord

(* The record of a session whose recipient at hand got its fate. *)
SettledAs(f, r, fate) ==
  /\ f.kind = r.kind /\ f.rcpts = r.rcpts /\ f.ext = r.ext /\ f.reply = r.reply
  /\ Len(f.fates) = Len(r.fates) + 1 /\ f.fates[Len(r.fates) + 1] = fate
  /\ \A i \in 1..Len(r.fates) : f.fates[i] = r.fates[i]
  /\ f.redirectLost = (r.redirectLost \/ fate = "lost")
  /\ Len(f.fates) # Len(r.rcpts) => f.pc = "alias"
  /\ Len(f.fates) = Len(r.rcpts) /\ r.kind = "sub" => f.pc = "external"
  /\ Len(f.fates) = Len(r.rcpts) /\ r.kind # "sub" => f.pc = "reply"

LEMMA SettleLemma ==
  ASSUME InTyped, NEW s \in Sessions, NEW fate \in Fates, Settle(s, fate)
  PROVE  /\ sess' \in [Sessions -> SessRecord] /\ SettledAs(sess'[s], sess[s], fate)
         /\ sess'[s].pc \in {"alias", "external", "reply"}
         /\ local' \in [Sessions -> LocalRecord] /\ local'[s] = NoLocal
         /\ \A q \in Sessions \ {s} : sess'[q] = sess[q] /\ local'[q] = local[q]
<1> DEFINE r == sess[s]
           fates == Append(r.fates, fate)
           lost == r.redirectLost \/ fate = "lost"
           pc == IF ~(Len(r.fates) + 1 = Len(r.rcpts)) THEN "alias"
                 ELSE IF r.kind = "sub" THEN "external" ELSE "reply"
           f == [r EXCEPT !.fates = fates, !.redirectLost = lost, !.pc = pc]
<1>1. r \in SessRecord /\ r.fates \in Seq(Fates) /\ r.redirectLost \in BOOLEAN /\ r.rcpts \in Seq(Addrs)
  BY DEF InTyped, SessRecord
<1>2. /\ fates \in Seq(Fates) /\ Len(fates) = Len(r.fates) + 1 /\ fates[Len(r.fates) + 1] = fate
      /\ \A i \in 1..Len(r.fates) : fates[i] = r.fates[i]
  BY <1>1
<1>3. pc \in {"alias", "external", "reply"} /\ pc \in Pcs
  BY DEF Pcs, Delivering
<1>4. lost \in BOOLEAN
  BY <1>1
<1>5. Session(s, f) /\ Local(s, NoLocal)
  BY DEF Settle, Settled
<1> HIDE DEF r, lost, fates
<1>p. /\ Len(r.fates) + 1 # Len(r.rcpts) => pc = "alias"
      /\ Len(r.fates) + 1 = Len(r.rcpts) /\ r.kind = "sub" => pc = "external"
      /\ Len(r.fates) + 1 = Len(r.rcpts) /\ r.kind # "sub" => pc = "reply"
  OBVIOUS
<1> HIDE DEF pc
<1>6. f \in SessRecord
  BY <1>1, <1>2, <1>3, <1>4 DEF SessRecord
<1>7. /\ f.kind = r.kind /\ f.rcpts = r.rcpts /\ f.ext = r.ext /\ f.reply = r.reply
      /\ f.fates = fates /\ f.redirectLost = lost /\ f.pc = pc
  BY <1>1, <1>6 DEF SessRecord
<1> HIDE DEF f
<1>8. SettledAs(f, r, fate)
  BY <1>2, <1>7, <1>p DEF SettledAs, lost
<1>9. sess' \in [Sessions -> SessRecord] /\ sess'[s] = f /\ \A q \in Sessions \ {s} : sess'[q] = sess[q]
  BY <1>5, <1>6, SessionLemma
<1>10. local' \in [Sessions -> LocalRecord] /\ local'[s] = NoLocal /\ \A q \in Sessions \ {s} : local'[q] = local[q]
  BY <1>5, LocalLemma, NoLocalType
<1> QED BY <1>3, <1>7, <1>8, <1>9, <1>10 DEF r

LEMMA ReplyLemma ==
  ASSUME InTyped, NEW s \in Sessions, NEW code \in {"250", "451"}, Reply(s, code)
  PROVE  /\ sess' \in [Sessions -> SessRecord] /\ local' = local
         /\ sess'[s].pc = "done" /\ sess'[s].reply = code
         /\ sess'[s].kind = sess[s].kind /\ sess'[s].rcpts = sess[s].rcpts /\ sess'[s].ext = sess[s].ext
         /\ sess'[s].fates = sess[s].fates /\ sess'[s].redirectLost = sess[s].redirectLost
         /\ \A q \in Sessions \ {s} : sess'[q] = sess[q]
<1> DEFINE f == [sess[s] EXCEPT !.pc = "done", !.reply = code]
<1>1. sess[s] \in SessRecord /\ "done" \in Pcs
  BY DEF InTyped, Pcs
<1>2. f \in SessRecord
  BY <1>1 DEF SessRecord
<1>3. /\ f.pc = "done" /\ f.reply = code /\ f.kind = sess[s].kind /\ f.rcpts = sess[s].rcpts
      /\ f.ext = sess[s].ext /\ f.fates = sess[s].fates /\ f.redirectLost = sess[s].redirectLost
  BY <1>1, <1>2 DEF SessRecord
<1>4. Session(s, f) /\ local' = local
  BY DEF Reply
<1> HIDE DEF f
<1> QED BY <1>2, <1>3, <1>4, SessionLemma

-----------------------------------------------------------------------------
(* The actions with several outcomes, laid open. *)

Copied(s) == outbound' = outbound \union {<<s, Current(s)>>}

LEMMA OutcomeCases ==
  ASSUME NEW s \in Sessions, SieveOutcome(s)
  PROVE  /\ sess[s].pc = "outcome" /\ UNCHANGED <<acct, stored>>
         /\ mishaps' = mishaps \/ mishaps' = mishaps + 1
         /\ \/ UNCHANGED <<outbound, answers>> /\ Settle(s, "discarded")
            \/ UNCHANGED <<outbound, answers>> /\ Settle(s, "failed")
            \/ UNCHANGED <<outbound, answers>> /\ Settle(s, "lost")
            \/ Copied(s) /\ UNCHANGED answers /\ Settle(s, "queued")
            \/ Filed(s) /\ (UNCHANGED outbound \/ Copied(s))
<1> DEFINE res == local[s].res
<1>1. sess[s].pc = "outcome" /\ UNCHANGED <<acct, stored>>
  BY DEF SieveOutcome, At
<1>2. \/ Settle(s, "discarded") /\ NoFault /\ UNCHANGED <<outbound, answers>>
      \/ Settle(s, "failed") /\ NoFault /\ UNCHANGED <<outbound, answers>>
      \/ Redirected(s)
      \/ Filed(s) /\ NoFault /\ UNCHANGED outbound
  <2>1. CASE res.discarded
    BY <2>1 DEF SieveOutcome
  <2>2. CASE ~res.discarded /\ res.rejected
    BY <2>2 DEF SieveOutcome
  <2>3. CASE ~res.discarded /\ ~res.rejected /\ res.redirect # <<>>
    BY <2>3 DEF SieveOutcome
  <2>4. CASE ~res.discarded /\ ~res.rejected /\ ~(res.redirect # <<>>)
    BY <2>4 DEF SieveOutcome
  <2> QED BY <2>1, <2>2, <2>3, <2>4
<1>3. CASE Redirected(s)
  BY <1>1, <1>3 DEF Redirected, Enqueued, EnqueueFails, Fault, NoFault, Copied
<1> QED BY <1>1, <1>2, <1>3 DEF NoFault

LEMMA MailboxCases ==
  ASSUME InTyped, NEW s \in Sessions, GetMailbox(s) \/ CreateMailbox(s)
  PROVE  /\ sess[s].pc \in {"mailbox", "create"} /\ UNCHANGED <<stored, outbound, answers>>
         /\ mishaps' = mishaps \/ mishaps' = mishaps + 1
         /\ acct' = acct \/ (Live /\ acct' = [acct EXCEPT !.boxes = @ \union {local[s].box}])
         /\ \/ Settle(s, "failed")
            \/ Proceed(s, "create")
            \/ Fits(s) /\ Goto(s, "append") /\ \E box \in Boxes : Local(s, [local[s] EXCEPT !.box = box])
<1>1. local[s].box \in Boxes /\ "INBOX" \in Boxes
  BY DEF InTyped, LocalRecord, Boxes
<1>2. ASSUME NEW box \in Boxes, CheckQuota(s, box)
      PROVE  \/ Settle(s, "failed")
             \/ Fits(s) /\ Goto(s, "append") /\ \E b \in Boxes : Local(s, [local[s] EXCEPT !.box = b])
  BY <1>2, Zenon DEF CheckQuota
<1>3. CASE GetMailbox(s)
  <2>1. sess[s].pc \in {"mailbox", "create"} /\ UNCHANGED <<acct, stored, outbound, answers>>
    BY <1>3 DEF GetMailbox, At
  <2>2. mishaps' = mishaps \/ mishaps' = mishaps + 1
    BY <1>3 DEF GetMailbox, NoFault, Fault
  <2>3. CheckQuota(s, local[s].box) \/ Settle(s, "failed") \/ Proceed(s, "create")
    BY <1>3 DEF GetMailbox
  <2> QED BY <1>1, <1>2, <2>1, <2>2, <2>3
<1>4. CASE CreateMailbox(s)
  <2>1. sess[s].pc \in {"mailbox", "create"} /\ UNCHANGED <<stored, outbound, answers>>
    BY <1>4 DEF CreateMailbox, At
  <2>2. mishaps' = mishaps \/ mishaps' = mishaps + 1
    BY <1>4 DEF CreateMailbox, NoFault, Fault
  <2>3. CheckQuota(s, local[s].box) \/ CheckQuota(s, "INBOX") \/ Settle(s, "failed")
    BY <1>4 DEF CreateMailbox
  <2>4. acct' = acct \/ (Live /\ acct' = [acct EXCEPT !.boxes = @ \union {local[s].box}])
    BY <1>4 DEF CreateMailbox
  <2> QED BY <1>1, <1>2, <2>1, <2>2, <2>3, <2>4
<1> QED BY <1>3, <1>4

(* What the actions do to the account. *)
LEMMA AcctUpdates ==
  ASSUME NEW a \in AcctRecord
  PROVE  /\ \A b \in SUBSET Boxes :
              LET f == [a EXCEPT !.boxes = b] IN
              f \in AcctRecord /\ f.state = a.state /\ f.used = a.used /\ f.answered = a.answered /\ f.boxes = b
         /\ \A u \in Nat :
              LET f == [a EXCEPT !.used = u] IN
              f \in AcctRecord /\ f.state = a.state /\ f.used = u /\ f.answered = a.answered /\ f.boxes = a.boxes
         /\ LET f == [a EXCEPT !.answered = TRUE] IN
              f \in AcctRecord /\ f.state = a.state /\ f.used = a.used /\ f.answered = TRUE /\ f.boxes = a.boxes
         /\ \A c \in Scripts :
              LET f == [a EXCEPT !.script = c] IN
              f \in AcctRecord /\ f.state = a.state /\ f.used = a.used /\ f.answered = a.answered /\ f.boxes = a.boxes
<1>1. ASSUME NEW b \in SUBSET Boxes
      PROVE  LET f == [a EXCEPT !.boxes = b] IN
             f \in AcctRecord /\ f.state = a.state /\ f.used = a.used /\ f.answered = a.answered /\ f.boxes = b
  BY DEF AcctRecord
<1>2. ASSUME NEW u \in Nat
      PROVE  LET f == [a EXCEPT !.used = u] IN
             f \in AcctRecord /\ f.state = a.state /\ f.used = u /\ f.answered = a.answered /\ f.boxes = a.boxes
  BY DEF AcctRecord
<1>3. LET f == [a EXCEPT !.answered = TRUE] IN
      f \in AcctRecord /\ f.state = a.state /\ f.used = a.used /\ f.answered = TRUE /\ f.boxes = a.boxes
  BY DEF AcctRecord
<1>4. ASSUME NEW c \in Scripts
      PROVE  LET f == [a EXCEPT !.script = c] IN
             f \in AcctRecord /\ f.state = a.state /\ f.used = a.used /\ f.answered = a.answered /\ f.boxes = a.boxes
  BY DEF AcctRecord
<1> QED BY <1>1, <1>2, <1>3, <1>4, Zenon

LEMMA NoAccountUpdates ==
  /\ NoAccount \in AcctRecord
  /\ LET f == [NoAccount EXCEPT !.state = "gone"] IN
     f \in AcctRecord /\ f.state = "gone" /\ f.boxes = {} /\ f.answered = FALSE
  /\ \A c \in Scripts : LET f == [NoAccount EXCEPT !.state = "live", !.script = c] IN
     f \in AcctRecord /\ f.state = "live" /\ f.boxes = {} /\ f.answered = FALSE /\ f.used = 0
BY DEF NoAccount, AcctRecord

-----------------------------------------------------------------------------
(* What each action of a session does to it and to the account. *)

OnlyHere(s) ==
  /\ sess' \in [Sessions -> SessRecord] /\ local' \in [Sessions -> LocalRecord]
  /\ \A q \in Sessions \ {s} : sess'[q] = sess[q] /\ local'[q] = local[q]
Moved(s, pc) == OnlyHere(s) /\ sess'[s].pc = pc /\ SameButPc(sess'[s], sess[s])
KeptLocal(s) == local'[s].used = local[s].used /\ local'[s].answer = local[s].answer
SettledWith(s, fate) ==
  /\ OnlyHere(s) /\ SettledAs(sess'[s], sess[s], fate) /\ local'[s] = NoLocal
  /\ sess'[s].pc \in {"alias", "external", "reply"}
Counted == mishaps' = mishaps \/ mishaps' = mishaps + 1

LEMMA SettleEffect ==
  ASSUME InTyped, NEW s \in Sessions, NEW fate \in Fates, Settle(s, fate)
  PROVE  SettledWith(s, fate)
BY SettleLemma DEF SettledWith, OnlyHere

LEMMA ProceedEffect ==
  ASSUME InTyped, NEW s \in Sessions, NEW pc \in Pcs, Proceed(s, pc)
  PROVE  Moved(s, pc) /\ local' = local
BY GotoLemma DEF Proceed, Moved, OnlyHere, InTyped

LEMMA GotoLocalEffect ==
  ASSUME InTyped, NEW s \in Sessions, NEW pc \in Pcs, NEW l \in LocalRecord, Goto(s, pc), Local(s, l)
  PROVE  Moved(s, pc) /\ local'[s] = l
BY GotoLemma, LocalLemma DEF Moved, OnlyHere

LEMMA EnvelopeEffect ==
  ASSUME InTyped, NEW s \in Sessions, NEW kind \in {"mx", "sub"}, NEW rcpts \in Envelopes,
         NEW ext \in BOOLEAN, Envelope(s, kind, rcpts, ext)
  PROVE  /\ sess[s].pc = "idle" /\ acct.state # "none"
         /\ UNCHANGED <<acct, stored, outbound, answers, local, mishaps>>
         /\ OnlyHere(s)
         /\ sess'[s].pc \in {"alias", "external"} /\ sess'[s].reply = "none" /\ sess'[s].fates = <<>>
         /\ sess'[s].kind = "mx" => sess'[s].ext = FALSE
         /\ sess'[s].pc = "alias" => Len(sess'[s].rcpts) > 0
         /\ sess'[s].pc = "external" => Len(sess'[s].rcpts) = 0 /\ sess'[s].kind = "sub"
<1> DEFINE pc == IF rcpts # <<>> THEN "alias" ELSE "external"
           f == [NoSession EXCEPT !.kind = kind, !.rcpts = rcpts, !.ext = ext, !.pc = pc]
<1>1. /\ sess[s].pc = "idle" /\ acct.state # "none" /\ (rcpts # <<>> \/ ext)
      /\ UNCHANGED <<acct, stored, outbound, answers, local, mishaps>> /\ Session(s, f)
      /\ kind # "sub" => ext = FALSE
  BY DEF Envelope, At
<1>2. rcpts \in Seq(Addrs)
  BY InboundAssumption DEF Addrs
<1>3. pc \in Pcs /\ pc \in {"alias", "external"}
  BY DEF Pcs, Delivering
<1>4. /\ pc = "alias" => Len(rcpts) > 0
      /\ pc = "external" => Len(rcpts) = 0
  BY <1>2
<1>5. pc = "external" => kind = "sub"
  BY <1>1
<1>6. NoSession \in SessRecord /\ NoSession.reply = "none" /\ NoSession.fates = <<>>
  BY DEF NoSession, SessRecord, Pcs
<1> HIDE DEF pc
<1>7. f \in SessRecord
  BY <1>2, <1>3, <1>6 DEF SessRecord
<1>8. f.kind = kind /\ f.rcpts = rcpts /\ f.ext = ext /\ f.pc = pc /\ f.reply = "none" /\ f.fates = <<>>
  BY <1>6, <1>7 DEF SessRecord
<1> HIDE DEF f
<1>9. sess' \in [Sessions -> SessRecord] /\ sess'[s] = f /\ \A q \in Sessions \ {s} : sess'[q] = sess[q]
  BY <1>1, <1>7, SessionLemma
<1>10. OnlyHere(s)
  BY <1>1, <1>9 DEF OnlyHere, InTyped
<1> QED BY <1>1, <1>3, <1>4, <1>5, <1>8, <1>9, <1>10

LEMMA ResolveEffect ==
  ASSUME InTyped, NEW s \in Sessions, ResolveAlias(s)
  PROVE  /\ sess[s].pc = "alias" /\ UNCHANGED <<acct, stored, answers>> /\ Counted
         /\ \/ /\ Rcpt(s) \in LocalAddrs /\ Live /\ UNCHANGED <<outbound, mishaps>> /\ Moved(s, "sieve")
               /\ local'[s].used = acct.used /\ local'[s].answer = local[s].answer
            \/ SettledWith(s, "failed") /\ UNCHANGED outbound
            \/ SettledWith(s, "queued") /\ Copied(s)
<1>1. sess[s].pc = "alias" /\ UNCHANGED <<acct, stored, answers>> /\ Counted
  BY DEF ResolveAlias, At, Counted, NoFault, Fault, Enqueued, EnqueueFails
<1>2. CASE Rcpt(s) \in LocalAddrs /\ Live /\ NoFault /\ UNCHANGED outbound
           /\ Goto(s, "sieve") /\ Local(s, [local[s] EXCEPT !.used = acct.used])
  <2>1. "sieve" \in Pcs /\ acct.used \in Nat /\ local[s] \in LocalRecord
    BY DEF Pcs, Delivering, InTyped, AcctRecord
  <2> DEFINE l == [local[s] EXCEPT !.used = acct.used]
  <2>2. l \in LocalRecord /\ l.used = acct.used /\ l.answer = local[s].answer
    BY <2>1, LocalUpdates
  <2>3. Goto(s, "sieve") /\ Local(s, l)
    BY <1>2
  <2> HIDE DEF l
  <2>4. Moved(s, "sieve") /\ local'[s] = l
    BY <2>1, <2>2, <2>3, GotoLocalEffect
  <2> QED BY <1>1, <1>2, <2>2, <2>4 DEF NoFault
<1>3. CASE Settle(s, "failed") /\ UNCHANGED outbound
  BY <1>1, <1>3, SettleEffect DEF Fates
<1>4. CASE Enqueued(s, Current(s)) /\ Settle(s, "queued")
  BY <1>1, <1>4, SettleEffect DEF Fates, Enqueued, Copied
<1> QED BY <1>2, <1>3, <1>4 DEF ResolveAlias, EnqueueFails

LEMMA SieveEffect ==
  ASSUME InTyped, NEW s \in Sessions, SieveExecute(s)
  PROVE  /\ sess[s].pc = "sieve" /\ UNCHANGED <<acct, stored, outbound, answers>> /\ Counted
         /\ KeptLocal(s)
         /\ Moved(s, "should") \/ Moved(s, "outcome") \/ Moved(s, "mailbox")
<1> DEFINE o == ExecuteScript(acct.script, SieveMsg)
           l == [local[s] EXCEPT !.res = o]
           pc == IF o.vacation THEN "should" ELSE "outcome"
<1>1. o \in Outcomes
  BY DEF InTyped, AcctRecord, Outcomes
<1>2. /\ sess[s].pc = "sieve" /\ UNCHANGED <<acct, stored, outbound, answers>> /\ Counted
      /\ (Goto(s, pc) /\ Local(s, l)) \/ Proceed(s, "mailbox")
  BY DEF SieveExecute, At, Counted, NoFault, Fault
<1>3. pc \in Pcs /\ (pc = "should" \/ pc = "outcome") /\ "mailbox" \in Pcs /\ local[s] \in LocalRecord
  BY DEF Pcs, Delivering, InTyped
<1> HIDE DEF o, pc
<1>4. l \in LocalRecord /\ l.used = local[s].used /\ l.answer = local[s].answer
  BY <1>1, <1>3, LocalUpdates
<1> HIDE DEF l
<1>5. CASE Goto(s, pc) /\ Local(s, l)
  <2>1. Moved(s, pc) /\ local'[s] = l
    BY <1>3, <1>4, <1>5, GotoLocalEffect
  <2> QED BY <1>2, <1>3, <1>4, <2>1 DEF KeptLocal
<1>6. CASE Proceed(s, "mailbox")
  <2>1. Moved(s, "mailbox") /\ local' = local
    BY <1>3, <1>6, ProceedEffect
  <2> QED BY <1>2, <2>1 DEF KeptLocal
<1> QED BY <1>2, <1>5, <1>6

LEMMA ShouldEffect ==
  ASSUME InTyped, NEW s \in Sessions, ShouldRespond(s)
  PROVE  /\ sess[s].pc = "should" /\ UNCHANGED <<acct, stored, outbound, answers, local>> /\ Counted
         /\ (acct.answered = FALSE /\ Moved(s, "record")) \/ Moved(s, "outcome")
<1>1. /\ sess[s].pc = "should" /\ UNCHANGED <<acct, stored, outbound, answers>> /\ Counted
      /\ (~acct.answered /\ Proceed(s, "record")) \/ Proceed(s, "outcome")
  BY DEF ShouldRespond, At, Counted, NoFault, Fault, NoAnswer
<1>2. acct.answered \in BOOLEAN /\ "record" \in Pcs /\ "outcome" \in Pcs
  BY DEF InTyped, AcctRecord, Pcs, Delivering
<1> QED BY <1>1, <1>2, ProceedEffect

LEMMA RecordEffect ==
  ASSUME InTyped, NEW s \in Sessions, RecordResponse(s)
  PROVE  /\ sess[s].pc = "record" /\ UNCHANGED <<stored, outbound, answers>> /\ Counted
         /\ Moved(s, "outcome") /\ local'[s].used = local[s].used
         /\ \/ /\ Live /\ acct' = [acct EXCEPT !.answered = TRUE] /\ local'[s].answer = TRUE
            \/ UNCHANGED <<acct, local>>
<1>1. /\ sess[s].pc = "record" /\ UNCHANGED <<stored, outbound, answers>> /\ Counted
      /\ \/ Live /\ Answer(s) /\ acct' = [acct EXCEPT !.answered = TRUE]
         \/ Proceed(s, "outcome") /\ UNCHANGED acct
  BY DEF RecordResponse, At, Counted, NoFault, Fault, NoAnswer
<1>2. "outcome" \in Pcs /\ local[s] \in LocalRecord
  BY DEF InTyped, Pcs, Delivering
<1>3. CASE Live /\ Answer(s) /\ acct' = [acct EXCEPT !.answered = TRUE]
  <2> DEFINE l == [local[s] EXCEPT !.answer = TRUE]
  <2>1. l \in LocalRecord /\ l.used = local[s].used /\ l.answer = TRUE
    BY <1>2, LocalUpdates
  <2>2. Goto(s, "outcome") /\ Local(s, l)
    BY <1>3 DEF Answer
  <2> HIDE DEF l
  <2>3. Moved(s, "outcome") /\ local'[s] = l
    BY <1>2, <2>1, <2>2, GotoLocalEffect
  <2> QED BY <1>1, <1>3, <2>1, <2>3
<1>4. CASE Proceed(s, "outcome") /\ UNCHANGED acct
  <2>1. Moved(s, "outcome") /\ local' = local
    BY <1>2, <1>4, ProceedEffect
  <2> QED BY <1>1, <1>4, <2>1
<1> QED BY <1>1, <1>3, <1>4

(* An answer that is owed goes to its goroutine when the mail is filed. *)
HandedOver(s) ==
  IF local[s].answer = TRUE THEN answers'.pending = answers.pending + 1 ELSE answers'.pending = answers.pending

LEMMA OutcomeEffect ==
  ASSUME InTyped, NEW s \in Sessions, SieveOutcome(s)
  PROVE  /\ sess[s].pc = "outcome" /\ UNCHANGED <<acct, stored>> /\ Counted
         /\ \/ UNCHANGED <<outbound, answers>>
               /\ (SettledWith(s, "discarded") \/ SettledWith(s, "failed") \/ SettledWith(s, "lost"))
            \/ Copied(s) /\ UNCHANGED answers /\ SettledWith(s, "queued")
            \/ /\ Moved(s, "mailbox") /\ KeptLocal(s) /\ (UNCHANGED outbound \/ Copied(s))
               /\ answers' \in [queued : Nat, pending : Nat] /\ answers'.queued = answers.queued /\ HandedOver(s)
<1>1. /\ sess[s].pc = "outcome" /\ UNCHANGED <<acct, stored>> /\ Counted
      /\ \/ UNCHANGED <<outbound, answers>> /\ Settle(s, "discarded")
         \/ UNCHANGED <<outbound, answers>> /\ Settle(s, "failed")
         \/ UNCHANGED <<outbound, answers>> /\ Settle(s, "lost")
         \/ Copied(s) /\ UNCHANGED answers /\ Settle(s, "queued")
         \/ Filed(s) /\ (UNCHANGED outbound \/ Copied(s))
  BY OutcomeCases DEF Counted
<1>2. \A fate \in Fates : Settle(s, fate) => SettledWith(s, fate)
  BY SettleEffect
<1>3. "discarded" \in Fates /\ "failed" \in Fates /\ "lost" \in Fates /\ "queued" \in Fates
  BY DEF Fates
<1>4. ASSUME Filed(s)
      PROVE  /\ Moved(s, "mailbox") /\ KeptLocal(s)
             /\ answers' \in [queued : Nat, pending : Nat] /\ answers'.queued = answers.queued /\ HandedOver(s)
  <2> DEFINE b == IF local[s].res.filed # "" THEN local[s].res.filed ELSE "INBOX"
             l == [local[s] EXCEPT !.box = b]
             n == IF local[s].answer THEN answers.pending + 1 ELSE answers.pending
  <2>1. Goto(s, "mailbox") /\ Local(s, l) /\ answers' = [answers EXCEPT !.pending = n]
    BY <1>4 DEF Filed
  <2>2. local[s] \in LocalRecord /\ local[s].res \in Outcomes /\ local[s].answer \in BOOLEAN /\ "mailbox" \in Pcs
    BY DEF InTyped, LocalRecord, Pcs, Delivering
  <2>3. b \in Boxes
    BY <2>2 DEF Boxes
  <2>4. /\ n \in Nat
        /\ local[s].answer = TRUE => n = answers.pending + 1
        /\ local[s].answer # TRUE => n = answers.pending
    <3>1. answers.pending \in Nat
      BY DEF InTyped
    <3>2. CASE local[s].answer = TRUE
      <4>1. n = answers.pending + 1
        BY <3>2, Zenon
      <4> HIDE DEF n
      <4>2. n \in Nat
        BY <3>1, <4>1
      <4> QED BY <3>2, <4>1, <4>2, Zenon
    <3>3. CASE local[s].answer = FALSE
      BY <3>1, <3>3
    <3> QED BY <2>2, <3>2, <3>3
  <2> HIDE DEF b, n
  <2>5. l \in LocalRecord /\ l.used = local[s].used /\ l.answer = local[s].answer
    BY <2>2, <2>3, LocalUpdates
  <2> HIDE DEF l
  <2>6. Moved(s, "mailbox") /\ local'[s] = l
    BY <2>1, <2>2, <2>5, GotoLocalEffect
  <2>7. answers' = [queued |-> answers.queued, pending |-> n] /\ answers.queued \in Nat
    BY <2>1 DEF InTyped
  <2>8. answers' \in [queued : Nat, pending : Nat] /\ answers'.queued = answers.queued /\ answers'.pending = n
    BY <2>4, <2>7
  <2>9. HandedOver(s)
    BY <2>4, <2>8 DEF HandedOver
  <2> QED BY <2>5, <2>6, <2>8, <2>9 DEF KeptLocal
<1> QED BY <1>1, <1>2, <1>3, <1>4

LEMMA MailboxEffect ==
  ASSUME InTyped, NEW s \in Sessions, GetMailbox(s) \/ CreateMailbox(s)
  PROVE  /\ sess[s].pc \in {"mailbox", "create"} /\ UNCHANGED <<stored, outbound, answers>> /\ Counted
         /\ acct' \in AcctRecord /\ acct'.state = acct.state /\ acct'.used = acct.used /\ acct'.answered = acct.answered
         /\ ~Live => acct' = acct
         /\ \/ SettledWith(s, "failed")
            \/ Moved(s, "create") /\ KeptLocal(s)
            \/ Fits(s) /\ Moved(s, "append") /\ KeptLocal(s)
<1>1. /\ sess[s].pc \in {"mailbox", "create"} /\ UNCHANGED <<stored, outbound, answers>> /\ Counted
      /\ acct' = acct \/ (Live /\ acct' = [acct EXCEPT !.boxes = @ \union {local[s].box}])
      /\ \/ Settle(s, "failed")
         \/ Proceed(s, "create")
         \/ Fits(s) /\ Goto(s, "append") /\ \E box \in Boxes : Local(s, [local[s] EXCEPT !.box = box])
  BY MailboxCases DEF Counted
<1>2. /\ acct \in AcctRecord /\ acct.boxes \in SUBSET Boxes /\ local[s] \in LocalRecord
      /\ local[s].box \in Boxes /\ "failed" \in Fates /\ "create" \in Pcs /\ "append" \in Pcs
  BY DEF InTyped, AcctRecord, LocalRecord, Pcs, Delivering, Fates
<1>3. /\ acct' \in AcctRecord /\ acct'.state = acct.state /\ acct'.used = acct.used /\ acct'.answered = acct.answered
      /\ ~Live => acct' = acct
  <2>1. acct.boxes \union {local[s].box} \in SUBSET Boxes
    BY <1>2
  <2>2. CASE Live /\ acct' = [acct EXCEPT !.boxes = acct.boxes \union {local[s].box}]
    BY <1>2, <2>1, <2>2, AcctUpdates
  <2> QED BY <1>1, <1>2, <2>2
<1>4. CASE Settle(s, "failed")
  BY <1>1, <1>2, <1>3, <1>4, SettleEffect
<1>5. CASE Proceed(s, "create")
  <2>1. Moved(s, "create") /\ local' = local
    BY <1>2, <1>5, ProceedEffect
  <2> QED BY <1>1, <1>3, <2>1 DEF KeptLocal
<1>6. CASE Fits(s) /\ Goto(s, "append") /\ \E box \in Boxes : Local(s, [local[s] EXCEPT !.box = box])
  <2>1. PICK box \in Boxes : Local(s, [local[s] EXCEPT !.box = box])
    BY <1>6
  <2> DEFINE l == [local[s] EXCEPT !.box = box]
  <2>2. l \in LocalRecord /\ l.used = local[s].used /\ l.answer = local[s].answer
    BY <1>2, LocalUpdates
  <2>3. Local(s, l)
    BY <2>1
  <2> HIDE DEF l
  <2>4. Moved(s, "append") /\ local'[s] = l
    BY <1>2, <1>6, <2>2, <2>3, GotoLocalEffect
  <2> QED BY <1>1, <1>3, <1>6, <2>2, <2>4 DEF KeptLocal
<1> QED BY <1>1, <1>4, <1>5, <1>6

LEMMA AppendEffect ==
  ASSUME InTyped, NEW s \in Sessions, AppendMessage(s)
  PROVE  /\ sess[s].pc = "append" /\ UNCHANGED <<outbound, answers>> /\ Counted
         /\ acct' \in AcctRecord /\ acct'.state = acct.state /\ acct'.answered = acct.answered /\ acct'.boxes = acct.boxes
         /\ \/ /\ acct.boxes # {} /\ stored' = stored \union {<<s, Current(s)>>}
               /\ Moved(s, "count") /\ KeptLocal(s)
               /\ \/ mishaps' = mishaps /\ acct'.used = acct.used + 1
                  \/ mishaps' = mishaps + 1 /\ acct'.used = acct.used
            \/ SettledWith(s, "failed") /\ UNCHANGED <<acct, stored>>
<1>1. /\ acct \in AcctRecord /\ acct.used \in Nat /\ acct.used + 1 \in Nat /\ "failed" \in Fates /\ "count" \in Pcs
  BY DEF InTyped, AcctRecord, Pcs, Delivering, Fates
<1>2. sess[s].pc = "append" /\ UNCHANGED <<outbound, answers>> /\ Counted
  BY DEF AppendMessage, At, Counted, NoFault, Fault
<1>3. CASE /\ local[s].box \in acct.boxes /\ stored' = stored \union {<<s, Current(s)>>} /\ Proceed(s, "count")
           /\ \/ NoFault /\ acct' = [acct EXCEPT !.used = @ + 1]
              \/ Fault /\ UNCHANGED acct
  <2>1. Moved(s, "count") /\ KeptLocal(s)
    BY <1>1, <1>3, ProceedEffect DEF KeptLocal
  <2>2. CASE NoFault /\ acct' = [acct EXCEPT !.used = acct.used + 1]
    BY <1>1, <1>2, <1>3, <2>1, <2>2, AcctUpdates DEF NoFault
  <2>3. CASE Fault /\ UNCHANGED acct
    BY <1>1, <1>2, <1>3, <2>1, <2>3 DEF Fault
  <2> QED BY <1>3, <2>2, <2>3
<1>4. CASE Settle(s, "failed") /\ UNCHANGED <<acct, stored>>
  BY <1>1, <1>2, <1>4, SettleEffect
<1> QED BY <1>3, <1>4 DEF AppendMessage

LEMMA CountEffect ==
  ASSUME InTyped, NEW s \in Sessions, UpdateUsedBytes(s)
  PROVE  /\ sess[s].pc = "count" /\ UNCHANGED <<stored, outbound, answers>> /\ Counted
         /\ acct' \in AcctRecord /\ acct'.state = acct.state /\ acct'.answered = acct.answered /\ acct'.boxes = acct.boxes
         /\ acct'.used >= acct.used
         /\ SettledWith(s, "stored")
<1>1. /\ sess[s].pc = "count" /\ UNCHANGED <<stored, outbound, answers>> /\ Counted /\ Settle(s, "stored")
      /\ acct' = [acct EXCEPT !.used = IF Live THEN @ + 1 ELSE @] \/ acct' = acct
  BY DEF UpdateUsedBytes, At, Counted, NoFault, Fault
<1>2. /\ acct \in AcctRecord /\ acct.used \in Nat /\ "stored" \in Fates
  BY DEF InTyped, AcctRecord, Fates
<1> DEFINE u == IF Live THEN acct.used + 1 ELSE acct.used
<1>3. u \in Nat /\ u >= acct.used
  BY <1>2
<1> HIDE DEF u
<1>4. CASE acct' = [acct EXCEPT !.used = u]
  BY <1>1, <1>2, <1>3, <1>4, AcctUpdates, SettleEffect
<1>5. CASE acct' = acct
  BY <1>1, <1>2, <1>5, SettleEffect
<1> QED BY <1>1, <1>4, <1>5 DEF u

LEMMA ExternalEffect ==
  ASSUME InTyped, NEW s \in Sessions, QueueExternal(s)
  PROVE  /\ sess[s].pc = "external" /\ UNCHANGED <<stored, answers, local>> /\ Counted
         /\ acct' \in AcctRecord /\ acct'.state = acct.state /\ acct'.answered = acct.answered /\ acct'.boxes = acct.boxes
         /\ acct'.used >= acct.used
         /\ \/ UNCHANGED outbound /\ (sess[s].ext = TRUE => Reply(s, "451"))
            \/ outbound' = outbound \union {<<s, 0>>}
         /\ Reply(s, "451") \/ Reply(s, "250")
<1>1. acct \in AcctRecord /\ acct.used \in Nat /\ acct.used + 1 \in Nat /\ sess[s].ext \in BOOLEAN
  BY DEF InTyped, AcctRecord, SessRecord
<1>2. sess[s].pc = "external" /\ UNCHANGED <<stored, answers>>
  BY DEF QueueExternal, At
<1>3. acct' = acct \/ acct' = [acct EXCEPT !.used = acct.used + 1]
  BY DEF QueueExternal
<1>4. /\ acct' \in AcctRecord /\ acct'.state = acct.state /\ acct'.answered = acct.answered /\ acct'.boxes = acct.boxes
      /\ acct'.used >= acct.used
  <2>1. CASE acct' = [acct EXCEPT !.used = acct.used + 1]
    <3>1. /\ acct' \in AcctRecord /\ acct'.state = acct.state /\ acct'.answered = acct.answered
          /\ acct'.boxes = acct.boxes /\ acct'.used = acct.used + 1
      BY <1>1, <2>1, AcctUpdates
    <3> QED BY <1>1, <3>1
  <2>2. CASE acct' = acct
    BY <1>1, <2>2
  <2> QED BY <1>3, <2>1, <2>2
<1>5. CASE sess[s].ext /\ EnqueueFails /\ Reply(s, "451")
  BY <1>1, <1>2, <1>4, <1>5 DEF EnqueueFails, Fault, Counted, Reply
<1>6. CASE /\ IF sess[s].ext THEN Enqueued(s, 0) ELSE NoFault /\ UNCHANGED outbound
           /\ Reply(s, IF Failures(s) # {} /\ ~sess[s].ext THEN "451" ELSE "250")
  <2>1. Reply(s, "451") \/ Reply(s, "250")
    BY <1>6
  <2>2. local' = local
    BY <2>1 DEF Reply
  <2>3. CASE sess[s].ext = TRUE
    BY <1>2, <1>4, <1>6, <2>1, <2>2, <2>3 DEF Enqueued, NoFault, Counted
  <2>4. CASE sess[s].ext = FALSE
    BY <1>2, <1>4, <1>6, <2>1, <2>2, <2>4 DEF NoFault, Counted
  <2> QED BY <1>1, <2>3, <2>4
<1> QED BY <1>5, <1>6 DEF QueueExternal

-----------------------------------------------------------------------------
(* The types. *)

LEMMA TypedInit == InboundInit => InTyped
<1> SUFFICES ASSUME InboundInit PROVE InTyped
  OBVIOUS
<1>1. NoSession \in SessRecord
  BY DEF NoSession, SessRecord, Pcs
<1> QED BY <1>1, NoLocalType, NoAccountUpdates DEF InboundInit, InTyped

LEMMA TypedStep == InTyped /\ [InboundNext]_inboundVars => InTyped'
<1> SUFFICES ASSUME InTyped, [InboundNext]_inboundVars
             PROVE  InTyped'
  OBVIOUS
<1>c. Counted => mishaps' \in Nat
  BY DEF Counted, InTyped
<1>n. ASSUME NEW s \in Sessions
      PROVE  Current(s) \in Nat /\ (Copied(s) => outbound' \subseteq Sessions \X Nat)
  <2>1. sess[s] \in SessRecord /\ sess[s].fates \in Seq(Fates)
    BY DEF InTyped, SessRecord
  <2>2. Current(s) \in Nat
    BY <2>1 DEF Current
  <2> QED BY <2>2 DEF Copied, InTyped
<1>1. CASE UNCHANGED <<stored, outbound, answers, sess, local>> /\ acct' \in AcctRecord /\ mishaps' \in Nat
  BY <1>1 DEF InTyped
<1>2. ASSUME NEW script \in Scripts, CreateUser(script)
      PROVE  InTyped'
  BY <1>1, <1>2, NoAccountUpdates DEF CreateUser, InTyped
<1>3. ASSUME NEW script \in Scripts, SetActiveScript(script)
      PROVE  InTyped'
  <2>1. acct' \in AcctRecord
    BY <1>3, AcctUpdates DEF SetActiveScript, InTyped
  <2>2. mishaps' \in Nat
    BY <1>3 DEF SetActiveScript, Fault, InTyped
  <2> QED BY <1>1, <1>3, <2>1, <2>2 DEF SetActiveScript
<1>4. CASE InitializeUserMailboxes
  <2>1. {"INBOX", "Sent"} \in SUBSET Boxes
    BY DEF Boxes
  <2>2. acct' \in AcctRecord
    BY <1>4, <2>1, AcctUpdates DEF InitializeUserMailboxes, InTyped
  <2> QED BY <1>1, <1>4, <2>2 DEF InitializeUserMailboxes, InTyped
<1>5. CASE DeleteUser
  <2>1. acct' \in AcctRecord
    BY <1>5, NoAccountUpdates DEF DeleteUser
  <2>2. mishaps' \in Nat
    BY <1>5 DEF DeleteUser, Fault, InTyped
  <2> QED BY <1>1, <1>5, <2>1, <2>2 DEF DeleteUser
<1>6. CASE SendVacationResponse
  <2>1. answers.queued \in Nat /\ answers.pending \in Nat /\ answers.pending > 0
    BY <1>6 DEF SendVacationResponse, InTyped
  <2>2. \/ answers' = [queued |-> answers.queued + 1, pending |-> answers.pending - 1]
        \/ answers' = [answers EXCEPT !.pending = answers.pending - 1]
    BY <1>6 DEF SendVacationResponse
  <2>3. answers.queued + 1 \in Nat /\ answers.pending - 1 \in Nat
    BY <2>1
  <2>4. answers' \in [queued : Nat, pending : Nat]
    BY <2>2, <2>3 DEF InTyped
  <2>5. mishaps' \in Nat
    BY <1>6 DEF SendVacationResponse, NoFault, Fault, InTyped
  <2> QED BY <1>6, <2>4, <2>5 DEF SendVacationResponse, InTyped
<1>7. ASSUME NEW s \in Sessions, NEW kind \in KindsOf(s), NEW rcpts \in Envelopes, NEW ext \in BOOLEAN,
             Envelope(s, kind, rcpts, ext)
      PROVE  InTyped'
  <2>1. kind \in {"mx", "sub"}
    BY DEF KindsOf
  <2> QED BY <1>7, <2>1, EnvelopeEffect DEF InTyped, OnlyHere
<1>8. ASSUME NEW s \in Sessions, Deliver(s)
      PROVE  InTyped'
  <2>1. CASE ResolveAlias(s)
    BY <1>c, <1>n, <2>1, ResolveEffect DEF InTyped, Moved, SettledWith, OnlyHere
  <2>2. CASE SieveExecute(s)
    BY <1>c, <2>2, SieveEffect DEF InTyped, Moved, OnlyHere
  <2>3. CASE ShouldRespond(s)
    BY <1>c, <2>3, ShouldEffect DEF InTyped, Moved, OnlyHere
  <2>4. CASE RecordResponse(s)
    <3>1. acct' \in AcctRecord
      BY <2>4, RecordEffect, AcctUpdates DEF InTyped
    <3> QED BY <1>c, <2>4, <3>1, RecordEffect DEF InTyped, Moved, OnlyHere
  <2>5. CASE SieveOutcome(s)
    BY <1>c, <1>n, <2>5, OutcomeEffect DEF InTyped, Moved, SettledWith, OnlyHere
  <2>6. CASE GetMailbox(s) \/ CreateMailbox(s)
    BY <1>c, <2>6, MailboxEffect DEF InTyped, Moved, SettledWith, OnlyHere
  <2>7. CASE AppendMessage(s)
    <3>1. stored' \subseteq Sessions \X Nat
      BY <1>n, <2>7, AppendEffect DEF InTyped
    <3> QED BY <1>c, <2>7, <3>1, AppendEffect DEF InTyped, Moved, SettledWith, OnlyHere
  <2>8. CASE UpdateUsedBytes(s)
    BY <1>c, <2>8, CountEffect DEF InTyped, SettledWith, OnlyHere
  <2> QED BY <1>8, <2>1, <2>2, <2>3, <2>4, <2>5, <2>6, <2>7, <2>8 DEF Deliver
<1>9. ASSUME NEW s \in Sessions, QueueExternal(s)
      PROVE  InTyped'
  <2>1. sess' \in [Sessions -> SessRecord] /\ local' = local
    BY <1>9, ExternalEffect, ReplyLemma
  <2>2. outbound' \subseteq Sessions \X Nat
    <3>1. outbound' = outbound \/ outbound' = outbound \union {<<s, 0>>}
      BY <1>9, ExternalEffect
    <3> QED BY <3>1 DEF InTyped
  <2> QED BY <1>c, <1>9, <2>1, <2>2, ExternalEffect DEF InTyped
<1>10. ASSUME NEW s \in Sessions, FinishInbound(s)
       PROVE  InTyped'
  <2>1. Reply(s, "451") \/ Reply(s, "250")
    BY <1>10 DEF FinishInbound
  <2>2. sess' \in [Sessions -> SessRecord] /\ local' = local
    BY <2>1, ReplyLemma
  <2> QED BY <1>10, <2>2 DEF FinishInbound, InTyped
<1>11. CASE UNCHANGED inboundVars
  BY <1>11 DEF inboundVars, InTyped
<1> QED BY <1>2, <1>3, <1>4, <1>5, <1>6, <1>7, <1>8, <1>9, <1>10, <1>11 DEF InboundNext

-----------------------------------------------------------------------------
(* Fates and copies: what a step of session s does to SettledFor. *)

(* Another session's copies are its own. *)
LEMMA OtherSettled ==
  ASSUME NEW q, NEW r, NEW st, NEW out, NEW st2, NEW out2, SettledFor(q, r, st, out),
         \A i \in Nat : <<q, i>> \in st2 <=> <<q, i>> \in st,
         \A i \in Nat : <<q, i>> \in out2 <=> <<q, i>> \in out,
         r.fates \in Seq(Fates)
  PROVE  SettledFor(q, r, st2, out2)
<1>1. Noted(q, r, st2, out2)
  BY DEF SettledFor, Noted
<1>2. StoredFor(q, r, st2)
  <2>1. Len(r.fates) + 1 \in Nat
    OBVIOUS
  <2> QED BY <2>1 DEF SettledFor, StoredFor
<1>3. QueuedFor(q, r, out2)
  BY DEF SettledFor, QueuedFor
<1>4. Replied(q, r, out2)
  BY DEF SettledFor, Replied
<1> QED BY <1>1, <1>2, <1>3, <1>4 DEF SettledFor

LEMMA MoveSettled ==
  ASSUME NEW s, NEW r \in SessRecord, NEW f \in SessRecord, NEW st, NEW out, NEW out2,
         SettledFor(s, r, st, out), SameButPc(f, r),
         r.pc \in Delivering \ {"count"}, f.pc \in Delivering \ {"alias", "count"},
         r.rcpts[Len(r.fates) + 1] \in LocalAddrs,
         out2 = out \/ out2 = out \union {<<s, Len(r.fates) + 1>>}
  PROVE  SettledFor(s, f, st, out2)
<1>1. r.fates \in Seq(Fates) /\ r.rcpts \in Seq(Addrs) /\ Len(r.fates) < Len(r.rcpts)
  BY DEF SessRecord, SettledFor, InPlace
<1>2. InPlace(f)
  BY DEF SettledFor, InPlace, SameButPc, Delivering
<1>3. Noted(s, f, st, out2)
  BY DEF SettledFor, Noted, SameButPc
<1>4. StoredFor(s, f, st)
  BY DEF SettledFor, StoredFor, SameButPc
<1>5. QueuedFor(s, f, out2)
  <2>1. Len(r.fates) + 1 \in 1..Len(r.rcpts)
    BY <1>1
  <2>2. f.pc # "idle"
    BY DEF Delivering
  <2> QED BY <2>1, <2>2 DEF SettledFor, QueuedFor, SameButPc
<1>6. Replied(s, f, out2)
  BY DEF SettledFor, Replied, SameButPc
<1> QED BY <1>2, <1>3, <1>4, <1>5, <1>6 DEF SettledFor

LEMMA AppendSettled ==
  ASSUME NEW s, NEW r \in SessRecord, NEW f \in SessRecord, NEW st, NEW out,
         SettledFor(s, r, st, out), SameButPc(f, r), r.pc = "append", f.pc = "count"
  PROVE  SettledFor(s, f, st \union {<<s, Len(r.fates) + 1>>}, out)
<1>1. r.fates \in Seq(Fates) /\ r.rcpts \in Seq(Addrs)
  BY DEF SessRecord
<1>2. InPlace(f)
  BY DEF SettledFor, InPlace, SameButPc, Delivering
<1>3. Noted(s, f, st \union {<<s, Len(r.fates) + 1>>}, out)
  BY DEF SettledFor, Noted, SameButPc
<1>4. StoredFor(s, f, st \union {<<s, Len(r.fates) + 1>>})
  BY <1>1 DEF SettledFor, StoredFor, SameButPc
<1>5. QueuedFor(s, f, out)
  BY DEF SettledFor, QueuedFor, SameButPc
<1>6. Replied(s, f, out)
  BY DEF SettledFor, Replied, SameButPc
<1> QED BY <1>2, <1>3, <1>4, <1>5, <1>6 DEF SettledFor

LEMMA FateSettled ==
  ASSUME NEW s, NEW r \in SessRecord, NEW f \in SessRecord, NEW st, NEW out, NEW out2, NEW fate \in Fates,
         SettledFor(s, r, st, out), SettledAs(f, r, fate), r.pc \in Delivering,
         fate = "stored" <=> r.pc = "count",
         \/ fate # "queued" /\ out2 = out
         \/ fate = "queued" /\ out2 = out \union {<<s, Len(r.fates) + 1>>}
  PROVE  SettledFor(s, f, st, out2)
<1>1. /\ r.fates \in Seq(Fates) /\ r.rcpts \in Seq(Addrs) /\ f.fates \in Seq(Fates)
      /\ r.kind \in {"mx", "sub"} /\ Len(r.fates) < Len(r.rcpts) /\ Len(r.fates) \in Nat
      /\ r.redirectLost \in BOOLEAN
  BY DEF SessRecord, SettledFor, InPlace
<1>2. InPlace(f)
  <2>1. r.reply = "none" /\ (r.kind = "mx" => r.ext = FALSE)
    BY DEF SettledFor, InPlace, Delivering
  <2>2. CASE Len(f.fates) # Len(r.rcpts)
    <3>1. f.pc = "alias" /\ Len(f.fates) < Len(f.rcpts)
      BY <1>1, <2>2 DEF SettledAs
    <3> QED BY <2>1, <3>1 DEF InPlace, SettledAs, Delivering
  <2>3. CASE Len(f.fates) = Len(r.rcpts)
    <3>1. (f.pc = "external" /\ f.kind = "sub") \/ (f.pc = "reply" /\ f.kind = "mx")
      BY <1>1, <2>3 DEF SettledAs
    <3> QED BY <2>1, <2>3, <3>1 DEF InPlace, SettledAs, Delivering
  <2> QED BY <2>2, <2>3
<1>3. Noted(s, f, st, out2)
  <2> SUFFICES ASSUME NEW i \in 1..Len(f.fates)
               PROVE  /\ f.fates[i] = "stored" => <<s, i>> \in st
                      /\ f.fates[i] = "queued" => <<s, i>> \in out2
                      /\ f.fates[i] = "lost" => f.redirectLost = TRUE
    BY DEF Noted
  <2>1. CASE i \in 1..Len(r.fates)
    <3>1. f.fates[i] = r.fates[i] /\ (r.redirectLost = TRUE => f.redirectLost = TRUE)
      BY <2>1 DEF SettledAs
    <3> QED BY <2>1, <3>1 DEF SettledFor, Noted
  <2>2. CASE i = Len(r.fates) + 1
    <3>1. f.fates[i] = fate
      BY <2>2 DEF SettledAs
    <3>2. fate = "stored" => <<s, i>> \in st
      BY <2>2 DEF SettledFor, StoredFor
    <3>3. fate = "queued" => <<s, i>> \in out2
      BY <2>2
    <3>4. fate = "lost" => f.redirectLost = TRUE
      BY DEF SettledAs
    <3> QED BY <3>1, <3>2, <3>3, <3>4
  <2>3. i \in 1..Len(r.fates) \/ i = Len(r.fates) + 1
    BY <1>1 DEF SettledAs
  <2> QED BY <2>1, <2>2, <2>3
<1>4. StoredFor(s, f, st)
  <2>1. f.pc # "count"
    BY <1>1 DEF SettledAs
  <2>2. ASSUME NEW i \in Nat, <<s, i>> \in st
        PROVE  i \in 1..Len(f.fates) /\ f.fates[i] = "stored"
    <3>1. CASE i \in 1..Len(r.fates) /\ r.fates[i] = "stored"
      BY <1>1, <3>1 DEF SettledAs
    <3>2. CASE r.pc = "count" /\ i = Len(r.fates) + 1
      BY <1>1, <3>2 DEF SettledAs
    <3> QED BY <2>2, <3>1, <3>2 DEF SettledFor, StoredFor
  <2> QED BY <2>1, <2>2 DEF StoredFor
<1>5. QueuedFor(s, f, out2)
  <2>1. f.pc # "idle"
    BY <1>1 DEF SettledAs
  <2>2. ASSUME NEW i \in Nat, <<s, i>> \in out2
        PROVE  \/ i = 0
               \/ i \in 1..Len(f.rcpts) /\ f.rcpts[i] \in LocalAddrs
               \/ i \in 1..Len(f.fates) /\ f.fates[i] = "queued"
    <3>1. CASE <<s, i>> \in out
      <4>1. CASE i = 0 \/ (i \in 1..Len(r.rcpts) /\ r.rcpts[i] \in LocalAddrs)
        BY <4>1 DEF SettledAs
      <4>2. CASE i \in 1..Len(r.fates) /\ r.fates[i] = "queued"
        BY <1>1, <4>2 DEF SettledAs
      <4> QED BY <3>1, <4>1, <4>2 DEF SettledFor, QueuedFor
    <3>2. CASE <<s, i>> \notin out
      <4>1. fate = "queued" /\ i = Len(r.fates) + 1
        BY <2>2, <3>2
      <4> QED BY <1>1, <4>1 DEF SettledAs
    <3> QED BY <3>1, <3>2
  <2> QED BY <2>1, <2>2 DEF QueuedFor
<1>6. Replied(s, f, out2)
  <2>1. f.reply = "none"
    BY DEF SettledAs, SettledFor, InPlace, Delivering
  <2> QED BY <2>1 DEF Replied
<1> QED BY <1>2, <1>3, <1>4, <1>5, <1>6 DEF SettledFor

LEMMA SettledInit == InboundInit => SettledInv
<1> SUFFICES ASSUME InboundInit, NEW s \in Sessions
             PROVE  SettledFor(s, sess[s], stored, outbound)
  BY DEF SettledInv
<1>1. sess[s] = NoSession /\ stored = {} /\ outbound = {}
  BY DEF InboundInit
<1>2. /\ NoSession.pc = "idle" /\ NoSession.fates = <<>> /\ NoSession.rcpts = <<>> /\ NoSession.reply = "none"
      /\ NoSession.ext = FALSE
  BY DEF NoSession
<1> QED BY <1>1, <1>2 DEF SettledFor, InPlace, Noted, StoredFor, QueuedFor, Replied, Delivering

LEMMA SettledStep == InTyped /\ SettledInv /\ [InboundNext]_inboundVars => SettledInv'
<1> SUFFICES ASSUME InTyped, SettledInv, [InboundNext]_inboundVars
             PROVE  SettledInv'
  OBVIOUS
<1>t. \A s \in Sessions : /\ sess[s] \in SessRecord /\ sess[s].fates \in Seq(Fates) /\ Len(sess[s].fates) \in Nat
                          /\ Current(s) = Len(sess[s].fates) + 1 /\ SettledFor(s, sess[s], stored, outbound)
  BY DEF InTyped, SessRecord, SettledInv, Current
<1>0. CASE UNCHANGED <<sess, stored, outbound>>
  BY <1>0 DEF SettledInv
(* A step of one session adds copies of that session only. *)
<1>o. ASSUME NEW s \in Sessions, OnlyHere(s), NEW i \in Nat, NEW j \in Nat,
             stored' = stored \/ stored' = stored \union {<<s, i>>},
             outbound' = outbound \/ outbound' = outbound \union {<<s, j>>},
             SettledFor(s, sess'[s], stored', outbound')
      PROVE  SettledInv'
  <2> SUFFICES ASSUME NEW q \in Sessions, q # s
               PROVE  SettledFor(q, sess'[q], stored', outbound')
    BY <1>o DEF SettledInv
  <2>1. sess'[q] = sess[q]
    BY <1>o DEF OnlyHere
  <2>2. /\ \A k \in Nat : <<q, k>> \in stored' <=> <<q, k>> \in stored
        /\ \A k \in Nat : <<q, k>> \in outbound' <=> <<q, k>> \in outbound
    BY <1>o
  <2>3. SettledFor(q, sess[q], stored, outbound) /\ sess[q].fates \in Seq(Fates)
    BY <1>t
  <2>4. SettledFor(q, sess[q], stored', outbound')
    BY <2>2, <2>3, OtherSettled
  <2> QED BY <2>1, <2>4
<1>f. ASSUME NEW s \in Sessions, NEW fate \in Fates, SettledWith(s, fate), sess[s].pc \in Delivering,
             UNCHANGED stored, fate = "stored" <=> sess[s].pc = "count",
             (fate # "queued" /\ UNCHANGED outbound) \/ (fate = "queued" /\ Copied(s))
      PROVE  SettledInv'
  <2>1. OnlyHere(s) /\ SettledAs(sess'[s], sess[s], fate) /\ sess'[s] \in SessRecord
    BY <1>f DEF SettledWith, OnlyHere
  <2>2. /\ Current(s) = Len(sess[s].fates) + 1 /\ Current(s) \in Nat
        /\ outbound' = outbound \/ outbound' = outbound \union {<<s, Current(s)>>}
        /\ \/ fate # "queued" /\ outbound' = outbound
           \/ fate = "queued" /\ outbound' = outbound \union {<<s, Len(sess[s].fates) + 1>>}
    BY <1>f, <1>t DEF Copied
  <2>3. SettledFor(s, sess'[s], stored', outbound')
    BY <1>f, <1>t, <2>1, <2>2, FateSettled
  <2> QED BY <1>f, <1>o, <2>1, <2>2, <2>3
<1>m. ASSUME NEW s \in Sessions, NEW pc \in Delivering \ {"alias", "count"}, Moved(s, pc), UNCHANGED stored,
             sess[s].pc \in Delivering \ {"count"}, sess[s].pc = "alias" => Rcpt(s) \in LocalAddrs,
             UNCHANGED outbound \/ Copied(s)
      PROVE  SettledInv'
  <2>1. OnlyHere(s) /\ SameButPc(sess'[s], sess[s]) /\ sess'[s] \in SessRecord /\ sess'[s].pc = pc
    BY <1>m DEF Moved, OnlyHere
  <2>2. /\ Current(s) \in Nat /\ Current(s) = Len(sess[s].fates) + 1
        /\ outbound' = outbound \/ outbound' = outbound \union {<<s, Len(sess[s].fates) + 1>>}
    BY <1>m, <1>t DEF Copied
  <2>3. sess[s].rcpts[Len(sess[s].fates) + 1] \in LocalAddrs
    <3>1. InPlace(sess[s])
      BY <1>t DEF SettledFor
    <3> QED BY <1>m, <2>2, <3>1 DEF InPlace, Rcpt
  <2>4. SettledFor(s, sess'[s], stored', outbound')
    BY <1>m, <1>t, <2>1, <2>2, <2>3, MoveSettled
  <2> QED BY <1>m, <1>o, <2>1, <2>2, <2>4
<1>d. \A pc \in {"alias", "sieve", "should", "record", "outcome", "mailbox", "create", "append"} :
        pc \in Delivering \ {"count"}
  BY DEF Delivering
<1>e. /\ "count" \in Delivering
      /\ "failed" \in Fates /\ "queued" \in Fates /\ "lost" \in Fates /\ "discarded" \in Fates /\ "stored" \in Fates
  BY DEF Delivering, Fates
<1>1. ASSUME NEW s \in Sessions, NEW kind \in KindsOf(s), NEW rcpts \in Envelopes, NEW ext \in BOOLEAN,
             Envelope(s, kind, rcpts, ext)
      PROVE  SettledInv'
  <2> DEFINE f == sess'[s]
  <2>1. kind \in {"mx", "sub"}
    BY DEF KindsOf
  <2>2. /\ sess[s].pc = "idle" /\ UNCHANGED <<stored, outbound>> /\ OnlyHere(s)
        /\ f.pc \in {"alias", "external"} /\ f.reply = "none" /\ f.fates = <<>>
        /\ f.kind = "mx" => f.ext = FALSE
        /\ f.pc = "alias" => Len(f.rcpts) > 0
        /\ f.pc = "external" => Len(f.rcpts) = 0 /\ f.kind = "sub"
    BY <1>1, <2>1, EnvelopeEffect
  <2> HIDE DEF f
  <2>3. \A i \in Nat : <<s, i>> \notin stored /\ <<s, i>> \notin outbound
    <3>1. Len(sess[s].fates) = 0 /\ StoredFor(s, sess[s], stored) /\ QueuedFor(s, sess[s], outbound)
      BY <1>t, <2>2 DEF SettledFor, InPlace
    <3> QED BY <2>2, <3>1 DEF StoredFor, QueuedFor
  <2>4. Len(f.fates) = 0
    BY <2>2
  <2>5. InPlace(f)
    BY <2>2, <2>4 DEF InPlace, Delivering
  <2>6. Noted(s, f, stored, outbound) /\ StoredFor(s, f, stored) /\ QueuedFor(s, f, outbound) /\ Replied(s, f, outbound)
    BY <2>2, <2>3, <2>4 DEF Noted, StoredFor, QueuedFor, Replied
  <2>7. SettledFor(s, sess'[s], stored', outbound')
    BY <2>2, <2>5, <2>6 DEF SettledFor, f
  <2>8. 0 \in Nat
    OBVIOUS
  <2> QED BY <1>o, <2>2, <2>7, <2>8
<1>2. ASSUME NEW s \in Sessions, Deliver(s)
      PROVE  SettledInv'
  <2>1. CASE ResolveAlias(s)
    BY <1>d, <1>e, <1>f, <1>m, <2>1, ResolveEffect
  <2>2. CASE SieveExecute(s)
    BY <1>d, <1>m, <2>2, SieveEffect
  <2>3. CASE ShouldRespond(s)
    BY <1>d, <1>m, <2>3, ShouldEffect
  <2>4. CASE RecordResponse(s)
    BY <1>d, <1>m, <2>4, RecordEffect
  <2>5. CASE SieveOutcome(s)
    BY <1>d, <1>e, <1>f, <1>m, <2>5, OutcomeEffect
  <2>6. CASE GetMailbox(s) \/ CreateMailbox(s)
    BY <1>d, <1>e, <1>f, <1>m, <2>6, MailboxEffect
  <2>7. CASE AppendMessage(s)
    <3>1. CASE SettledWith(s, "failed") /\ UNCHANGED <<acct, stored>>
      BY <1>d, <1>e, <1>f, <2>7, <3>1, AppendEffect
    <3>2. CASE stored' = stored \union {<<s, Current(s)>>} /\ Moved(s, "count")
      <4>1. /\ sess[s].pc = "append" /\ outbound' = outbound /\ OnlyHere(s) /\ Current(s) \in Nat
            /\ SameButPc(sess'[s], sess[s]) /\ sess'[s].pc = "count" /\ sess'[s] \in SessRecord
            /\ stored' = stored \union {<<s, Len(sess[s].fates) + 1>>}
        BY <1>t, <2>7, <3>2, AppendEffect DEF Moved, OnlyHere
      <4>2. SettledFor(s, sess'[s], stored', outbound')
        BY <1>t, <4>1, AppendSettled
      <4> QED BY <1>o, <3>2, <4>1, <4>2
    <3> QED BY <2>7, <3>1, <3>2, AppendEffect
  <2>8. CASE UpdateUsedBytes(s)
    BY <1>e, <1>f, <2>8, CountEffect
  <2> QED BY <1>2, <2>1, <2>2, <2>3, <2>4, <2>5, <2>6, <2>7, <2>8 DEF Deliver
(* The answer to DATA. *)
<1>r. ASSUME NEW s \in Sessions, NEW code \in {"250", "451"}, Reply(s, code), UNCHANGED stored,
             sess[s].pc \in {"external", "reply"},
             outbound' = outbound \/ outbound' = outbound \union {<<s, 0>>},
             sess[s].kind = "mx" /\ code = "451" => \A i \in 1..Len(sess[s].fates) : sess[s].fates[i] = "failed",
             sess[s].kind = "mx" /\ code = "250" => \E i \in 1..Len(sess[s].fates) : sess[s].fates[i] # "failed",
             sess[s].ext = TRUE /\ code = "250" => <<s, 0>> \in outbound'
      PROVE  SettledInv'
  <2> DEFINE f == sess'[s]
             r == sess[s]
  <2>1. /\ f.pc = "done" /\ f.reply = code /\ f.kind = r.kind /\ f.rcpts = r.rcpts /\ f.ext = r.ext
        /\ f.fates = r.fates /\ f.redirectLost = r.redirectLost /\ OnlyHere(s)
    BY <1>r, ReplyLemma DEF OnlyHere, InTyped
  <2>2. SettledFor(s, r, stored, outbound)
    BY <1>t
  <2> HIDE DEF f, r
  <2>3. r.pc \in {"external", "reply"}
    BY <1>r DEF r
  <2>4. InPlace(f)
    BY <2>1, <2>2, <2>3 DEF SettledFor, InPlace, Delivering
  <2>5. Noted(s, f, stored, outbound')
    BY <1>r, <2>1, <2>2 DEF SettledFor, Noted
  <2>6. StoredFor(s, f, stored)
    BY <2>1, <2>2, <2>3 DEF SettledFor, StoredFor
  <2>7. QueuedFor(s, f, outbound')
    BY <1>r, <2>1, <2>2 DEF SettledFor, QueuedFor
  <2>8. Replied(s, f, outbound')
    BY <1>r, <2>1 DEF Replied, r
  <2>9. SettledFor(s, sess'[s], stored', outbound')
    BY <1>r, <2>4, <2>5, <2>6, <2>7, <2>8 DEF SettledFor, f
  <2> QED BY <1>o, <1>r, <2>1, <2>9
<1>3. ASSUME NEW s \in Sessions, QueueExternal(s)
      PROVE  SettledInv'
  <2>1. sess[s].pc = "external" /\ sess[s].kind = "sub" /\ UNCHANGED stored
    BY <1>3, <1>t, ExternalEffect DEF SettledFor, InPlace
  <2>2. CASE Reply(s, "451")
    <3>1. outbound' = outbound \/ outbound' = outbound \union {<<s, 0>>}
      BY <1>3, ExternalEffect
    <3> QED BY <1>r, <2>1, <2>2, <3>1
  <2>3. CASE Reply(s, "250")
    <3>1. sess'[s].reply = "250"
      BY <2>3, ReplyLemma
    <3>2. ~Reply(s, "451")
      BY <3>1, ReplyLemma
    <3>3. /\ outbound' = outbound \/ outbound' = outbound \union {<<s, 0>>}
          /\ sess[s].ext = TRUE => <<s, 0>> \in outbound'
      BY <1>3, <3>2, ExternalEffect
    <3> QED BY <1>r, <2>1, <2>3, <3>3
  <2> QED BY <1>3, <2>2, <2>3, ExternalEffect
<1>4. ASSUME NEW s \in Sessions, FinishInbound(s)
      PROVE  SettledInv'
  <2>1. /\ sess[s].pc = "reply" /\ sess[s].kind = "mx" /\ UNCHANGED <<stored, outbound>>
        /\ Len(sess[s].fates) = Len(sess[s].rcpts) /\ sess[s].ext = FALSE
    BY <1>4, <1>t DEF FinishInbound, At, SettledFor, InPlace
  <2>2. DOMAIN sess[s].rcpts = 1..Len(sess[s].fates) /\ DOMAIN sess[s].fates = 1..Len(sess[s].fates)
    BY <1>t, <2>1 DEF SessRecord
  <2>3. CASE Failures(s) = DOMAIN sess[s].rcpts
    <3>1. Reply(s, "451")
      BY <1>4, <2>3 DEF FinishInbound
    <3>2. \A i \in 1..Len(sess[s].fates) : sess[s].fates[i] = "failed"
      BY <2>2, <2>3 DEF Failures
    <3> QED BY <1>r, <2>1, <3>1, <3>2
  <2>4. CASE Failures(s) # DOMAIN sess[s].rcpts
    <3>1. Reply(s, "250")
      BY <1>4, <2>4 DEF FinishInbound
    <3>2. \E i \in 1..Len(sess[s].fates) : sess[s].fates[i] # "failed"
      BY <2>2, <2>4 DEF Failures
    <3> QED BY <1>r, <2>1, <3>1, <3>2
  <2> QED BY <2>3, <2>4
<1>5. CASE \/ \E script \in Scripts : CreateUser(script) \/ SetActiveScript(script)
           \/ InitializeUserMailboxes \/ DeleteUser \/ SendVacationResponse \/ UNCHANGED inboundVars
  BY <1>0, <1>5 DEF CreateUser, SetActiveScript, InitializeUserMailboxes, DeleteUser, SendVacationResponse, inboundVars
<1> QED BY <1>1, <1>2, <1>3, <1>4, <1>5 DEF InboundNext

LEMMA SettledInvariant == InboundSpec => [](InTyped /\ SettledInv)
BY TypedInit, TypedStep, SettledInit, SettledStep, PTL DEF InboundSpec

(* A message refused on port 25 has left no copy in a mailbox and none for a
   forwarding alias, however many recipients it had and whatever failed, so a
   retry makes no second one.                                                *)
THEOREM RefusalsLeaveNothing == InboundSpec => []RefusedLeavesNoCopy
<1>1. InTyped /\ SettledInv => RefusedLeavesNoCopy
  <2> SUFFICES ASSUME InTyped, SettledInv, NEW s \in Sessions, sess[s].kind = "mx", sess[s].reply = "451"
               PROVE  /\ ~\E i \in DOMAIN sess[s].rcpts : <<s, i>> \in stored
                      /\ \A i \in Copies(s) : sess[s].rcpts[i] \in LocalAddrs
    BY DEF RefusedLeavesNoCopy
  <2> DEFINE r == sess[s]
  <2>1. /\ r \in SessRecord /\ InPlace(r) /\ StoredFor(s, r, stored) /\ QueuedFor(s, r, outbound)
        /\ Replied(s, r, outbound)
    BY DEF SettledInv, SettledFor, InTyped
  <2>2. r.pc = "done" /\ \A i \in 1..Len(r.fates) : r.fates[i] = "failed"
    BY <2>1 DEF InPlace, Replied
  <2>3. DOMAIN r.rcpts = 1..Len(r.rcpts) /\ \A i \in DOMAIN r.rcpts : i \in Nat /\ i # 0
    BY <2>1 DEF SessRecord
  <2>4. \A i \in Nat : <<s, i>> \notin stored
    BY <2>1, <2>2 DEF StoredFor
  <2>5. \A i \in Nat : <<s, i>> \in outbound /\ i # 0 => r.rcpts[i] \in LocalAddrs
    BY <2>1, <2>2 DEF QueuedFor
  <2> QED BY <2>3, <2>4, <2>5 DEF Copies
<1> QED BY <1>1, SettledInvariant, PTL

(* A message acknowledged on port 25 has a copy somewhere or was discarded by a
   script, but for a redirect whose Enqueue failed.                          *)
THEOREM AcknowledgedAreSafe == InboundSpec => []AcknowledgedIsSafe
<1>1. InTyped /\ SettledInv => AcknowledgedIsSafe
  <2> SUFFICES ASSUME InTyped, SettledInv, NEW s \in Sessions, sess[s].kind = "mx", sess[s].reply = "250"
               PROVE  \/ Copies(s) # {}
                      \/ \E i \in DOMAIN sess[s].fates : sess[s].fates[i] = "discarded"
                      \/ sess[s].redirectLost
    BY DEF AcknowledgedIsSafe
  <2> DEFINE r == sess[s]
  <2>1. r \in SessRecord /\ InPlace(r) /\ Noted(s, r, stored, outbound) /\ Replied(s, r, outbound)
    BY DEF SettledInv, SettledFor, InTyped
  <2>2. r.pc = "done" /\ Len(r.fates) = Len(r.rcpts)
    BY <2>1 DEF InPlace
  <2>3. PICK i \in 1..Len(r.fates) : r.fates[i] # "failed"
    BY <2>1 DEF Replied
  <2>4. DOMAIN r.rcpts = 1..Len(r.fates) /\ DOMAIN r.fates = 1..Len(r.fates) /\ r.fates[i] \in Fates
    BY <2>1, <2>2 DEF SessRecord
  <2>5. CASE r.fates[i] = "stored" \/ r.fates[i] = "queued"
    BY <2>1, <2>3, <2>4, <2>5 DEF Noted, Copies
  <2>6. CASE r.fates[i] = "lost"
    BY <2>1, <2>3, <2>6 DEF Noted
  <2>7. CASE r.fates[i] = "discarded"
    BY <2>4, <2>7
  <2> QED BY <2>3, <2>4, <2>5, <2>6, <2>7 DEF Fates
<1> QED BY <1>1, SettledInvariant, PTL

(* An acknowledged submission has its external recipients in the queue. *)
THEOREM SubmissionsQueued == InboundSpec => []SubmittedIsQueued
<1>1. InTyped /\ SettledInv => SubmittedIsQueued
  <2> SUFFICES ASSUME InTyped, SettledInv, NEW s \in Sessions, sess[s].ext, sess[s].reply = "250"
               PROVE  <<s, 0>> \in outbound
    BY DEF SubmittedIsQueued
  <2>1. sess[s].ext = TRUE /\ Replied(s, sess[s], outbound)
    BY DEF SettledInv, SettledFor, InTyped, SessRecord
  <2> QED BY <2>1 DEF Replied
<1> QED BY <1>1, SettledInvariant, PTL

-----------------------------------------------------------------------------
(* The quota. *)

LEMMA CountOf ==
  ASSUME NEW S, IsFiniteSet(S)
  PROVE  /\ Cardinality(S) \in Nat
         /\ \A T \in SUBSET S : /\ IsFiniteSet(T) /\ Cardinality(T) \in Nat /\ Cardinality(T) <= Cardinality(S)
         /\ \A x \in S : Cardinality(S \ {x}) = Cardinality(S) - 1
         /\ \A x : /\ IsFiniteSet(S \union {x})
                   /\ Cardinality(S \union {x}) \in Nat
                   /\ Cardinality(S \union {x}) <= Cardinality(S) + 1
<1>1. Cardinality(S) \in Nat
  BY FS_CardinalityType
<1>2. \A T \in SUBSET S : /\ IsFiniteSet(T) /\ Cardinality(T) \in Nat /\ Cardinality(T) <= Cardinality(S)
  BY FS_Subset, FS_CardinalityType
<1>3. \A x \in S : Cardinality(S \ {x}) = Cardinality(S) - 1
  BY FS_RemoveElement
<1>4. \A x : /\ IsFiniteSet(S \union {x})
             /\ Cardinality(S \union {x}) \in Nat
             /\ Cardinality(S \union {x}) <= Cardinality(S) + 1
  <2> TAKE x
  <2>1. /\ IsFiniteSet(S \union {x})
        /\ Cardinality(S \union {x}) = IF x \in S THEN Cardinality(S) ELSE Cardinality(S) + 1
    BY FS_AddElement
  <2> QED BY <1>1, <2>1
<1> QED BY <1>1, <1>2, <1>3, <1>4

LEMMA QuotaInit == InboundInit => NothingYet /\ QuotaInv
<1> SUFFICES ASSUME InboundInit PROVE NothingYet /\ QuotaInv
  OBVIOUS
<1>1. /\ acct.state = "none" /\ acct.boxes = {} /\ stored = {} /\ mishaps = 0
      /\ answers.queued = 0 /\ answers.pending = 0
      /\ \A s \in Sessions : sess[s].pc = "idle"
  BY DEF InboundInit, NoAccount, NoSession
<1>2. IsFiniteSet(stored) /\ Cardinality(stored) = 0
  BY <1>1, FS_EmptySet
<1>3. InFlight = {} /\ Cardinality(InFlight) = 0
  BY <1>1, FS_EmptySet DEF InFlight, Reading
<1>4. Quota \in Nat /\ Cardinality(Sessions) \in Nat
  BY InboundAssumption, FS_CardinalityType
<1> QED BY <1>1, <1>2, <1>3, <1>4 DEF NothingYet, QuotaInv, Live

(* Nothing has happened while there is no account. *)
LEMMA NothingStep == InTyped /\ NothingYet /\ [InboundNext]_inboundVars => NothingYet'
<1> SUFFICES ASSUME InTyped, NothingYet, [InboundNext]_inboundVars, acct'.state = "none"
             PROVE  /\ \A s \in Sessions : sess'[s].pc = "idle"
                    /\ stored' = {} /\ answers'.queued = 0 /\ answers'.pending = 0
  BY DEF NothingYet
<1>1. ASSUME NEW script \in Scripts, CreateUser(script) \/ SetActiveScript(script)
      PROVE  FALSE
  <2>1. CASE CreateUser(script)
    BY <2>1, NoAccountUpdates DEF CreateUser
  <2>2. CASE SetActiveScript(script)
    <3>1. acct'.state = acct.state
      BY <2>2, AcctUpdates DEF SetActiveScript, InTyped
    <3> QED BY <2>2, <3>1 DEF SetActiveScript, Live
  <2> QED BY <1>1, <2>1, <2>2
<1>2. CASE InitializeUserMailboxes
  <2>1. {"INBOX", "Sent"} \in SUBSET Boxes
    BY DEF Boxes
  <2> QED BY <1>2, <2>1, AcctUpdates DEF InitializeUserMailboxes, Live, InTyped
<1>3. CASE DeleteUser
  BY <1>3, NoAccountUpdates DEF DeleteUser
<1>4. CASE SendVacationResponse
  BY <1>4 DEF SendVacationResponse, NothingYet
<1>5. ASSUME NEW s \in Sessions, NEW kind \in KindsOf(s), NEW rcpts \in Envelopes, NEW ext \in BOOLEAN,
             Envelope(s, kind, rcpts, ext)
      PROVE  FALSE
  BY <1>5 DEF Envelope
<1>6. ASSUME NEW s \in Sessions, Deliver(s) \/ QueueExternal(s) \/ FinishInbound(s)
      PROVE  FALSE
  <2>1. acct.state = acct'.state
    <3>1. CASE GetMailbox(s) \/ CreateMailbox(s)
      BY <3>1, MailboxEffect
    <3>2. CASE RecordResponse(s)
      BY <3>2, RecordEffect, AcctUpdates DEF InTyped
    <3>3. CASE AppendMessage(s) \/ UpdateUsedBytes(s) \/ QueueExternal(s)
      BY <3>3, AppendEffect, CountEffect, ExternalEffect
    <3>4. CASE ResolveAlias(s) \/ SieveExecute(s) \/ ShouldRespond(s) \/ SieveOutcome(s) \/ FinishInbound(s)
      BY <3>4 DEF ResolveAlias, SieveExecute, ShouldRespond, SieveOutcome, FinishInbound
    <3> QED BY <1>6, <3>1, <3>2, <3>3, <3>4 DEF Deliver
  <2>2. sess[s].pc = "idle"
    BY <2>1 DEF NothingYet
  <2>3. sess[s].pc # "idle"
    BY <1>6 DEF Deliver, ResolveAlias, SieveExecute, ShouldRespond, RecordResponse, SieveOutcome, GetMailbox,
                CreateMailbox, AppendMessage, UpdateUsedBytes, QueueExternal, FinishInbound, At
  <2> QED BY <2>2, <2>3
<1>7. CASE UNCHANGED inboundVars
  BY <1>7 DEF inboundVars, NothingYet
<1> QED BY <1>1, <1>2, <1>3, <1>4, <1>5, <1>6, <1>7 DEF InboundNext

LEMMA QuotaStep == InTyped /\ InTyped' /\ NothingYet /\ QuotaInv /\ [InboundNext]_inboundVars => QuotaInv'
<1> SUFFICES ASSUME InTyped, InTyped', NothingYet, QuotaInv, [InboundNext]_inboundVars
             PROVE  QuotaInv'
  OBVIOUS
<1>t. /\ Quota \in Nat /\ IsFiniteSet(Sessions) /\ Cardinality(Sessions) \in Nat
      /\ mishaps \in Nat /\ mishaps' \in Nat /\ acct.used \in Nat /\ acct'.used \in Nat
  BY InboundAssumption, FS_CardinalityType DEF InTyped, AcctRecord
<1>s. /\ IsFiniteSet(stored) /\ Cardinality(stored) \in Nat /\ InFlight \in SUBSET Sessions /\ InFlight' \in SUBSET Sessions
  BY FS_CardinalityType DEF QuotaInv, InFlight
<1>f. /\ IsFiniteSet(InFlight) /\ Cardinality(InFlight) \in Nat
      /\ IsFiniteSet(InFlight') /\ Cardinality(InFlight') \in Nat /\ Cardinality(InFlight') <= Cardinality(Sessions)
  BY <1>s, <1>t, CountOf
(* A step that stores nothing and lets nobody in. *)
<1>q. ASSUME UNCHANGED stored, InFlight' \subseteq InFlight, mishaps' >= mishaps,
             acct'.state # "live" => acct'.boxes = {},
             acct'.state = "live" => Cardinality(stored) <= acct'.used + mishaps',
             \A s \in Sessions : sess'[s].pc = "append" => Quota = 0 \/ local'[s].used + 1 <= Quota
      PROVE  QuotaInv'
  <2>1. Cardinality(InFlight') <= Cardinality(InFlight)
    BY <1>q, <1>f, CountOf
  <2>2. Quota > 0 => Cardinality(stored) + Cardinality(InFlight) <= Quota + Cardinality(Sessions) - 1 + mishaps
    BY DEF QuotaInv
  <2>3. Quota > 0 => Cardinality(stored) + Cardinality(InFlight') <= Quota + Cardinality(Sessions) - 1 + mishaps'
    BY <1>q, <1>t, <1>s, <1>f, <2>1, <2>2
  <2> QED BY <1>q, <1>s, <2>3 DEF QuotaInv, Live, Fits
(* A step of one session; the account is what it was, or has counted more. *)
<1>o. ASSUME NEW s \in Sessions, OnlyHere(s), UNCHANGED stored, Counted,
             sess'[s].pc \in Reading => sess[s].pc \in Reading /\ local'[s].used = local[s].used,
             sess'[s].pc = "append" => Fits(s),
             acct'.state = acct.state /\ acct'.used >= acct.used, acct'.state # "live" => acct'.boxes = acct.boxes
      PROVE  QuotaInv'
  <2>1. InFlight' \subseteq InFlight
    BY <1>o DEF InFlight, OnlyHere
  <2>2. mishaps' >= mishaps
    BY <1>o, <1>t DEF Counted
  <2>3. acct'.state # "live" => acct'.boxes = {}
    BY <1>o DEF QuotaInv
  <2>4. acct'.state = "live" => Cardinality(stored) <= acct'.used + mishaps'
    <3>1. acct'.state = "live" => Cardinality(stored) <= acct.used + mishaps
      BY <1>o DEF QuotaInv, Live
    <3> QED BY <1>o, <1>t, <1>s, <2>2, <3>1
  <2>5. ASSUME NEW q \in Sessions, sess'[q].pc = "append"
        PROVE  Quota = 0 \/ local'[q].used + 1 <= Quota
    <3>1. CASE q = s
      BY <1>o, <2>5, <3>1 DEF Fits, Reading
    <3>2. CASE q # s
      BY <1>o, <2>5, <3>2 DEF OnlyHere, QuotaInv, Fits
    <3> QED BY <3>1, <3>2
  <2> QED BY <1>o, <1>q, <2>1, <2>2, <2>3, <2>4, <2>5
<1>e. ASSUME NEW s \in Sessions, NEW fate, SettledWith(s, fate)
      PROVE  OnlyHere(s) /\ sess'[s].pc \notin Reading /\ sess'[s].pc # "append"
  BY <1>e DEF SettledWith, Reading
<1>m. ASSUME NEW s \in Sessions, NEW pc, Moved(s, pc)
      PROVE  OnlyHere(s) /\ sess'[s].pc = pc
  BY <1>m DEF Moved
<1>1. ASSUME NEW s \in Sessions, ResolveAlias(s)
      PROVE  QuotaInv'
  <2>1. sess[s].pc = "alias" /\ UNCHANGED <<acct, stored>> /\ Counted
    BY <1>1, ResolveEffect
  <2>2. CASE SettledWith(s, "failed") \/ SettledWith(s, "queued")
    <3>1. OnlyHere(s) /\ sess'[s].pc \notin Reading /\ sess'[s].pc # "append"
      BY <1>e, <2>2
    <3> QED BY <1>o, <1>t, <2>1, <3>1
  (* Who reads a count below the quota while it is right adds one to the
     sessions in flight, which are not more than all of them. *)
  <2>3. CASE Live /\ UNCHANGED mishaps /\ Moved(s, "sieve") /\ local'[s].used = acct.used
    <3>1. OnlyHere(s) /\ sess'[s].pc = "sieve"
      BY <1>m, <2>3
    <3>2. Cardinality(stored) <= acct.used + mishaps
      BY <2>3 DEF QuotaInv
    <3>3. CASE acct.used + 1 <= Quota
      <4>1. Cardinality(stored) + Cardinality(InFlight') <= Quota + Cardinality(Sessions) - 1 + mishaps
        BY <1>t, <1>s, <1>f, <3>2, <3>3
      <4>2. \A q \in Sessions : sess'[q].pc = "append" => Quota = 0 \/ local'[q].used + 1 <= Quota
        BY <3>1 DEF OnlyHere, QuotaInv, Fits
      <4> QED BY <1>s, <2>1, <2>3, <3>2, <4>1, <4>2 DEF QuotaInv, Live, Fits
    <3>4. CASE ~(acct.used + 1 <= Quota)
      <4>1. InFlight' \subseteq InFlight
        BY <2>3, <3>1, <3>4 DEF InFlight, OnlyHere
      <4>2. \A q \in Sessions : sess'[q].pc = "append" => Quota = 0 \/ local'[q].used + 1 <= Quota
        BY <3>1 DEF OnlyHere, QuotaInv, Fits
      <4>3. mishaps' >= mishaps /\ acct'.state = "live"
        BY <1>t, <2>1, <2>3 DEF Live
      <4> QED BY <1>q, <2>1, <2>3, <3>2, <4>1, <4>2, <4>3
    <3> QED BY <3>3, <3>4
  <2> QED BY <1>1, <2>2, <2>3, ResolveEffect
<1>2. ASSUME NEW s \in Sessions, SieveExecute(s) \/ ShouldRespond(s)
      PROVE  QuotaInv'
  <2>1. /\ sess[s].pc \in Reading /\ UNCHANGED <<acct, stored>> /\ Counted /\ local'[s].used = local[s].used
        /\ Moved(s, "should") \/ Moved(s, "record") \/ Moved(s, "outcome") \/ Moved(s, "mailbox")
    BY <1>2, SieveEffect, ShouldEffect DEF KeptLocal, Reading
  <2>2. OnlyHere(s) /\ sess'[s].pc # "append"
    BY <1>m, <2>1
  <2> QED BY <1>o, <1>t, <2>1, <2>2
<1>3. ASSUME NEW s \in Sessions, RecordResponse(s)
      PROVE  QuotaInv'
  <2>1. /\ sess[s].pc \in Reading /\ UNCHANGED stored /\ Counted /\ local'[s].used = local[s].used /\ Moved(s, "outcome")
    BY <1>3, RecordEffect DEF Reading
  <2>2. OnlyHere(s) /\ sess'[s].pc # "append"
    BY <1>m, <2>1
  <2>3. acct'.state = acct.state /\ acct'.used = acct.used /\ acct'.boxes = acct.boxes
    BY <1>3, RecordEffect, AcctUpdates DEF InTyped
  <2> QED BY <1>o, <1>t, <2>1, <2>2, <2>3
<1>4. ASSUME NEW s \in Sessions, SieveOutcome(s)
      PROVE  QuotaInv'
  <2>1. sess[s].pc \in Reading /\ UNCHANGED <<acct, stored>> /\ Counted
    BY <1>4, OutcomeEffect DEF Reading
  <2>2. /\ OnlyHere(s) /\ sess'[s].pc # "append"
        /\ sess'[s].pc \in Reading => local'[s].used = local[s].used
    BY <1>4, <1>e, <1>m, OutcomeEffect DEF KeptLocal
  <2> QED BY <1>o, <1>t, <2>1, <2>2
<1>5. ASSUME NEW s \in Sessions, GetMailbox(s) \/ CreateMailbox(s)
      PROVE  QuotaInv'
  <2>1. /\ sess[s].pc \in Reading /\ UNCHANGED stored /\ Counted /\ acct'.state = acct.state /\ acct'.used = acct.used
        /\ ~Live => acct' = acct
    BY <1>5, MailboxEffect DEF Reading
  <2>2. /\ OnlyHere(s)
        /\ sess'[s].pc \in Reading => local'[s].used = local[s].used
        /\ sess'[s].pc = "append" => Fits(s)
    BY <1>5, <1>e, <1>m, MailboxEffect DEF KeptLocal
  <2> QED BY <1>o, <1>t, <2>1, <2>2 DEF Live
<1>6. ASSUME NEW s \in Sessions, AppendMessage(s)
      PROVE  QuotaInv'
  <2>1. /\ sess[s].pc = "append" /\ Counted /\ acct'.state = acct.state /\ acct'.boxes = acct.boxes
    BY <1>6, AppendEffect
  <2>2. CASE SettledWith(s, "failed") /\ UNCHANGED <<acct, stored>>
    <3>1. OnlyHere(s) /\ sess'[s].pc \notin Reading /\ sess'[s].pc # "append"
      BY <1>e, <2>2
    <3> QED BY <1>o, <1>t, <2>1, <2>2, <3>1
  <2>3. CASE /\ acct.boxes # {} /\ stored' = stored \union {<<s, Current(s)>>} /\ Moved(s, "count")
             /\ \/ mishaps' = mishaps /\ acct'.used = acct.used + 1
                \/ mishaps' = mishaps + 1 /\ acct'.used = acct.used
    <3>1. OnlyHere(s) /\ sess'[s].pc = "count" /\ acct.state = "live"
      BY <1>m, <2>3 DEF QuotaInv
    <3>2. /\ IsFiniteSet(stored') /\ Cardinality(stored') \in Nat /\ Cardinality(stored') <= Cardinality(stored) + 1
      BY <1>s, <2>3, CountOf
    <3>3. Cardinality(stored) <= acct.used + mishaps
      BY <3>1 DEF QuotaInv, Live
    <3>4. Cardinality(stored') <= acct'.used + mishaps'
      BY <1>t, <1>s, <2>3, <3>2, <3>3
    <3>5. \A q \in Sessions : sess'[q].pc = "append" => Quota = 0 \/ local'[q].used + 1 <= Quota
      BY <3>1 DEF OnlyHere, QuotaInv, Fits
    (* The session was in flight and is not any more. *)
    <3>6. ASSUME Quota > 0
          PROVE  Cardinality(stored') + Cardinality(InFlight') <= Quota + Cardinality(Sessions) - 1 + mishaps'
      <4>1. s \in InFlight
        BY <1>t, <2>1, <3>6 DEF QuotaInv, Fits, InFlight, Reading
      <4>2. InFlight' = InFlight \ {s}
        BY <3>1 DEF InFlight, OnlyHere, Reading
      <4>3. Cardinality(InFlight') = Cardinality(InFlight) - 1
        BY <1>f, <4>1, <4>2, CountOf
      <4>4. Cardinality(stored) + Cardinality(InFlight) <= Quota + Cardinality(Sessions) - 1 + mishaps
        BY <3>6 DEF QuotaInv
      <4>5. mishaps' >= mishaps
        BY <1>t, <2>3
      <4> QED BY <1>t, <1>s, <1>f, <3>2, <4>3, <4>4, <4>5
    <3> QED BY <2>1, <3>1, <3>2, <3>4, <3>5, <3>6 DEF QuotaInv, Live, Fits
  <2> QED BY <1>6, <2>2, <2>3, AppendEffect
<1>7. ASSUME NEW s \in Sessions, UpdateUsedBytes(s)
      PROVE  QuotaInv'
  <2>1. /\ UNCHANGED stored /\ Counted /\ acct'.state = acct.state /\ acct'.used >= acct.used
        /\ acct'.boxes = acct.boxes /\ OnlyHere(s) /\ sess'[s].pc \notin Reading /\ sess'[s].pc # "append"
    BY <1>7, <1>e, CountEffect
  <2> QED BY <1>o, <2>1
<1>8. ASSUME NEW s \in Sessions, QueueExternal(s) \/ FinishInbound(s)
      PROVE  QuotaInv'
  <2>1. /\ UNCHANGED stored /\ Counted /\ acct'.state = acct.state /\ acct'.used >= acct.used /\ acct'.boxes = acct.boxes
        /\ Reply(s, "250") \/ Reply(s, "451")
    <3>1. CASE QueueExternal(s)
      BY <3>1, ExternalEffect
    <3>2. CASE FinishInbound(s)
      BY <1>t, <3>2 DEF FinishInbound, Counted
    <3> QED BY <1>8, <3>1, <3>2
  <2>2. OnlyHere(s) /\ sess'[s].pc = "done"
    BY <2>1, ReplyLemma DEF OnlyHere, InTyped
  <2> QED BY <1>o, <2>1, <2>2 DEF Reading
<1>9. ASSUME NEW s \in Sessions, NEW kind \in KindsOf(s), NEW rcpts \in Envelopes, NEW ext \in BOOLEAN,
             Envelope(s, kind, rcpts, ext)
      PROVE  QuotaInv'
  <2>1. kind \in {"mx", "sub"}
    BY DEF KindsOf
  <2>2. UNCHANGED <<acct, stored, mishaps>> /\ OnlyHere(s) /\ sess'[s].pc \in {"alias", "external"}
    BY <1>9, <2>1, EnvelopeEffect
  <2>3. sess'[s].pc \notin Reading /\ sess'[s].pc # "append"
    BY <2>2 DEF Reading
  <2> QED BY <1>o, <1>t, <2>2, <2>3 DEF Counted
(* The administrator, and the goroutine that sends an answer. *)
<1>a. ASSUME UNCHANGED <<stored, sess, local>>, mishaps' >= mishaps,
             acct'.state # "live" => acct'.boxes = {},
             acct'.state = "live" => Cardinality(stored) <= acct'.used + mishaps'
      PROVE  QuotaInv'
  <2>1. InFlight' = InFlight
    BY <1>a DEF InFlight
  <2>2. \A s \in Sessions : sess'[s].pc = "append" => Quota = 0 \/ local'[s].used + 1 <= Quota
    BY <1>a DEF QuotaInv, Fits
  <2> QED BY <1>a, <1>q, <2>1, <2>2
<1>l. acct.state = "live" => Cardinality(stored) <= acct.used + mishaps
  BY DEF QuotaInv, Live
<1>10. ASSUME NEW script \in Scripts, CreateUser(script)
       PROVE  QuotaInv'
  <2>1. acct.state = "none" /\ UNCHANGED <<stored, sess, local, mishaps>> /\ acct'.state = "live" /\ acct'.used = 0
    BY <1>10, NoAccountUpdates DEF CreateUser
  <2>2. Cardinality(stored) = 0
    BY <2>1, FS_EmptySet DEF NothingYet
  <2> QED BY <1>a, <1>t, <2>1, <2>2
<1>11. ASSUME NEW script \in Scripts, SetActiveScript(script)
       PROVE  QuotaInv'
  <2>1. /\ UNCHANGED <<stored, sess, local>> /\ acct.state = "live" /\ acct'.state = "live" /\ acct'.used = acct.used
        /\ mishaps' = mishaps + 1
    BY <1>11, AcctUpdates DEF SetActiveScript, Live, InTyped, Fault
  <2> QED BY <1>a, <1>l, <1>t, <1>s, <2>1
<1>12. CASE InitializeUserMailboxes
  <2>1. {"INBOX", "Sent"} \in SUBSET Boxes
    BY DEF Boxes
  <2>2. /\ UNCHANGED <<stored, sess, local, mishaps>> /\ acct.state = "live" /\ acct'.state = "live"
        /\ acct'.used = acct.used
    BY <1>12, <2>1, AcctUpdates DEF InitializeUserMailboxes, Live, InTyped
  <2> QED BY <1>a, <1>l, <1>t, <2>2
<1>13. CASE DeleteUser
  <2>1. UNCHANGED <<stored, sess, local>> /\ acct'.state = "gone" /\ acct'.boxes = {} /\ mishaps' = mishaps + 1
    BY <1>13, NoAccountUpdates DEF DeleteUser, Fault
  <2> QED BY <1>a, <1>t, <2>1
<1>14. CASE SendVacationResponse \/ UNCHANGED inboundVars
  <2>1. UNCHANGED <<acct, stored, sess, local>> /\ mishaps' >= mishaps
    BY <1>14, <1>t DEF SendVacationResponse, NoFault, Fault, inboundVars
  <2>2. acct.state # "live" => acct.boxes = {}
    BY DEF QuotaInv
  <2> QED BY <1>a, <1>l, <1>t, <1>s, <2>1, <2>2
<1> QED BY <1>1, <1>2, <1>3, <1>4, <1>5, <1>6, <1>7, <1>8, <1>9, <1>10, <1>11, <1>12, <1>13, <1>14
        DEF InboundNext, Deliver

(* Parallel deliveries overrun the quota by at most a message for each other
   session and each count that failed, whatever the number of sessions and the
   quota.                                                                    *)
THEOREM QuotaHolds == InboundSpec => []QuotaOverrunBounded
<1>1. InTyped /\ QuotaInv => QuotaOverrunBounded
  <2> SUFFICES ASSUME InTyped, QuotaInv, Quota > 0
               PROVE  Cardinality(stored) <= Quota + Cardinality(Sessions) - 1 + mishaps
    BY DEF QuotaOverrunBounded
  <2>1. InFlight \in SUBSET Sessions /\ IsFiniteSet(Sessions) /\ IsFiniteSet(stored)
    BY InboundAssumption DEF InFlight, QuotaInv
  <2>2. Cardinality(InFlight) \in Nat /\ Cardinality(Sessions) \in Nat /\ Cardinality(stored) \in Nat
    BY <2>1, CountOf
  <2>3. Quota \in Nat /\ mishaps \in Nat
    BY InboundAssumption DEF InTyped
  <2>4. Cardinality(stored) + Cardinality(InFlight) <= Quota + Cardinality(Sessions) - 1 + mishaps
    BY DEF QuotaInv
  <2> QED BY <2>2, <2>3, <2>4
<1> QED BY <1>1, TypedInit, TypedStep, QuotaInit, NothingStep, QuotaStep, PTL DEF InboundSpec

-----------------------------------------------------------------------------
(* The vacation answers. *)

Early == {"idle", "alias", "sieve", "should", "record"}

LEMMA VacationInit == InboundInit => VacationInv
<1> SUFFICES ASSUME InboundInit PROVE VacationInv
  OBVIOUS
<1>1. /\ acct.state = "none" /\ answers.queued = 0 /\ answers.pending = 0
      /\ \A s \in Sessions : sess[s].pc = "idle" /\ local[s] = NoLocal
  BY DEF InboundInit, NoAccount, NoSession
<1>2. \A s \in Sessions : local[s].answer = FALSE
  BY <1>1, NoLocalType
<1>3. Owing = {} /\ Cardinality(Owing) = 0
  BY <1>1, FS_EmptySet DEF Owing
<1>4. Cardinality(Sessions) \in Nat
  BY InboundAssumption, FS_CardinalityType
<1> QED BY <1>1, <1>2, <1>3, <1>4 DEF VacationInv, Live

LEMMA VacationStep == InTyped /\ InTyped' /\ NothingYet /\ VacationInv /\ [InboundNext]_inboundVars => VacationInv'
<1> SUFFICES ASSUME InTyped, InTyped', NothingYet, VacationInv, [InboundNext]_inboundVars
             PROVE  VacationInv'
  OBVIOUS
<1> DEFINE Sent == answers.queued + answers.pending
           N == Cardinality(Sessions)
<1>t. /\ IsFiniteSet(Sessions) /\ N \in Nat
      /\ answers.queued \in Nat /\ answers.pending \in Nat /\ answers'.queued \in Nat /\ answers'.pending \in Nat
      /\ acct.answered \in BOOLEAN /\ acct'.answered \in BOOLEAN
  BY InboundAssumption, FS_CardinalityType DEF InTyped, AcctRecord
<1>s. /\ Owing \in SUBSET Sessions /\ Owing' \in SUBSET Sessions
      /\ Recording \in SUBSET Sessions /\ Recording' \in SUBSET Sessions
  BY DEF Owing, Recording
<1>f. /\ IsFiniteSet(Owing) /\ IsFiniteSet(Owing') /\ IsFiniteSet(Recording) /\ IsFiniteSet(Recording')
      /\ Cardinality(Owing) \in Nat /\ Cardinality(Owing') \in Nat
      /\ Cardinality(Recording) \in Nat /\ Cardinality(Recording') \in Nat /\ Cardinality(Recording') <= N
  BY <1>s, <1>t, CountOf
<1>v. /\ \A s \in Sessions : sess[s].pc \in Early => local[s].answer = FALSE
      /\ acct.state = "live" /\ acct.answered = FALSE => answers.queued = 0 /\ answers.pending = 0 /\ Owing = {}
      /\ Sent + Cardinality(Owing) <= N
      /\ acct.state = "live" => Sent + Cardinality(Owing) + Cardinality(Recording) <= N
  BY DEF VacationInv, Live, Early
<1>w. ASSUME \A s \in Sessions : sess'[s].pc \in Early => local'[s].answer = FALSE,
             acct'.state = "live" /\ acct'.answered = FALSE
               => answers'.queued = 0 /\ answers'.pending = 0 /\ Owing' = {},
             Sent' + Cardinality(Owing') <= N,
             acct'.state = "live" => Sent' + Cardinality(Owing') + Cardinality(Recording') <= N
      PROVE  VacationInv'
  BY <1>w DEF VacationInv, Live, Early
(* A step after which no session owes or finds more than before. *)
<1>q. ASSUME \A s \in Sessions : sess'[s].pc \in Early => local'[s].answer = FALSE,
             UNCHANGED answers, Owing' \subseteq Owing, Recording' \subseteq Recording,
             acct'.state = "live" => acct.state = "live" /\ acct'.answered = acct.answered
      PROVE  VacationInv'
  <2>1. Cardinality(Owing') <= Cardinality(Owing) /\ Cardinality(Recording') <= Cardinality(Recording)
    BY <1>q, <1>f, CountOf
  <2>2. Sent' = Sent /\ Sent \in Nat
    BY <1>q, <1>t
  <2> HIDE DEF Sent, N
  <2>3. Sent' + Cardinality(Owing') <= N
    BY <1>t, <1>f, <1>v, <2>1, <2>2
  <2>4. acct'.state = "live" => Sent' + Cardinality(Owing') + Cardinality(Recording') <= N
    BY <1>q, <1>t, <1>f, <1>v, <2>1, <2>2
  <2>5. acct'.state = "live" /\ acct'.answered = FALSE => answers'.queued = 0 /\ answers'.pending = 0 /\ Owing' = {}
    BY <1>q, <1>v
  <2> QED BY <1>q, <1>w, <2>3, <2>4, <2>5
(* A step of one session that makes it owe nothing and find nothing. *)
<1>o. ASSUME NEW s \in Sessions, OnlyHere(s), UNCHANGED answers,
             sess'[s].pc # "record", sess'[s].pc \in Early \union {"outcome"} => local'[s].answer = FALSE,
             acct'.state = acct.state /\ acct'.answered = acct.answered
      PROVE  VacationInv'
  <2>1. Owing' \subseteq Owing /\ Recording' \subseteq Recording
    BY <1>o DEF Owing, Recording, OnlyHere
  <2>2. \A q \in Sessions : sess'[q].pc \in Early => local'[q].answer = FALSE
    BY <1>o, <1>v DEF OnlyHere
  <2> QED BY <1>o, <1>q, <2>1, <2>2
<1>e. ASSUME NEW s \in Sessions, NEW fate, SettledWith(s, fate)
      PROVE  OnlyHere(s) /\ sess'[s].pc # "record" /\ local'[s].answer = FALSE
  BY <1>e, NoLocalType DEF SettledWith
<1>m. ASSUME NEW s \in Sessions, NEW pc, Moved(s, pc)
      PROVE  OnlyHere(s) /\ sess'[s].pc = pc
  BY <1>m DEF Moved
<1>1. ASSUME NEW s \in Sessions, ResolveAlias(s)
      PROVE  VacationInv'
  <2>1. sess[s].pc = "alias" /\ UNCHANGED <<acct, answers>>
    BY <1>1, ResolveEffect
  <2>2. local[s].answer = FALSE
    BY <1>v, <2>1 DEF Early
  <2>3. OnlyHere(s) /\ sess'[s].pc # "record" /\ local'[s].answer = FALSE
    <3>1. CASE SettledWith(s, "failed") \/ SettledWith(s, "queued")
      BY <1>e, <3>1
    <3>2. CASE Moved(s, "sieve") /\ local'[s].answer = local[s].answer
      BY <1>m, <2>2, <3>2
    <3> QED BY <1>1, <3>1, <3>2, ResolveEffect
  <2> QED BY <1>o, <2>1, <2>3
<1>2. ASSUME NEW s \in Sessions, SieveExecute(s)
      PROVE  VacationInv'
  <2>1. sess[s].pc = "sieve" /\ UNCHANGED <<acct, answers>> /\ local'[s].answer = local[s].answer
    BY <1>2, SieveEffect DEF KeptLocal
  <2>2. local'[s].answer = FALSE
    BY <1>v, <2>1 DEF Early
  <2>3. OnlyHere(s) /\ sess'[s].pc # "record"
    BY <1>2, <1>m, SieveEffect
  <2> QED BY <1>o, <2>1, <2>2, <2>3
(* Who finds no answer recorded finds none sent and none owed either. *)
<1>3. ASSUME NEW s \in Sessions, ShouldRespond(s)
      PROVE  VacationInv'
  <2>1. sess[s].pc = "should" /\ UNCHANGED <<acct, answers, local>>
    BY <1>3, ShouldEffect
  <2>2. local'[s].answer = FALSE
    BY <1>v, <2>1 DEF Early
  <2>3. CASE Moved(s, "outcome")
    <3>1. OnlyHere(s) /\ sess'[s].pc # "record"
      BY <1>m, <2>3
    <3> QED BY <1>o, <2>1, <2>2, <3>1
  <2>4. CASE acct.answered = FALSE /\ Moved(s, "record")
    <3>1. OnlyHere(s) /\ sess'[s].pc = "record"
      BY <1>m, <2>4
    <3>2. Owing' = Owing
      BY <2>1, <3>1 DEF Owing, OnlyHere
    <3>3. \A q \in Sessions : sess'[q].pc \in Early => local'[q].answer = FALSE
      BY <1>v, <2>2, <3>1 DEF OnlyHere
    <3>4. ASSUME acct.state = "live"
          PROVE  Sent' + Cardinality(Owing') + Cardinality(Recording') <= N
      <4>1. answers'.queued = 0 /\ answers'.pending = 0 /\ Owing' = {}
        BY <1>v, <2>1, <2>4, <3>2, <3>4
      <4>2. Cardinality(Owing') = 0
        BY <4>1, FS_EmptySet
      <4> QED BY <1>t, <1>f, <4>1, <4>2
    <3>5. Sent' + Cardinality(Owing') <= N
      BY <1>v, <2>1, <3>2
    <3> QED BY <1>v, <1>w, <2>1, <3>2, <3>3, <3>4, <3>5
  <2> QED BY <1>3, <2>3, <2>4, ShouldEffect
(* Who records an answer owes it. *)
<1>4. ASSUME NEW s \in Sessions, RecordResponse(s)
      PROVE  VacationInv'
  <2>1. sess[s].pc = "record" /\ UNCHANGED answers /\ OnlyHere(s) /\ sess'[s].pc = "outcome"
    BY <1>4, <1>m, RecordEffect
  <2>2. local[s].answer = FALSE
    BY <1>v, <2>1 DEF Early
  <2>3. CASE UNCHANGED <<acct, local>>
    BY <1>o, <2>1, <2>2, <2>3
  <2>4. CASE Live /\ acct' = [acct EXCEPT !.answered = TRUE] /\ local'[s].answer = TRUE
    <3>1. acct'.answered = TRUE /\ acct.state = "live"
      BY <2>4, AcctUpdates DEF InTyped, Live
    <3>2. \A q \in Sessions : sess'[q].pc \in Early => local'[q].answer = FALSE
      BY <1>v, <2>1 DEF OnlyHere, Early
    <3>3. Owing' \subseteq Owing \union {s}
      BY <2>1 DEF Owing, OnlyHere
    <3>4. Recording' = Recording \ {s} /\ s \in Recording
      BY <2>1 DEF Recording, OnlyHere
    <3>5. Cardinality(Recording') = Cardinality(Recording) - 1
      BY <1>f, <3>4, CountOf
    <3>6. Cardinality(Owing') <= Cardinality(Owing) + 1
      <4>1. /\ IsFiniteSet(Owing \union {s}) /\ Cardinality(Owing \union {s}) \in Nat
            /\ Cardinality(Owing \union {s}) <= Cardinality(Owing) + 1
        BY <1>f, CountOf
      <4>2. Cardinality(Owing') <= Cardinality(Owing \union {s})
        BY <3>3, <4>1, CountOf
      <4> QED BY <1>f, <4>1, <4>2
    <3>7. Sent' = Sent /\ Sent \in Nat
      BY <1>t, <2>1
    <3>8. Sent' + Cardinality(Owing') + Cardinality(Recording') <= N
      <4> HIDE DEF Sent, N
      <4>1. Sent + Cardinality(Owing) + Cardinality(Recording) <= N
        BY <1>v, <3>1
      <4> QED BY <1>t, <1>f, <3>5, <3>6, <3>7, <4>1
    <3>9. Sent' + Cardinality(Owing') <= N
      <4> HIDE DEF Sent, N
      <4> QED BY <1>t, <1>f, <3>7, <3>8
    <3> QED BY <1>w, <3>1, <3>2, <3>8, <3>9
  <2> QED BY <1>4, <2>3, <2>4, RecordEffect
(* An answer that is owed is handed to its goroutine, or dropped. *)
<1>5. ASSUME NEW s \in Sessions, SieveOutcome(s)
      PROVE  VacationInv'
  <2>1. sess[s].pc = "outcome" /\ UNCHANGED acct
    BY <1>5, OutcomeEffect
  <2>2. ASSUME UNCHANGED answers, NEW fate, SettledWith(s, fate)
        PROVE  VacationInv'
    <3>1. OnlyHere(s) /\ sess'[s].pc # "record" /\ local'[s].answer = FALSE
      BY <1>e, <2>2
    <3> QED BY <1>o, <2>1, <2>2, <3>1
  <2>3. CASE Moved(s, "mailbox") /\ KeptLocal(s) /\ answers'.queued = answers.queued /\ HandedOver(s)
    <3>1. OnlyHere(s) /\ sess'[s].pc = "mailbox"
      BY <1>m, <2>3
    <3>2. \A q \in Sessions : sess'[q].pc \in Early => local'[q].answer = FALSE
      BY <1>v, <3>1 DEF OnlyHere, Early
    <3>3. Recording' = Recording /\ Owing' = Owing \ {s}
      BY <2>1, <3>1 DEF Recording, Owing, OnlyHere
    <3>4. CASE local[s].answer = TRUE
      <4>1. s \in Owing
        BY <2>1, <3>4 DEF Owing
      <4>2. Cardinality(Owing') = Cardinality(Owing) - 1
        BY <1>f, <3>3, <4>1, CountOf
      <4>3. answers'.queued = answers.queued /\ answers'.pending = answers.pending + 1
        BY <2>3, <3>4 DEF HandedOver
      <4>4. Sent' + Cardinality(Owing') = Sent + Cardinality(Owing) /\ Sent \in Nat /\ Sent' \in Nat
        BY <1>t, <1>f, <4>2, <4>3
      <4>5. ~(acct.state = "live" /\ acct.answered = FALSE)
        BY <1>v, <4>1
      <4> HIDE DEF Sent, N
      <4>6. acct'.state = "live" => Sent' + Cardinality(Owing') + Cardinality(Recording') <= N
        BY <1>v, <2>1, <3>3, <4>4
      <4> QED BY <1>v, <1>w, <2>1, <3>2, <4>4, <4>5, <4>6
    <3>5. CASE local[s].answer # TRUE
      <4>1. answers'.queued = answers.queued /\ answers'.pending = answers.pending
        BY <2>3, <3>5 DEF HandedOver
      <4>2. Owing' = Owing
        BY <3>3, <3>5 DEF Owing
      <4>3. Sent' = Sent
        BY <4>1
      <4> QED BY <1>v, <1>w, <2>1, <3>2, <3>3, <4>1, <4>2, <4>3
    <3> QED BY <3>4, <3>5
  <2>4. CASE UNCHANGED <<outbound, answers>>
             /\ (SettledWith(s, "discarded") \/ SettledWith(s, "failed") \/ SettledWith(s, "lost"))
    BY <2>2, <2>4
  <2>5. CASE Copied(s) /\ UNCHANGED answers /\ SettledWith(s, "queued")
    BY <2>2, <2>5
  <2> QED BY <1>5, <2>3, <2>4, <2>5, OutcomeEffect
<1>6. ASSUME NEW s \in Sessions, GetMailbox(s) \/ CreateMailbox(s)
      PROVE  VacationInv'
  <2>1. UNCHANGED answers /\ acct'.state = acct.state /\ acct'.answered = acct.answered
    BY <1>6, MailboxEffect
  <2>2. CASE SettledWith(s, "failed")
    BY <1>e, <1>o, <2>1, <2>2
  <2>3. CASE Moved(s, "create") \/ Moved(s, "append")
    <3>1. OnlyHere(s) /\ sess'[s].pc \in {"create", "append"}
      BY <1>m, <2>3
    <3> QED BY <1>o, <2>1, <3>1 DEF Early
  <2> QED BY <1>6, <2>2, <2>3, MailboxEffect
<1>7. ASSUME NEW s \in Sessions, AppendMessage(s) \/ UpdateUsedBytes(s)
      PROVE  VacationInv'
  <2>1. UNCHANGED answers /\ acct'.state = acct.state /\ acct'.answered = acct.answered
    BY <1>7, AppendEffect, CountEffect
  <2>2. CASE SettledWith(s, "failed") \/ SettledWith(s, "stored")
    BY <1>e, <1>o, <2>1, <2>2
  <2>3. CASE Moved(s, "count")
    <3>1. OnlyHere(s) /\ sess'[s].pc = "count"
      BY <1>m, <2>3
    <3> QED BY <1>o, <2>1, <3>1 DEF Early
  <2> QED BY <1>7, <2>2, <2>3, AppendEffect, CountEffect
<1>8. ASSUME NEW s \in Sessions, QueueExternal(s) \/ FinishInbound(s)
      PROVE  VacationInv'
  <2>1. /\ UNCHANGED answers /\ acct'.state = acct.state /\ acct'.answered = acct.answered
        /\ Reply(s, "250") \/ Reply(s, "451")
    <3>1. CASE QueueExternal(s)
      BY <3>1, ExternalEffect
    <3>2. CASE FinishInbound(s)
      BY <3>2 DEF FinishInbound
    <3> QED BY <1>8, <3>1, <3>2
  <2>2. OnlyHere(s) /\ sess'[s].pc = "done"
    BY <2>1, ReplyLemma DEF OnlyHere, InTyped
  <2> QED BY <1>o, <2>1, <2>2 DEF Early
<1>9. ASSUME NEW s \in Sessions, NEW kind \in KindsOf(s), NEW rcpts \in Envelopes, NEW ext \in BOOLEAN,
             Envelope(s, kind, rcpts, ext)
      PROVE  VacationInv'
  <2>1. kind \in {"mx", "sub"}
    BY DEF KindsOf
  <2>2. /\ UNCHANGED <<acct, answers, local>> /\ OnlyHere(s) /\ sess[s].pc = "idle"
        /\ sess'[s].pc \in {"alias", "external"}
    BY <1>9, <2>1, EnvelopeEffect
  <2>3. local'[s].answer = FALSE /\ sess'[s].pc # "record"
    BY <1>v, <2>2 DEF Early
  <2> QED BY <1>o, <2>2, <2>3
(* The administrator: an account is created once, so no answer of an earlier
   one is forgotten. *)
<1>a. ASSUME UNCHANGED <<sess, local>>
      PROVE  /\ Owing' = Owing /\ Recording' = Recording
             /\ \A s \in Sessions : sess'[s].pc \in Early => local'[s].answer = FALSE
  BY <1>a, <1>v DEF Owing, Recording
<1>10. ASSUME NEW script \in Scripts, CreateUser(script)
       PROVE  VacationInv'
  <2>1. acct.state = "none" /\ UNCHANGED <<answers, sess, local>>
    BY <1>10 DEF CreateUser
  <2>2. answers.queued = 0 /\ answers.pending = 0 /\ Owing = {} /\ Recording = {}
    BY <2>1 DEF NothingYet, Owing, Recording
  <2>3. Cardinality(Owing') = 0 /\ Cardinality(Recording') = 0 /\ Owing' = {}
    BY <1>a, <2>1, <2>2, FS_EmptySet
  <2>4. answers'.queued = 0 /\ answers'.pending = 0
    BY <2>1, <2>2
  <2>5. Sent' + Cardinality(Owing') <= N /\ Sent' + Cardinality(Owing') + Cardinality(Recording') <= N
    BY <1>t, <2>3, <2>4
  <2> QED BY <1>a, <1>w, <2>1, <2>3, <2>4, <2>5
<1>11. ASSUME NEW script \in Scripts, SetActiveScript(script)
       PROVE  VacationInv'
  <2>1. UNCHANGED <<answers, sess, local>> /\ acct'.state = acct.state /\ acct'.answered = acct.answered
    BY <1>11, AcctUpdates DEF SetActiveScript, InTyped
  <2> QED BY <1>a, <1>q, <2>1
<1>12. CASE InitializeUserMailboxes
  <2>1. {"INBOX", "Sent"} \in SUBSET Boxes
    BY DEF Boxes
  <2>2. UNCHANGED <<answers, sess, local>> /\ acct'.state = acct.state /\ acct'.answered = acct.answered
    BY <1>12, <2>1, AcctUpdates DEF InitializeUserMailboxes, InTyped
  <2> QED BY <1>a, <1>q, <2>2
<1>13. CASE DeleteUser
  <2>1. UNCHANGED <<answers, sess, local>> /\ acct'.state = "gone"
    BY <1>13, NoAccountUpdates DEF DeleteUser
  <2> QED BY <1>a, <1>q, <2>1
<1>14. CASE SendVacationResponse
  <2>1. /\ UNCHANGED <<acct, sess, local>> /\ answers.pending > 0
        /\ Sent' <= Sent /\ Sent \in Nat /\ Sent' \in Nat
    BY <1>14, <1>t DEF SendVacationResponse, InTyped
  <2>2. ~(acct.state = "live" /\ acct.answered = FALSE)
    BY <1>v, <2>1
  <2> HIDE DEF Sent, N
  <2>3. Sent' + Cardinality(Owing') <= N
    BY <1>a, <1>t, <1>f, <1>v, <2>1
  <2>4. acct'.state = "live" => Sent' + Cardinality(Owing') + Cardinality(Recording') <= N
    BY <1>a, <1>t, <1>f, <1>v, <2>1
  <2> QED BY <1>a, <1>w, <2>1, <2>2, <2>3, <2>4
<1>15. CASE UNCHANGED inboundVars
  BY <1>15, <1>a, <1>q DEF inboundVars
<1> QED BY <1>1, <1>2, <1>3, <1>4, <1>5, <1>6, <1>7, <1>8, <1>9, <1>10, <1>11, <1>12, <1>13, <1>14, <1>15
        DEF InboundNext, Deliver

(* However ShouldRespond and RecordResponse of parallel sessions interleave,
   and whenever the account is deleted, a sender gets at most an answer per
   session, whatever their number.                                          *)
THEOREM VacationsLimited == InboundSpec => []VacationBounded
<1>1. InTyped /\ VacationInv => VacationBounded
  <2> SUFFICES ASSUME InTyped, VacationInv
               PROVE  answers.queued + answers.pending <= Cardinality(Sessions)
    BY DEF VacationBounded
  <2>1. Owing \in SUBSET Sessions /\ IsFiniteSet(Sessions)
    BY InboundAssumption DEF Owing
  <2>2. Cardinality(Owing) \in Nat /\ Cardinality(Sessions) \in Nat
    BY <2>1, CountOf
  <2>3. answers.queued \in Nat /\ answers.pending \in Nat
    BY DEF InTyped
  <2>4. answers.queued + answers.pending + Cardinality(Owing) <= Cardinality(Sessions)
    BY DEF VacationInv
  <2> QED BY <2>2, <2>3, <2>4
<1> QED BY <1>1, TypedInit, TypedStep, QuotaInit, NothingStep, VacationInit, VacationStep, PTL DEF InboundSpec
=============================================================================
