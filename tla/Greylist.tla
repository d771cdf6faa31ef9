------------------------------- MODULE Greylist -------------------------------
(***************************************************************************)
(* Greylisting (internal/greylist) of one triplet of network, sender and   *)
(* recipient, as Session.Rcpt uses it: sessions that look the triplet up   *)
(* and write it in separate statements, the hourly clean-up between them,  *)
(* and a sending server that tries again and again.  Times are ages in     *)
(* ticks, capped where they no longer make a difference.                   *)
(***************************************************************************)
EXTENDS Integers, FiniteSetsExt

CONSTANTS
  GreySessions,  \* SMTP sessions that may carry a recipient of the triplet
  MinDelay,      \* minDelay
  MaxRowAge,     \* maxAge
  RetryEvery,    \* the sending server tries at least this often
  MaxGreyFaults  \* bound on statements that fail

(* A first retry comes before the row is cleaned up (5 minutes, 35 days). *)
ASSUME GreyAssumption ==
  /\ {MinDelay, MaxRowAge, RetryEvery} \subseteq Nat \ {0} /\ MaxGreyFaults \in Nat
  /\ MinDelay + RetryEvery <= MaxRowAge

VARIABLES
  greyRow,    \* the triplet's row: exists, passed, ages of first_seen and last_seen
  greyPc,     \* session -> where its Check is
  greyAnswer, \* the last answer to a recipient, and when the triplet was first deferred
  greyWait,   \* ticks since the last attempt
  greyFaults
greyVars == <<greyRow, greyPc, greyAnswer, greyWait, greyFaults>>

NoGreyRow == [exists |-> FALSE, passed |-> FALSE, first |-> 0, last |-> 0]
(* A first_seen written in another time zone than it is read in. *)
NewGreyRowAhead == [NoGreyRow EXCEPT !.exists = TRUE, !.first = -1]
NewGreyRow == [exists |-> TRUE, passed |-> FALSE, first |-> 0, last |-> 0]
Older(age) == Min({age + 1, MaxRowAge + 1})

GreyInit ==
  /\ greyRow = NoGreyRow
  /\ greyPc = [g \in GreySessions |-> "idle"]
  /\ greyAnswer = [kind |-> "none", deferred |-> -1]
  /\ greyWait = 0 /\ greyFaults = 0

(* Rcpt's answer: 451 when Check says so; an error lets the recipient pass. *)
RcptAnswer(g, kind) ==
  /\ greyPc' = [greyPc EXCEPT ![g] = "idle"]
  /\ greyAnswer' = [kind |-> kind,
                    deferred |-> IF kind = "deferred" /\ greyAnswer.deferred < 0
                                   THEN 0 ELSE greyAnswer.deferred]

GreyGoto(g, pc) == greyPc' = [greyPc EXCEPT ![g] = pc] /\ UNCHANGED greyAnswer

FailsOpen(g) ==
  /\ greyFaults < MaxGreyFaults /\ greyFaults' = greyFaults + 1
  /\ RcptAnswer(g, "unchecked")
  /\ UNCHANGED greyRow

-----------------------------------------------------------------------------
(* A first_seen that starts anew with every early attempt. *)
CheckRestarting(g) ==
  /\ greyPc[g] = "idle"
  /\ greyWait' = 0
  /\ \/ ~greyRow.exists /\ GreyGoto(g, "insert") /\ UNCHANGED greyRow
     \/ greyRow.exists /\ greyRow.passed /\ GreyGoto(g, "touch") /\ UNCHANGED greyRow
     \/ /\ greyRow.exists /\ ~greyRow.passed /\ greyRow.first >= MinDelay
        /\ GreyGoto(g, "pass") /\ UNCHANGED greyRow
     \/ /\ greyRow.exists /\ ~greyRow.passed /\ greyRow.first < MinDelay
        /\ RcptAnswer(g, "deferred") /\ greyRow' = NewGreyRow
  /\ UNCHANGED greyFaults

(* Check, the SELECT: no row, a row that has passed, one whose delay is over,
   one whose delay is not.                                                   *)
Check(g) ==
  /\ greyPc[g] = "idle"
  /\ greyWait' = 0
  /\ \/ /\ \/ ~greyRow.exists /\ GreyGoto(g, "insert")
           \/ greyRow.exists /\ greyRow.passed /\ GreyGoto(g, "touch")
           \/ /\ greyRow.exists /\ ~greyRow.passed /\ greyRow.first >= MinDelay
              /\ GreyGoto(g, "pass")
           \/ /\ greyRow.exists /\ ~greyRow.passed /\ greyRow.first < MinDelay
              /\ RcptAnswer(g, "deferred")
        /\ UNCHANGED <<greyRow, greyFaults>>
     \/ FailsOpen(g)

(* The row that came in the meantime counts as a retry. *)
InsertRowAllows(g) ==
  /\ greyPc[g] = "insert"
  /\ greyRow' = IF greyRow.exists THEN [greyRow EXCEPT !.passed = TRUE] ELSE NewGreyRow
  /\ RcptAnswer(g, IF greyRow.exists THEN "allowed" ELSE "deferred")
  /\ UNCHANGED <<greyWait, greyFaults>>

(* INSERT OR IGNORE: a row that came in the meantime stays as it is. *)
InsertRow(g) ==
  /\ greyPc[g] = "insert"
  /\ \/ /\ greyRow' = IF greyRow.exists THEN greyRow ELSE NewGreyRow
        /\ RcptAnswer(g, "deferred")
        /\ UNCHANGED greyFaults
     \/ FailsOpen(g)
  /\ UNCHANGED greyWait

(* The UPDATEs of a row that may have been cleaned up meanwhile; an error of the
   first is ignored.                                                         *)
TouchRow(g) ==
  /\ greyPc[g] = "touch"
  /\ \/ greyRow' = [greyRow EXCEPT !.last = 0] /\ UNCHANGED greyFaults
     \/ /\ greyFaults < MaxGreyFaults /\ greyFaults' = greyFaults + 1
        /\ UNCHANGED greyRow
  /\ RcptAnswer(g, "allowed")
  /\ UNCHANGED greyWait

PassRow(g) ==
  /\ greyPc[g] = "pass"
  /\ \/ /\ greyRow' = IF greyRow.exists
                       THEN [exists |-> TRUE, passed |-> TRUE, first |-> greyRow.first, last |-> 0]
                       ELSE greyRow
        /\ RcptAnswer(g, "allowed")
        /\ UNCHANGED greyFaults
     \/ FailsOpen(g)
  /\ UNCHANGED greyWait

(* Cleanup: rows that have not passed by first_seen, others by last_seen. *)
CleanupRows ==
  /\ greyRow.exists
  /\ \/ ~greyRow.passed /\ greyRow.first > MaxRowAge
     \/ greyRow.passed /\ greyRow.last > MaxRowAge
  /\ greyRow' = NoGreyRow
  /\ UNCHANGED <<greyPc, greyAnswer, greyWait, greyFaults>>

(* A tick passes; Check's statements take less than that, and the sending server
   does not let more than RetryEvery go by without an attempt.               *)
GreyTick ==
  /\ \A g \in GreySessions : greyPc[g] = "idle"
  /\ greyWait < RetryEvery /\ greyWait' = greyWait + 1
  /\ greyRow' = IF greyRow.exists
                  THEN [greyRow EXCEPT !.first = Older(@), !.last = Older(@)] ELSE greyRow
  /\ greyAnswer' = [greyAnswer EXCEPT !.deferred = IF @ < 0 THEN @ ELSE Older(@)]
  /\ UNCHANGED <<greyPc, greyFaults>>

CheckStep(g) == InsertRow(g) \/ TouchRow(g) \/ PassRow(g)

GreyNext ==
  \/ \E g \in GreySessions : Check(g) \/ CheckStep(g)
  \/ CleanupRows \/ GreyTick

GreySpec == GreyInit /\ [][GreyNext]_greyVars

-----------------------------------------------------------------------------
(* Properties.                                                               *)

GreyTypeOK ==
  /\ greyRow \in [exists : BOOLEAN, passed : BOOLEAN, first : 0..(MaxRowAge + 1), last : 0..(MaxRowAge + 1)]
  /\ greyPc \in [GreySessions -> {"idle", "insert", "touch", "pass"}]
  /\ greyAnswer.kind \in {"none", "deferred", "allowed", "unchecked"}
  /\ greyAnswer.deferred \in -1..(MaxRowAge + 1)
  /\ greyWait \in 0..RetryEvery /\ greyFaults \in 0..MaxGreyFaults

(* Check lets a recipient pass only if the triplet was deferred MinDelay or more
   before, however the lookups, inserts, updates and clean-ups of several
   sessions interleave.                                                      *)
AllowedAfterDelay == greyAnswer.kind = "allowed" => greyAnswer.deferred >= MinDelay

(* A sending server that keeps trying gets through: no sequence of retries,
   parallel sessions, failed statements and clean-ups defers it for ever.    *)
RetryingIsAllowed ==
  greyAnswer.kind = "deferred" ~> greyAnswer.kind \in {"allowed", "unchecked"}
=============================================================================
