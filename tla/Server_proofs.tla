---------------------------- MODULE Server_proofs ----------------------------
(***************************************************************************)
(* Safety of the services around the queue and the mailbox store, for any  *)
(* number of sessions, requests and resolvers and any of their limits: the *)
(* freshness of MX records, greylisting, the login to the administration   *)
(* server, the life of the process with its migrations, and what clients   *)
(* are told: IMAP sessions that watch a mailbox, and a CalDAV or CardDAV   *)
(* client that keeps itself in step by the ctag.                           *)
(***************************************************************************)
EXTENDS MxCache, Greylist, AdminLogin, Lifecycle, ImapView, DavStore, FiniteSetTheorems, TLAPS

(* Min, of which CHOOSE says nothing to the provers, on the sets it is used on. *)
LEMMA MinOfTwo ==
  ASSUME NEW a \in Int, NEW b \in Int
  PROVE  Min({a, b}) = IF a <= b THEN a ELSE b
<1> DEFINE S == {a, b}
           m == IF a <= b THEN a ELSE b
<1>1. m \in S /\ \A y \in S : m <= y
  OBVIOUS
<1>2. \A x \in S : (\A y \in S : x <= y) => x = m
  BY <1>1
<1>3. Min(S) \in S /\ \A y \in S : Min(S) <= y
  <2> HIDE DEF S, m
  <2> QED BY <1>1, Zenon DEF Min
<1> QED BY <1>2, <1>3

(* Two sets that differ in one element at most. *)
LEMMA CardinalitySwitch ==
  ASSUME NEW S, NEW T, NEW x, IsFiniteSet(S), IsFiniteSet(T), S \ {x} = T \ {x}
  PROVE  /\ Cardinality(S) \in Nat /\ Cardinality(T) \in Nat
         /\ Cardinality(T)
              = Cardinality(S) - (IF x \in S THEN 1 ELSE 0) + (IF x \in T THEN 1 ELSE 0)
<1>1. Cardinality(S) \in Nat /\ Cardinality(T) \in Nat
  BY FS_CardinalityType
<1>2. Cardinality(S \ {x}) = IF x \in S THEN Cardinality(S) - 1 ELSE Cardinality(S)
  BY FS_RemoveElement
<1>3. Cardinality(T \ {x}) = IF x \in T THEN Cardinality(T) - 1 ELSE Cardinality(T)
  BY FS_RemoveElement
<1> QED BY <1>1, <1>2, <1>3

-----------------------------------------------------------------------------
(* The MX cache.                                                             *)

(* Records in the cache are older than their entry by no more than the lookup
   that fetched them took, and records on their way to the cache no older than
   their lookup.                                                             *)
EntryFresh == mxCache.age >= 0 => mxCache.records <= mxCache.age + MaxAnswer
LookupFresh == \A r \in Resolvers : lookup[r].pc = "store" => lookup[r].records <= lookup[r].busy

Fresh == MxTypeOK /\ EntryFresh /\ LookupFresh /\ RecordsFresh

-----------------------------------------------------------------------------
(* Grow is the next age up to a cap. *)
LEMMA GrowLemma ==
  ASSUME NEW age \in 0..(OldestRecords + 1)
  PROVE  Grow(age) = IF age <= OldestRecords THEN age + 1 ELSE OldestRecords + 1
<1>1. age + 1 \in Int /\ OldestRecords + 1 \in Int /\ age \in Int /\ OldestRecords \in Int
  BY MxAssumption DEF OldestRecords
<1>2. Grow(age) = IF age + 1 <= OldestRecords + 1 THEN age + 1 ELSE OldestRecords + 1
  BY <1>1, MinOfTwo DEF Grow
<1> QED BY <1>1, <1>2

LEMMA FreshInit == MxInit => Fresh
BY MxAssumption DEF MxInit, Fresh, MxTypeOK, EntryFresh, LookupFresh, RecordsFresh,
                    NoCache, NoLookup, OldestRecords

(* Every step of a lookup keeps Fresh; so does a tick. *)
LEMMA FreshStep == Fresh /\ [MxNext]_mxVars => Fresh'
<1> SUFFICES ASSUME Fresh, [MxNext]_mxVars
             PROVE  Fresh'
  OBVIOUS
<1> USE MxAssumption DEF Fresh, MxTypeOK, EntryFresh, LookupFresh, RecordsFresh, OldestRecords
<1>1. ASSUME NEW r \in Resolvers, Load(r)
      PROVE  Fresh'
  BY <1>1 DEF Load, Found, LookupGoto, NoLookup
<1>2. ASSUME NEW r \in Resolvers, DeleteExpired(r)
      PROVE  Fresh'
  BY <1>2 DEF DeleteExpired, LookupGoto, NoCache
<1>3. ASSUME NEW r \in Resolvers, Query(r)
      PROVE  Fresh'
  BY <1>3 DEF Query, Found, LookupGoto, NoLookup
<1>4. ASSUME NEW r \in Resolvers, LookupAFallback(r)
      PROVE  Fresh'
  BY <1>4 DEF LookupAFallback, Found, NoLookup
<1>5. ASSUME NEW r \in Resolvers, StoreRecords(r)
      PROVE  Fresh'
  BY <1>5 DEF StoreRecords, Found, NoLookup
<1>6. CASE MxTick
  <2>1. mxCache' \in [age : -1..(OldestRecords + 1), records : 0..(OldestRecords + 1)] /\ EntryFresh'
    <3>1. CASE mxCache.age < 0
      BY <1>6, <3>1 DEF MxTick
    <3>2. CASE mxCache.age >= 0
      <4>1. /\ mxCache.age \in 0..(OldestRecords + 1)
            /\ mxCache.records \in 0..(OldestRecords + 1)
            /\ mxCache.records <= mxCache.age + MaxAnswer
        BY <3>2
      <4> DEFINE a == Grow(mxCache.age)
                 d == Grow(mxCache.records)
      <4>2. /\ a \in 0..(OldestRecords + 1) /\ d \in 0..(OldestRecords + 1)
            /\ d <= a + MaxAnswer
        BY <4>1, GrowLemma
      <4>3. mxCache' = [age |-> a, records |-> d]
        <5>1. ~(mxCache.age < 0)
          BY <4>1
        <5> QED BY <1>6, <5>1, Zenon DEF MxTick
      <4> HIDE DEF a, d
      <4> QED BY <4>2, <4>3
    <3> QED BY <3>1, <3>2
  <2>2. ASSUME NEW r \in Resolvers
        PROVE  /\ lookup'[r] \in [pc : {"idle", "delete", "query", "fallback", "store"},
                                  busy : 0..MaxAnswer, records : 0..MaxAnswer]
               /\ lookup'[r].pc = "store" => lookup'[r].records <= lookup'[r].busy
    <3>1. lookup[r] \in [pc : {"idle", "delete", "query", "fallback", "store"},
                         busy : 0..MaxAnswer, records : 0..MaxAnswer]
          /\ lookup[r].pc = "store" => lookup[r].records <= lookup[r].busy
      OBVIOUS
    <3>2. CASE lookup[r].pc = "idle"
      BY <1>6, <3>1, <3>2 DEF MxTick
    <3>3. CASE lookup[r].pc = "store"
      <4>1. /\ lookup'[r] = [pc |-> lookup[r].pc, busy |-> lookup[r].busy + 1, records |-> lookup[r].records + 1]
            /\ lookup[r].busy < MaxAnswer
        BY <1>6, <3>1, <3>3 DEF MxTick
      <4>2. /\ lookup[r].busy + 1 \in 0..MaxAnswer /\ lookup[r].records + 1 \in 0..MaxAnswer
            /\ lookup[r].records + 1 <= lookup[r].busy + 1
        BY <3>1, <3>3, <4>1
      <4> QED BY <3>1, <3>3, <4>1, <4>2
    <3>4. CASE lookup[r].pc \notin {"idle", "store"}
      <4>1. /\ lookup'[r] = [pc |-> lookup[r].pc, busy |-> lookup[r].busy + 1, records |-> lookup[r].records]
            /\ lookup[r].busy < MaxAnswer
        BY <1>6, <3>1, <3>4 DEF MxTick
      <4>2. lookup[r].busy + 1 \in 0..MaxAnswer
        BY <3>1, <4>1
      <4> QED BY <3>1, <3>4, <4>1, <4>2
    <3> QED BY <3>2, <3>3, <3>4
  <2>3. lookup' = [r \in Resolvers |-> lookup'[r]]
    BY <1>6 DEF MxTick
  <2> QED BY <1>6, <2>1, <2>2, <2>3 DEF MxTick
<1>7. CASE UNCHANGED mxVars
  BY <1>7 DEF mxVars
<1> QED BY <1>1, <1>2, <1>3, <1>4, <1>5, <1>6, <1>7 DEF MxNext

(* Lookup of the MX resolver (mx.go) never returns records older than a ttl and
   the time of one lookup, whatever the concurrent lookups do.               *)
THEOREM LookupsFresh == MxSpec => []RecordsFresh
<1>1. Fresh => RecordsFresh
  BY DEF Fresh
<1> QED BY <1>1, FreshInit, FreshStep, PTL DEF MxSpec

-----------------------------------------------------------------------------
(* Greylisting.                                                              *)

GreyRows == [exists : BOOLEAN, passed : BOOLEAN,
             first : 0..(MaxRowAge + 1), last : 0..(MaxRowAge + 1)]
GreyAnswers == [kind : {"none", "deferred", "allowed", "unchecked"},
                deferred : -1..(MaxRowAge + 1)]

(* The triplet was deferred when its row was inserted or before; the delay was
   over when the row passed, and when a session decided to let a recipient
   through.                                                                  *)
GreyHistory ==
  /\ greyRow.exists => greyAnswer.deferred >= greyRow.first
  /\ greyRow.passed => greyAnswer.deferred >= MinDelay
  /\ \A g \in GreySessions :
       greyPc[g] \in {"touch", "pass"} => greyAnswer.deferred >= MinDelay

GreyInductive ==
  GreyTypeOK /\ greyAnswer \in GreyAnswers /\ GreyHistory /\ AllowedAfterDelay

LEMMA OlderLemma ==
  ASSUME NEW age \in 0..(MaxRowAge + 1)
  PROVE  Older(age) = IF age <= MaxRowAge THEN age + 1 ELSE MaxRowAge + 1
<1>1. age + 1 \in Int /\ MaxRowAge + 1 \in Int /\ age \in Int /\ MaxRowAge \in Int
  BY GreyAssumption
<1>2. Older(age) = IF age + 1 <= MaxRowAge + 1 THEN age + 1 ELSE MaxRowAge + 1
  BY <1>1, MinOfTwo DEF Older
<1> QED BY <1>1, <1>2

LEMMA GreyInitInductive == GreyInit => GreyInductive
BY GreyAssumption DEF GreyInit, GreyInductive, GreyTypeOK, GreyHistory, AllowedAfterDelay,
                      NoGreyRow, GreyAnswers

LEMMA GreyStepInductive == GreyInductive /\ [GreyNext]_greyVars => GreyInductive'
<1> SUFFICES ASSUME GreyInductive, [GreyNext]_greyVars
             PROVE  GreyInductive'
  OBVIOUS
<1> USE DEF GreyInductive, GreyTypeOK
<1>c. /\ MinDelay \in Nat /\ MinDelay > 0 /\ MaxRowAge \in Nat /\ RetryEvery \in Nat
      /\ MaxGreyFaults \in Nat /\ MinDelay <= MaxRowAge
  BY GreyAssumption
(* An answer, for a delay that was over when it is "allowed". *)
<1>a. ASSUME NEW g \in GreySessions, NEW kind \in {"deferred", "allowed", "unchecked"}, RcptAnswer(g, kind)
      PROVE  /\ greyAnswer' \in GreyAnswers /\ greyAnswer'.kind = kind
             /\ greyAnswer'.deferred >= greyAnswer.deferred
             /\ kind = "deferred" => greyAnswer'.deferred >= 0
             /\ greyPc' \in [GreySessions -> {"idle", "insert", "touch", "pass"}]
             /\ \A h \in GreySessions :
                  greyPc'[h] \in {"touch", "pass"} => greyPc[h] \in {"touch", "pass"}
  BY <1>a, <1>c DEF RcptAnswer, GreyAnswers
(* The rest of a step that only answers, or only moves on. *)
<1>f. ASSUME NEW g \in GreySessions, FailsOpen(g), UNCHANGED greyWait
      PROVE  GreyInductive'
  <2>1. RcptAnswer(g, "unchecked") /\ UNCHANGED greyRow
        /\ greyFaults' \in 0..MaxGreyFaults
    BY <1>c, <1>f DEF FailsOpen
  <2> QED BY <1>a, <1>c, <1>f, <2>1 DEF GreyHistory, AllowedAfterDelay, GreyAnswers
<1>1. ASSUME NEW g \in GreySessions, Check(g)
      PROVE  GreyInductive'
  <2>1. greyWait' = 0
    BY <1>1 DEF Check
  <2>2. CASE FailsOpen(g)
    <3>1. RcptAnswer(g, "unchecked") /\ UNCHANGED greyRow
          /\ greyFaults' \in 0..MaxGreyFaults
      BY <1>c, <2>2 DEF FailsOpen
    <3> QED BY <1>a, <1>c, <2>1, <3>1 DEF GreyHistory, AllowedAfterDelay, GreyAnswers
  <2>3. CASE RcptAnswer(g, "deferred") /\ UNCHANGED <<greyRow, greyFaults>>
    BY <1>a, <1>c, <2>1, <2>3 DEF GreyHistory, AllowedAfterDelay, GreyAnswers
  <2>4. CASE ~greyRow.exists /\ GreyGoto(g, "insert") /\ UNCHANGED <<greyRow, greyFaults>>
    BY <1>c, <2>1, <2>4 DEF GreyGoto, GreyHistory, AllowedAfterDelay, GreyAnswers
  <2>5. CASE greyRow.passed /\ GreyGoto(g, "touch") /\ UNCHANGED <<greyRow, greyFaults>>
    BY <1>c, <2>1, <2>5 DEF GreyGoto, GreyHistory, AllowedAfterDelay, GreyAnswers
  <2>6. CASE /\ greyRow.exists /\ greyRow.first >= MinDelay
             /\ GreyGoto(g, "pass") /\ UNCHANGED <<greyRow, greyFaults>>
    <3>1. greyAnswer.deferred >= MinDelay
      BY <1>c, <2>6 DEF GreyHistory, GreyAnswers
    <3> QED BY <1>c, <2>1, <2>6, <3>1 DEF GreyGoto, GreyHistory, AllowedAfterDelay, GreyAnswers
  <2> QED BY <1>1, <2>2, <2>3, <2>4, <2>5, <2>6 DEF Check
<1>2. ASSUME NEW g \in GreySessions, InsertRow(g)
      PROVE  GreyInductive'
  <2>1. CASE FailsOpen(g)
    BY <1>2, <1>f, <2>1 DEF InsertRow
  <2>2. CASE /\ RcptAnswer(g, "deferred") /\ UNCHANGED <<greyFaults, greyWait>>
             /\ greyRow' = IF greyRow.exists THEN greyRow ELSE NewGreyRow
    <3>2. /\ greyRow' \in GreyRows
          /\ greyRow' = greyRow \/ (greyRow'.passed = FALSE /\ greyRow'.first = 0)
      BY <1>c, <2>2 DEF GreyRows, NewGreyRow
    <3> QED BY <1>a, <1>c, <2>2, <3>2 DEF GreyHistory, AllowedAfterDelay, GreyAnswers, GreyRows
  <2> QED BY <1>2, <2>1, <2>2 DEF InsertRow
<1>3. ASSUME NEW g \in GreySessions, TouchRow(g)
      PROVE  GreyInductive'
  <2>1. /\ RcptAnswer(g, "allowed") /\ UNCHANGED greyWait /\ greyAnswer.deferred >= MinDelay
        /\ greyFaults' \in 0..MaxGreyFaults
    BY <1>3, <1>c DEF TouchRow, GreyHistory
  <2>2. /\ greyRow' \in GreyRows
        /\ greyRow'.exists = greyRow.exists /\ greyRow'.passed = greyRow.passed
        /\ greyRow'.first = greyRow.first
    BY <1>3, <1>c DEF TouchRow, GreyRows
  <2> QED BY <1>a, <1>c, <2>1, <2>2 DEF GreyHistory, AllowedAfterDelay, GreyAnswers, GreyRows
<1>4. ASSUME NEW g \in GreySessions, PassRow(g)
      PROVE  GreyInductive'
  <2>1. CASE FailsOpen(g)
    BY <1>4, <1>f, <2>1 DEF PassRow
  <2>2. CASE ~FailsOpen(g)
    <3>1. /\ RcptAnswer(g, "allowed") /\ UNCHANGED <<greyFaults, greyWait>>
          /\ greyAnswer.deferred >= MinDelay
      BY <1>4, <2>2 DEF PassRow, GreyHistory
    <3>2. /\ greyRow' \in GreyRows
          /\ (greyRow'.exists => greyRow.exists) /\ greyRow'.first = greyRow.first
      <4>1. CASE ~greyRow.exists
        BY <1>4, <2>2, <4>1 DEF PassRow, GreyRows
      <4>2. CASE greyRow.exists
        <5>1. greyRow' = [exists |-> TRUE, passed |-> TRUE, first |-> greyRow.first, last |-> 0]
          BY <1>4, <2>2, <4>2 DEF PassRow
        <5>2. greyRow.first \in 0..(MaxRowAge + 1) /\ 0 \in 0..(MaxRowAge + 1)
          BY <1>c
        <5> QED BY <4>2, <5>1, <5>2 DEF GreyRows
      <4> QED BY <4>1, <4>2
    <3> QED BY <1>a, <1>c, <3>1, <3>2 DEF GreyHistory, AllowedAfterDelay, GreyAnswers, GreyRows
  <2> QED BY <2>1, <2>2
<1>5. CASE CleanupRows
  BY <1>5, <1>c DEF CleanupRows, NoGreyRow, GreyHistory, AllowedAfterDelay
<1>6. CASE GreyTick
  <2>1. /\ \A g \in GreySessions : greyPc[g] = "idle"
        /\ greyWait' \in 0..RetryEvery /\ UNCHANGED <<greyPc, greyFaults>>
    BY <1>6, <1>c DEF GreyTick
  <2>2. /\ greyAnswer'.kind = greyAnswer.kind
        /\ greyAnswer'.deferred = IF greyAnswer.deferred < 0 THEN greyAnswer.deferred ELSE Older(greyAnswer.deferred)
        /\ greyAnswer' \in GreyAnswers
        /\ greyAnswer'.deferred >= greyAnswer.deferred
    <3>1. greyAnswer' = [kind |-> greyAnswer.kind,
                         deferred |-> IF greyAnswer.deferred < 0 THEN greyAnswer.deferred
                                                                 ELSE Older(greyAnswer.deferred)]
      BY <1>6 DEF GreyTick, GreyAnswers
    <3>2. greyAnswer.deferred \in -1..(MaxRowAge + 1)
      OBVIOUS
    <3>3. CASE greyAnswer.deferred < 0
      BY <1>c, <3>1, <3>2, <3>3 DEF GreyAnswers
    <3>4. CASE greyAnswer.deferred >= 0
      <4>1. Older(greyAnswer.deferred)
              = IF greyAnswer.deferred <= MaxRowAge THEN greyAnswer.deferred + 1 ELSE MaxRowAge + 1
        BY <1>c, <3>2, <3>4, OlderLemma
      <4> QED BY <1>c, <3>1, <3>2, <3>4, <4>1 DEF GreyAnswers
    <3> QED BY <3>2, <3>3, <3>4
  <2>3. CASE ~greyRow.exists
    BY <1>6, <1>c, <2>1, <2>2, <2>3 DEF GreyTick, GreyHistory, AllowedAfterDelay, GreyAnswers
  <2>4. CASE greyRow.exists
    <3>1. /\ greyRow.first \in 0..(MaxRowAge + 1) /\ greyRow.last \in 0..(MaxRowAge + 1)
          /\ greyAnswer.deferred \in 0..(MaxRowAge + 1) /\ greyAnswer.deferred >= greyRow.first
      BY <1>c, <2>4 DEF GreyHistory
    <3>2. greyRow' = [exists |-> greyRow.exists, passed |-> greyRow.passed,
                      first |-> Older(greyRow.first), last |-> Older(greyRow.last)]
      BY <1>6, <2>4 DEF GreyTick
    <3>3. /\ Older(greyRow.first) \in 0..(MaxRowAge + 1) /\ Older(greyRow.last) \in 0..(MaxRowAge + 1)
          /\ Older(greyAnswer.deferred) >= Older(greyRow.first)
      BY <1>c, <3>1, OlderLemma
    <3>4. greyAnswer'.deferred = Older(greyAnswer.deferred)
      BY <2>2, <3>1, <1>c
    <3>5. /\ greyRow' \in GreyRows /\ greyRow'.passed = greyRow.passed
          /\ greyRow'.first = Older(greyRow.first)
      BY <3>2, <3>3 DEF GreyRows
    <3>6. GreyHistory' /\ AllowedAfterDelay'
      BY <1>c, <2>1, <2>2, <3>1, <3>3, <3>4, <3>5 DEF GreyHistory, AllowedAfterDelay, GreyAnswers
    <3> QED BY <2>1, <2>2, <3>5, <3>6 DEF GreyAnswers, GreyRows
  <2> QED BY <2>3, <2>4
<1>7. CASE UNCHANGED greyVars
  BY <1>7 DEF greyVars, GreyHistory, AllowedAfterDelay
<1> QED BY <1>1, <1>2, <1>3, <1>4, <1>5, <1>6, <1>7 DEF GreyNext, CheckStep

(* The greylist's row, sessions and counters keep their types. *)
THEOREM GreylistTypes == GreySpec => []GreyTypeOK
<1>1. GreyInductive => GreyTypeOK
  BY DEF GreyInductive
<1> QED BY <1>1, GreyInitInductive, GreyStepInductive, PTL DEF GreySpec

(* Check of the greylist lets no recipient pass whose triplet was not deferred
   MinDelay before, for any number of sessions and any delays.               *)
THEOREM GreylistDelays == GreySpec => []AllowedAfterDelay
<1>1. GreyInductive => AllowedAfterDelay
  BY DEF GreyInductive
<1> QED BY <1>1, GreyInitInductive, GreyStepInductive, PTL DEF GreySpec

-----------------------------------------------------------------------------
(* The login to the administration server.                                   *)

LimitRecord == [count : Nat, first : 0..MaxAge, blocked : -1..BlockDuration]
ReqRecord == [pc : {"idle", "login", "session", "auth", "handler"},
              user : AdminUsers \union {NoUser}, wasAdmin : BOOLEAN, served : BOOLEAN]

LoginTypes ==
  /\ limit \in LimitRecord
  /\ DOMAIN isAdmin \subseteq AdminUsers
  /\ sessionAge \in [AdminUsers -> -1..(SessionLife + 1)]
  /\ adminReq \in [AdminReqs -> ReqRecord]

(* Requests that were let in and will count an attempt, at most. *)
Trying(f) == {r \in AdminReqs : f[r].pc = "login"}

(* What counts of the entry: nothing once its window is over. *)
FailuresCounted(info) == IF info.first > WindowSize THEN 0 ELSE info.count

(* An entry at the limit was blocked after its window began, so a block that is
   over is one whose window is over; and the attempts of a window with those
   that are still to be counted stay in bounds.                              *)
LimitInv ==
  /\ limit.count >= MaxLoginAttempts => limit.blocked >= 0 /\ limit.first >= limit.blocked
  /\ FailuresCounted(limit) + Cardinality(Trying(adminReq)) <= MaxLoginAttempts + Cardinality(AdminReqs) - 1
  /\ AttemptsBounded

(* A request that is served, or is about to be, is an administrator's. *)
OfAdmin(q) ==
  /\ q.pc = "auth" /\ Admin(q.user) => q.wasAdmin
  /\ q.pc = "handler" \/ q.served => q.wasAdmin
ServedInv == \A r \in AdminReqs : OfAdmin(adminReq[r])

LoginConstants ==
  /\ MaxLoginAttempts \in Nat /\ MaxLoginAttempts > 1
  /\ WindowSize \in Nat /\ BlockDuration \in Nat /\ BlockDuration > WindowSize
  /\ SessionLife \in Nat /\ MaxAge \in Nat /\ MaxAge = WindowSize + BlockDuration + 1

LEMMA LoginConstantsHold == LoginConstants
BY LoginAssumption DEF LoginConstants, MaxAge

LEMMA AgedLemma ==
  ASSUME NEW cap \in Nat, NEW age \in -1..cap
  PROVE  Aged(age, cap) = IF age < 0 THEN age ELSE IF age < cap THEN age + 1 ELSE cap
<1>1. age + 1 \in Int /\ cap \in Int
  OBVIOUS
<1>2. Min({age + 1, cap}) = IF age + 1 <= cap THEN age + 1 ELSE cap
  BY <1>1, MinOfTwo
<1>3. CASE age < 0
  BY <1>3 DEF Aged
<1>4. CASE ~(age < 0)
  <2>1. Aged(age, cap) = Min({age + 1, cap})
    BY <1>4 DEF Aged
  <2> QED BY <1>2, <1>4, <2>1
<1> QED BY <1>3, <1>4

(* How a request's step changes the number of those that try. *)
LEMMA TryingLemma ==
  ASSUME NEW f, NEW g, NEW r \in AdminReqs, \A q \in AdminReqs \ {r} : g[q] = f[q]
  PROVE  /\ Cardinality(Trying(f)) \in Nat /\ Cardinality(Trying(g)) \in Nat
         /\ Cardinality(Trying(g)) = Cardinality(Trying(f))
              - (IF f[r].pc = "login" THEN 1 ELSE 0) + (IF g[r].pc = "login" THEN 1 ELSE 0)
<1>1. IsFiniteSet(Trying(f)) /\ IsFiniteSet(Trying(g))
  <2>1. Trying(f) \in SUBSET AdminReqs /\ Trying(g) \in SUBSET AdminReqs
    BY DEF Trying
  <2> QED BY <2>1, FS_Subset, LoginAssumption
<1>2. Trying(f) \ {r} = Trying(g) \ {r}
  BY DEF Trying
<1>3. (r \in Trying(f) <=> f[r].pc = "login") /\ (r \in Trying(g) <=> g[r].pc = "login")
  BY DEF Trying
<1> QED BY <1>1, <1>2, <1>3, CardinalitySwitch

(* They are no more than the requests, and one less while one does not. *)
LEMMA TryingBound ==
  ASSUME NEW f, NEW r \in AdminReqs, f[r].pc # "login"
  PROVE  /\ Cardinality(AdminReqs) \in Nat /\ Cardinality(Trying(f)) \in Nat
         /\ Cardinality(Trying(f)) + 1 <= Cardinality(AdminReqs)
<1>1. Trying(f) \in SUBSET (AdminReqs \ {r}) /\ Trying(f) \in SUBSET AdminReqs
  BY DEF Trying
<1>2. IsFiniteSet(AdminReqs \ {r}) /\ Cardinality(AdminReqs \ {r}) = Cardinality(AdminReqs) - 1
  BY FS_RemoveElement, LoginAssumption
<1>3. Cardinality(Trying(f)) <= Cardinality(AdminReqs \ {r})
  BY <1>1, <1>2, FS_Subset
<1>4. IsFiniteSet(Trying(f))
  BY <1>1, FS_Subset, LoginAssumption
<1> QED BY <1>2, <1>3, <1>4, FS_CardinalityType, LoginAssumption

(* A request's step gives it a record; the other requests keep theirs. *)
LEMMA SetReqLemma ==
  ASSUME LoginTypes, NEW r \in AdminReqs, NEW f \in ReqRecord, SetReq(r, f)
  PROVE  /\ adminReq' \in [AdminReqs -> ReqRecord] /\ adminReq'[r] = f
         /\ \A q \in AdminReqs \ {r} : adminReq'[q] = adminReq[q]
BY DEF LoginTypes, SetReq

(* What EndReq and the other moves make of a request's record. *)
LEMMA ReqMoves ==
  ASSUME LoginTypes, NEW r \in AdminReqs,
         NEW pc \in {"idle", "login", "session", "auth", "handler"}, NEW b \in BOOLEAN
  PROVE  /\ [adminReq[r] EXCEPT !.pc = "idle", !.served = b] \in ReqRecord
         /\ [adminReq[r] EXCEPT !.pc = "idle", !.served = b].pc = "idle"
         /\ [adminReq[r] EXCEPT !.pc = "idle", !.served = b].wasAdmin = adminReq[r].wasAdmin
         /\ [adminReq[r] EXCEPT !.pc = "idle", !.served = b].served = b
         /\ [adminReq[r] EXCEPT !.pc = pc] \in ReqRecord
         /\ [adminReq[r] EXCEPT !.pc = pc].pc = pc
         /\ [adminReq[r] EXCEPT !.pc = pc].user = adminReq[r].user
         /\ [adminReq[r] EXCEPT !.pc = pc].wasAdmin = adminReq[r].wasAdmin
         /\ [adminReq[r] EXCEPT !.pc = pc].served = adminReq[r].served
<1>1. adminReq[r] \in ReqRecord
  BY DEF LoginTypes
<1> QED BY <1>1 DEF ReqRecord

(* RecordFailure starts a window, or counts in the one that goes on. *)
LEMMA RecordFailureLemma ==
  ASSUME NEW info \in LimitRecord
  PROVE  \/ RecordFailure(info) = [count |-> 1, first |-> 0, blocked |-> -1]
         \/ /\ info.first <= WindowSize
            /\ \/ /\ info.count + 1 >= MaxLoginAttempts
                  /\ RecordFailure(info) = [count |-> info.count + 1, first |-> info.first, blocked |-> 0]
               \/ /\ info.count + 1 < MaxLoginAttempts
                  /\ RecordFailure(info) = [count |-> info.count + 1, first |-> info.first, blocked |-> info.blocked]
<1> USE LoginConstantsHold DEF LoginConstants
<1>1. [NoEntry EXCEPT !.count = 1] = [count |-> 1, first |-> 0, blocked |-> -1]
  BY DEF NoEntry
<1>2. info.count \in Nat /\ info.first \in Nat
  BY DEF LimitRecord
<1>3. CASE info.count = 0 \/ info.first > WindowSize
  BY <1>1, <1>3 DEF RecordFailure
<1>4. CASE info.count # 0 /\ ~(info.first > WindowSize) /\ info.count + 1 >= MaxLoginAttempts
  BY <1>2, <1>4 DEF RecordFailure
<1>5. CASE info.count # 0 /\ ~(info.first > WindowSize) /\ ~(info.count + 1 >= MaxLoginAttempts)
  BY <1>2, <1>5 DEF RecordFailure
<1> QED BY <1>3, <1>4, <1>5

(* The steps that change the entry: types and bounds. *)
LEMMA LimitSteps ==
  ASSUME LoginTypes, LimitInv
  PROVE  /\ NoEntry \in LimitRecord
         /\ RecordFailure(limit) \in LimitRecord
         /\ LoginTick => /\ limit' \in LimitRecord /\ limit'.count = limit.count
                         /\ limit'.first >= limit.first \/ limit.count = 0
                         /\ limit.count > 0 /\ limit.blocked >= 0 /\ limit.first >= limit.blocked
                              => limit'.blocked >= 0 /\ limit'.first >= limit'.blocked
<1> USE LoginConstantsHold DEF LoginConstants
<1>1. NoEntry \in LimitRecord
  BY DEF NoEntry, LimitRecord
<1>2. RecordFailure(limit) \in LimitRecord
  BY RecordFailureLemma DEF LoginTypes, LimitRecord
<1>3. ASSUME LoginTick
      PROVE  /\ limit' \in LimitRecord /\ limit'.count = limit.count
             /\ limit'.first >= limit.first \/ limit.count = 0
             /\ limit.count > 0 /\ limit.blocked >= 0 /\ limit.first >= limit.blocked
                  => limit'.blocked >= 0 /\ limit'.first >= limit'.blocked
  <2> DEFINE first == IF limit.count = 0 THEN 0 ELSE Aged(limit.first, MaxAge)
             blocked == Aged(limit.blocked, BlockDuration)
  <2>1. limit' = [count |-> limit.count, first |-> first, blocked |-> blocked]
    BY <1>3 DEF LoginTick, LoginTypes, LimitRecord
  <2>2. limit.first \in 0..MaxAge /\ limit.blocked \in -1..BlockDuration /\ limit.count \in Nat
    BY DEF LoginTypes, LimitRecord
  <2>3. blocked = IF limit.blocked < 0 THEN limit.blocked
                  ELSE IF limit.blocked < BlockDuration THEN limit.blocked + 1 ELSE BlockDuration
    BY <2>2, AgedLemma
  <2>4. limit.count # 0 => first = IF limit.first < MaxAge THEN limit.first + 1 ELSE MaxAge
    <3>1. Aged(limit.first, MaxAge) = IF limit.first < 0 THEN limit.first ELSE IF limit.first < MaxAge THEN limit.first + 1 ELSE MaxAge
      BY <2>2, AgedLemma
    <3> QED BY <2>2, <3>1
  <2>5. limit.count = 0 => first = 0
    OBVIOUS
  <2> HIDE DEF first, blocked
  <2>6. first \in 0..MaxAge /\ blocked \in -1..BlockDuration
    BY <2>2, <2>3, <2>4, <2>5
  <2> QED BY <2>1, <2>2, <2>3, <2>4, <2>5, <2>6 DEF LimitRecord
<1> QED BY <1>1, <1>2, <1>3

(* What ChangeUser makes of the requests: its own ends, and those of users who
   are administrators now are marked.                                        *)
LEMMA ChangeUserLemma ==
  ASSUME LoginTypes, NEW r \in AdminReqs, NEW new, ChangeUser(r, new)
  PROVE  /\ adminReq' \in [AdminReqs -> ReqRecord]
         /\ \A q \in AdminReqs :
              /\ adminReq'[q].user = adminReq[q].user
              /\ adminReq'[q].pc = IF q = r THEN "idle" ELSE adminReq[q].pc
              /\ adminReq[q].wasAdmin => adminReq'[q].wasAdmin
              /\ adminReq[q].user \in DOMAIN new /\ new[adminReq[q].user] => adminReq'[q].wasAdmin
              /\ adminReq'[q].served => adminReq[q].served \/ q = r
<1> DEFINE new_(q) == [pc |-> IF q = r THEN "idle" ELSE adminReq[q].pc, user |-> adminReq[q].user,
                       wasAdmin |-> SeenAdmin(q, new), served |-> q = r \/ adminReq[q].served]
<1>1. adminReq' = [q \in AdminReqs |-> new_(q)]
  BY DEF ChangeUser
<1>2. ASSUME NEW q \in AdminReqs
      PROVE  /\ new_(q) \in ReqRecord
             /\ new_(q).user = adminReq[q].user
             /\ new_(q).pc = IF q = r THEN "idle" ELSE adminReq[q].pc
             /\ adminReq[q].wasAdmin => new_(q).wasAdmin
             /\ adminReq[q].user \in DOMAIN new /\ new[adminReq[q].user] => new_(q).wasAdmin
             /\ new_(q).served => adminReq[q].served \/ q = r
  <2>1. adminReq[q] \in ReqRecord
    BY DEF LoginTypes
  <2>2. /\ SeenAdmin(q, new) \in BOOLEAN
        /\ adminReq[q].wasAdmin => SeenAdmin(q, new)
        /\ adminReq[q].user \in DOMAIN new /\ new[adminReq[q].user] => SeenAdmin(q, new)
    BY <2>1 DEF SeenAdmin
  <2>3. (q = r \/ adminReq[q].served) \in BOOLEAN
    OBVIOUS
  <2> QED BY <2>1, <2>2, <2>3 DEF ReqRecord
<1> HIDE DEF new_
<1> QED BY <1>1, <1>2

LEMMA LoginTypesStep == LoginTypes /\ LimitInv /\ [LoginNext]_loginVars => LoginTypes'
<1> SUFFICES ASSUME LoginTypes, LimitInv, [LoginNext]_loginVars
             PROVE  LoginTypes'
  OBVIOUS
<1> USE LoginConstantsHold DEF LoginConstants
<1>0. CASE UNCHANGED loginVars
  BY <1>0 DEF loginVars, LoginTypes
<1>1. CASE CleanupLimiter
  BY <1>1, LimitSteps DEF CleanupLimiter, LoginTypes
<1>2. CASE LoginTick
  <2>1. ASSUME NEW u \in AdminUsers
        PROVE  Aged(sessionAge[u], SessionLife + 1) \in -1..(SessionLife + 1)
    <3>1. sessionAge[u] \in -1..(SessionLife + 1) /\ SessionLife + 1 \in Nat
      BY DEF LoginTypes
    <3> QED BY <3>1, AgedLemma
  <2>2. sessionAge' \in [AdminUsers -> -1..(SessionLife + 1)]
    BY <1>2, <2>1 DEF LoginTick
  <2> QED BY <1>2, <2>2, LimitSteps DEF LoginTick, LoginTypes
<1>3. ASSUME NEW u \in AdminUsers, ExpireSession(u)
      PROVE  LoginTypes'
  BY <1>3 DEF ExpireSession, LoginTypes
<1>4. ASSUME NEW r \in AdminReqs, NEW u \in AdminUsers \union {NoUser}, Login(r, u)
      PROVE  LoginTypes'
  <2>1. NewRequest("login", u, FALSE) \in ReqRecord
    BY DEF NewRequest, ReqRecord
  <2> QED BY <1>4, <2>1, SetReqLemma DEF Login, LoginTypes
<1>5. ASSUME NEW r \in AdminReqs, LoginFails(r)
      PROVE  LoginTypes'
  BY <1>5, SetReqLemma, ReqMoves, LimitSteps DEF LoginFails, EndReq, LoginTypes
<1>6. ASSUME NEW r \in AdminReqs, LoginSucceeds(r)
      PROVE  LoginTypes'
  <2>1. [adminReq[r] EXCEPT !.pc = "session"] \in ReqRecord
    BY ReqMoves
  <2> QED BY <1>6, <2>1, SetReqLemma DEF LoginSucceeds, LoginTypes
<1>7. ASSUME NEW r \in AdminReqs, CreateSession(r)
      PROVE  LoginTypes'
  <2>1. adminReq' \in [AdminReqs -> ReqRecord]
    BY <1>7, SetReqLemma, ReqMoves DEF CreateSession, EndReq
  <2>2. limit' \in LimitRecord
    BY <1>7, LimitSteps DEF CreateSession
  <2>3. sessionAge' \in [AdminUsers -> -1..(SessionLife + 1)] /\ UNCHANGED isAdmin
    <3>1. 0 \in -1..(SessionLife + 1)
      OBVIOUS
    <3> QED BY <1>7, <3>1, Zenon DEF CreateSession, LoginTypes
  <2> QED BY <2>1, <2>2, <2>3 DEF LoginTypes
<1>8. ASSUME NEW r \in AdminReqs, NEW u \in AdminUsers, WithAuth(r, u)
      PROVE  LoginTypes'
  <2>1. NewRequest("auth", u, Admin(u)) \in ReqRecord
    <3>1. Admin(u) \in BOOLEAN
      BY DEF Admin
    <3> QED BY <3>1 DEF NewRequest, ReqRecord
  <2> QED BY <1>8, <2>1, SetReqLemma DEF WithAuth, LoginTypes
<1>9. ASSUME NEW r \in AdminReqs, NEW new, ChangeUser(r, new), DOMAIN new \subseteq AdminUsers
      PROVE  LoginTypes'
  BY <1>9, ChangeUserLemma DEF ChangeUser, LoginTypes
<1>10. ASSUME NEW r \in AdminReqs, NEW u \in AdminUsers,
              UserDelete(r, u) \/ \E b \in BOOLEAN : UserEdit(r, u, b)
       PROVE  LoginTypes'
  BY <1>9, <1>10 DEF UserDelete, UserEdit, LoginTypes
<1>11. ASSUME NEW r \in AdminReqs, CheckAdmin(r)
      PROVE  LoginTypes'
  <2>1. [adminReq[r] EXCEPT !.pc = "handler"] \in ReqRecord
    BY ReqMoves
  <2> QED BY <1>11, <2>1, SetReqLemma, ReqMoves DEF CheckAdmin, EndReq, LoginTypes
<1>12. ASSUME NEW r \in AdminReqs, Serve(r)
      PROVE  LoginTypes'
  BY <1>12, SetReqLemma, ReqMoves DEF Serve, EndReq, LoginTypes
<1> QED BY <1>0, <1>1, <1>2, <1>3, <1>4, <1>5, <1>6, <1>7, <1>8, <1>9, <1>10, <1>11, <1>12 DEF LoginNext

LEMMA LimitStep == LoginTypes /\ LimitInv /\ [LoginNext]_loginVars => LimitInv'
<1> SUFFICES ASSUME LoginTypes, LimitInv, [LoginNext]_loginVars
             PROVE  LimitInv'
  OBVIOUS
<1> USE LoginConstantsHold DEF LoginConstants
<1> DEFINE N == Cardinality(AdminReqs)
           tries == Cardinality(Trying(adminReq))
           tries2 == Cardinality(Trying(adminReq'))
<1>n. N \in Nat /\ tries \in Nat /\ tries2 \in Nat /\ tries <= N /\ tries2 <= N
  <2>1. Trying(adminReq) \in SUBSET AdminReqs /\ Trying(adminReq') \in SUBSET AdminReqs
    BY DEF Trying
  <2> QED BY <2>1, FS_Subset, FS_CardinalityType, LoginAssumption
<1>i. /\ limit.count \in Nat /\ limit.first \in Nat /\ limit.blocked \in Int
      /\ limit.count >= MaxLoginAttempts => limit.blocked >= 0 /\ limit.first >= limit.blocked
      /\ FailuresCounted(limit) + tries <= MaxLoginAttempts + N - 1
      /\ limit.count <= MaxLoginAttempts + N - 1
  BY DEF LoginTypes, LimitRecord, LimitInv, AttemptsBounded
<1>d. LimitInv' <=>
        /\ limit'.count >= MaxLoginAttempts => limit'.blocked >= 0 /\ limit'.first >= limit'.blocked
        /\ FailuresCounted(limit') + tries2 <= MaxLoginAttempts + N - 1
        /\ limit'.count <= MaxLoginAttempts + N - 1
  BY DEF LimitInv, AttemptsBounded
<1>m. ASSUME NEW r \in AdminReqs, \A q \in AdminReqs \ {r} : adminReq'[q] = adminReq[q]
      PROVE  tries2 = tries - (IF adminReq[r].pc = "login" THEN 1 ELSE 0)
                            + (IF adminReq'[r].pc = "login" THEN 1 ELSE 0)
  BY <1>m, TryingLemma
<1>e. limit' = NoEntry => LimitInv'
  <2> SUFFICES ASSUME limit' = NoEntry PROVE LimitInv'
    OBVIOUS
  <2>1. limit'.count = 0 /\ limit'.first = 0 /\ limit'.blocked = -1
    BY DEF NoEntry
  <2>2. FailuresCounted(limit') = 0
    BY <2>1 DEF FailuresCounted
  <2> HIDE DEF N, tries, tries2
  <2> QED BY <1>d, <1>n, <2>1, <2>2
(* The steps of a request that leave the entry alone and do not begin to try. *)
<1>q. ASSUME UNCHANGED limit, tries2 <= tries
      PROVE  LimitInv'
  <2>1. FailuresCounted(limit') = FailuresCounted(limit) /\ FailuresCounted(limit) \in Int
    BY <1>i, <1>q DEF FailuresCounted
  <2> HIDE DEF N, tries, tries2
  <2> QED BY <1>d, <1>i, <1>n, <1>q, <2>1
<1>0. CASE UNCHANGED loginVars
  BY <1>0, <1>n, <1>q DEF loginVars
<1>1. CASE CleanupLimiter
  BY <1>1, <1>e DEF CleanupLimiter
<1>2. CASE LoginTick
  <2>1. /\ limit'.count = limit.count
        /\ limit'.first >= limit.first \/ limit.count = 0
        /\ limit.count > 0 /\ limit.blocked >= 0 /\ limit.first >= limit.blocked
             => limit'.blocked >= 0 /\ limit'.first >= limit'.blocked
        /\ limit'.first \in Nat
    BY <1>2, LimitSteps DEF LimitRecord
  <2>2. tries2 = tries
    BY <1>2 DEF LoginTick
  <2>3. FailuresCounted(limit') <= FailuresCounted(limit) /\ FailuresCounted(limit') \in Int /\ FailuresCounted(limit) \in Int
    BY <1>i, <2>1 DEF FailuresCounted
  <2> HIDE DEF N, tries, tries2
  <2> QED BY <1>d, <1>i, <1>n, <2>1, <2>2, <2>3
<1>3. ASSUME NEW u \in AdminUsers, ExpireSession(u)
      PROVE  LimitInv'
  BY <1>3, <1>n, <1>q DEF ExpireSession
<1>4. ASSUME NEW r \in AdminReqs, NEW u \in AdminUsers \union {NoUser}, Login(r, u)
      PROVE  LimitInv'
  <2>1. /\ adminReq[r].pc = "idle" /\ ~IsBlocked /\ UNCHANGED limit
        /\ \A q \in AdminReqs \ {r} : adminReq'[q] = adminReq[q]
    BY <1>4 DEF Login, SetReq, ReqAt, LoginTypes
  <2>2. tries + 1 <= N /\ tries2 <= tries + 1
    <3>1. tries + 1 <= N
      BY <2>1, TryingBound
    <3>2. tries2 = tries - (IF adminReq[r].pc = "login" THEN 1 ELSE 0)
                         + (IF adminReq'[r].pc = "login" THEN 1 ELSE 0)
      BY <1>m, <2>1
    <3> HIDE DEF N, tries, tries2
    <3> QED BY <1>n, <2>1, <3>1, <3>2
  <2>3. FailuresCounted(limit) <= MaxLoginAttempts - 1 /\ FailuresCounted(limit) \in Int
    BY <1>i, <2>1 DEF FailuresCounted, IsBlocked
  <2>4. FailuresCounted(limit') = FailuresCounted(limit)
    BY <2>1
  <2> HIDE DEF N, tries, tries2
  <2> QED BY <1>d, <1>i, <1>n, <2>1, <2>2, <2>3, <2>4
<1>5. ASSUME NEW r \in AdminReqs, LoginFails(r)
      PROVE  LimitInv'
  <2>1. /\ adminReq[r].pc = "login" /\ limit' = RecordFailure(limit)
        /\ adminReq'[r].pc = "idle"
        /\ \A q \in AdminReqs \ {r} : adminReq'[q] = adminReq[q]
    BY <1>5, SetReqLemma, ReqMoves DEF LoginFails, EndReq, ReqAt
  <2>2. tries2 = tries - 1
    <3>1. tries2 = tries - (IF adminReq[r].pc = "login" THEN 1 ELSE 0)
                         + (IF adminReq'[r].pc = "login" THEN 1 ELSE 0)
      BY <1>m, <2>1
    <3> HIDE DEF N, tries, tries2
    <3> QED BY <1>n, <2>1, <3>1
  <2>3. CASE limit' = [count |-> 1, first |-> 0, blocked |-> -1]
    <3>1. limit'.count = 1 /\ FailuresCounted(limit') = 1
      BY <2>3 DEF FailuresCounted
    <3> HIDE DEF N, tries, tries2
    <3> QED BY <1>d, <1>n, <2>2, <3>1
  <2>4. CASE /\ limit.first <= WindowSize /\ limit.count + 1 >= MaxLoginAttempts
             /\ limit' = [count |-> limit.count + 1, first |-> limit.first, blocked |-> 0]
    <3>1. /\ limit'.count = limit.count + 1 /\ limit'.first = limit.first /\ limit'.blocked = 0
          /\ FailuresCounted(limit') = limit.count + 1 /\ FailuresCounted(limit) = limit.count
      BY <1>i, <2>4 DEF FailuresCounted
    <3> HIDE DEF N, tries, tries2
    <3> QED BY <1>d, <1>i, <1>n, <2>2, <3>1
  <2>5. CASE /\ limit.first <= WindowSize /\ limit.count + 1 < MaxLoginAttempts
             /\ limit' = [count |-> limit.count + 1, first |-> limit.first, blocked |-> limit.blocked]
    <3>1. /\ limit'.count = limit.count + 1
          /\ FailuresCounted(limit') = limit.count + 1 /\ FailuresCounted(limit) = limit.count
      BY <1>i, <2>5 DEF FailuresCounted
    <3> HIDE DEF N, tries, tries2
    <3> QED BY <1>d, <1>i, <1>n, <2>2, <2>5, <3>1
  <2> QED BY <2>1, <2>3, <2>4, <2>5, RecordFailureLemma DEF LoginTypes
<1>6. ASSUME NEW r \in AdminReqs, CreateSession(r)
      PROVE  LimitInv'
  BY <1>6, <1>e DEF CreateSession
(* A request that moves to another place than "login". *)
<1>7. ASSUME NEW r \in AdminReqs, UNCHANGED limit, adminReq'[r].pc # "login",
             \A q \in AdminReqs \ {r} : adminReq'[q] = adminReq[q]
      PROVE  LimitInv'
  <2>1. tries2 = tries - (IF adminReq[r].pc = "login" THEN 1 ELSE 0)
                       + (IF adminReq'[r].pc = "login" THEN 1 ELSE 0)
    BY <1>7, <1>m
  <2>2. tries2 <= tries
    <3> HIDE DEF N, tries, tries2
    <3> QED BY <1>n, <1>7, <2>1
  <2> QED BY <1>7, <1>q, <2>2
<1>8. ASSUME NEW r \in AdminReqs, LoginSucceeds(r)
      PROVE  LimitInv'
  <2>1. [adminReq[r] EXCEPT !.pc = "session"] \in ReqRecord /\ [adminReq[r] EXCEPT !.pc = "session"].pc = "session"
    BY ReqMoves
  <2> QED BY <1>7, <1>8, <2>1, SetReqLemma DEF LoginSucceeds
<1>9. ASSUME NEW r \in AdminReqs, NEW u \in AdminUsers, WithAuth(r, u)
      PROVE  LimitInv'
  <2>1. /\ adminReq'[r].pc = "auth" /\ UNCHANGED limit
        /\ \A q \in AdminReqs \ {r} : adminReq'[q] = adminReq[q]
    BY <1>9 DEF WithAuth, SetReq, LoginTypes, NewRequest
  <2> QED BY <1>7, <2>1
<1>10. ASSUME NEW r \in AdminReqs, NEW u \in AdminUsers,
              UserDelete(r, u) \/ \E b \in BOOLEAN : UserEdit(r, u, b)
       PROVE  LimitInv'
  <2>1. PICK new : ChangeUser(r, new)
    BY <1>10 DEF UserDelete, UserEdit
  <2>2. \A q \in AdminReqs : adminReq'[q].pc = "login" => adminReq[q].pc = "login"
    BY <2>1, ChangeUserLemma
  <2>3. Trying(adminReq') \in SUBSET Trying(adminReq) /\ Trying(adminReq) \in SUBSET AdminReqs
    BY <2>2 DEF Trying
  <2>4. tries2 <= tries
    BY <2>3, FS_Subset, LoginAssumption
  <2> QED BY <1>q, <2>1, <2>4 DEF ChangeUser
<1>11. ASSUME NEW r \in AdminReqs, CheckAdmin(r)
       PROVE  LimitInv'
  <2>1. /\ [adminReq[r] EXCEPT !.pc = "handler"] \in ReqRecord
        /\ [adminReq[r] EXCEPT !.pc = "handler"].pc = "handler"
    BY ReqMoves
  <2>2. /\ adminReq'[r].pc # "login" /\ UNCHANGED limit
        /\ \A q \in AdminReqs \ {r} : adminReq'[q] = adminReq[q]
    BY <1>11, <2>1, SetReqLemma, ReqMoves DEF CheckAdmin, EndReq
  <2> QED BY <1>7, <2>2
<1>12. ASSUME NEW r \in AdminReqs, Serve(r)
       PROVE  LimitInv'
  <2>1. /\ adminReq'[r].pc # "login" /\ UNCHANGED limit
        /\ \A q \in AdminReqs \ {r} : adminReq'[q] = adminReq[q]
    BY <1>12, SetReqLemma, ReqMoves DEF Serve, EndReq
  <2> QED BY <1>7, <2>1
<1> QED BY <1>0, <1>1, <1>2, <1>3, <1>4, <1>5, <1>6, <1>8, <1>9, <1>10, <1>11, <1>12 DEF LoginNext

(* Who is an administrator after a step: whoever was, or was made one by an edit
   that marked the requests of its user.                                     *)
LEMMA ServedStep == LoginTypes /\ ServedInv /\ [LoginNext]_loginVars => ServedInv'
<1> SUFFICES ASSUME LoginTypes, ServedInv, [LoginNext]_loginVars
             PROVE  ServedInv'
  OBVIOUS
<1>t. \A r \in AdminReqs : adminReq[r] \in ReqRecord /\ OfAdmin(adminReq[r])
  BY DEF LoginTypes, ServedInv
<1>0. ASSUME UNCHANGED <<isAdmin, adminReq>>
      PROVE  ServedInv'
  BY <1>0 DEF ServedInv, OfAdmin, Admin
(* A request's step that changes no user. *)
<1>1. ASSUME NEW r \in AdminReqs, UNCHANGED isAdmin,
             \A q \in AdminReqs \ {r} : adminReq'[q] = adminReq[q],
             adminReq'[r].pc = "auth" /\ Admin(adminReq'[r].user) => adminReq'[r].wasAdmin,
             adminReq'[r].pc = "handler" \/ adminReq'[r].served => adminReq'[r].wasAdmin
      PROVE  ServedInv'
  BY <1>1 DEF ServedInv, OfAdmin, Admin
<1>2. CASE CleanupLimiter \/ LoginTick \/ (\E u \in AdminUsers : ExpireSession(u)) \/ UNCHANGED loginVars
  BY <1>0, <1>2 DEF CleanupLimiter, LoginTick, ExpireSession, loginVars
<1>3. ASSUME NEW r \in AdminReqs, NEW u \in AdminUsers \union {NoUser}, Login(r, u)
      PROVE  ServedInv'
  <2>1. /\ UNCHANGED isAdmin /\ adminReq'[r] = NewRequest("login", u, FALSE)
        /\ \A q \in AdminReqs \ {r} : adminReq'[q] = adminReq[q]
    BY <1>3 DEF Login, SetReq, LoginTypes
  <2> QED BY <1>1, <2>1 DEF NewRequest
<1>4. ASSUME NEW r \in AdminReqs, NEW u \in AdminUsers, WithAuth(r, u)
      PROVE  ServedInv'
  <2>1. /\ UNCHANGED isAdmin /\ adminReq'[r] = NewRequest("auth", u, Admin(u))
        /\ \A q \in AdminReqs \ {r} : adminReq'[q] = adminReq[q]
    BY <1>4 DEF WithAuth, SetReq, LoginTypes
  <2>2. /\ adminReq'[r].pc = "auth" /\ adminReq'[r].user = u /\ adminReq'[r].served = FALSE
        /\ Admin(u) => adminReq'[r].wasAdmin
    BY <2>1 DEF NewRequest
  <2> QED BY <1>1, <2>1, <2>2
(* A request ends, served only as an administrator's. *)
<1>5. ASSUME NEW r \in AdminReqs, UNCHANGED isAdmin, NEW b \in BOOLEAN, EndReq(r, b),
             b => adminReq[r].wasAdmin
      PROVE  ServedInv'
  <2> DEFINE f == [adminReq[r] EXCEPT !.pc = "idle", !.served = b]
  <2>1. f \in ReqRecord /\ f.pc = "idle" /\ f.served = b /\ f.wasAdmin = adminReq[r].wasAdmin
    BY ReqMoves
  <2>2. adminReq'[r] = f /\ \A q \in AdminReqs \ {r} : adminReq'[q] = adminReq[q]
    BY <1>5, <2>1, SetReqLemma DEF EndReq
  <2> HIDE DEF f
  <2> QED BY <1>1, <1>5, <2>1, <2>2
<1>6. ASSUME NEW r \in AdminReqs, LoginFails(r) \/ CreateSession(r)
      PROVE  ServedInv'
  BY <1>5, <1>6 DEF LoginFails, CreateSession
<1>7. ASSUME NEW r \in AdminReqs, LoginSucceeds(r)
      PROVE  ServedInv'
  <2> DEFINE f == [adminReq[r] EXCEPT !.pc = "session"]
  <2>1. f \in ReqRecord /\ f.pc = "session" /\ f.served = adminReq[r].served /\ f.wasAdmin = adminReq[r].wasAdmin
    BY ReqMoves
  <2>2. /\ adminReq'[r] = f /\ UNCHANGED isAdmin
        /\ \A q \in AdminReqs \ {r} : adminReq'[q] = adminReq[q]
    BY <1>7, <2>1, SetReqLemma DEF LoginSucceeds
  <2> HIDE DEF f
  <2> QED BY <1>1, <1>t, <2>1, <2>2 DEF OfAdmin
<1>8. ASSUME NEW r \in AdminReqs, CheckAdmin(r)
      PROVE  ServedInv'
  <2>0. adminReq[r].pc = "auth"
    BY <1>8 DEF CheckAdmin, ReqAt
  <2>1. CASE ~Admin(adminReq[r].user)
    BY <1>5, <1>8, <2>1 DEF CheckAdmin, StillAdmin
  <2>2. CASE Admin(adminReq[r].user)
    <3> DEFINE f == [adminReq[r] EXCEPT !.pc = "handler"]
    <3>1. f \in ReqRecord /\ f.pc = "handler" /\ f.wasAdmin = adminReq[r].wasAdmin
      BY ReqMoves
    <3>2. /\ adminReq'[r] = f /\ UNCHANGED isAdmin
          /\ \A q \in AdminReqs \ {r} : adminReq'[q] = adminReq[q]
      BY <1>8, <2>2, <3>1, SetReqLemma DEF CheckAdmin, StillAdmin
    <3>3. adminReq[r].wasAdmin
      BY <1>t, <2>0, <2>2 DEF OfAdmin
    <3> HIDE DEF f
    <3> QED BY <1>1, <3>1, <3>2, <3>3
  <2> QED BY <2>1, <2>2
<1>9. ASSUME NEW r \in AdminReqs, Serve(r)
      PROVE  ServedInv'
  <2>1. adminReq[r].wasAdmin
    BY <1>9, <1>t DEF Serve, ReqAt, OfAdmin
  <2> QED BY <1>5, <1>9, <2>1 DEF Serve
<1>10. ASSUME NEW r \in AdminReqs, NEW u \in AdminUsers,
              UserDelete(r, u) \/ \E b \in BOOLEAN : UserEdit(r, u, b)
       PROVE  ServedInv'
  <2>1. PICK new : ChangeUser(r, new)
    BY <1>10 DEF UserDelete, UserEdit
  <2>2. isAdmin' = new /\ adminReq[r].pc = "handler"
    BY <2>1 DEF ChangeUser, ReqAt
  <2>3. adminReq[r].wasAdmin
    BY <1>t, <2>2 DEF OfAdmin
  <2>4. ASSUME NEW q \in AdminReqs
        PROVE  OfAdmin(adminReq[q])'
    <3>1. /\ adminReq'[q].user = adminReq[q].user
          /\ adminReq'[q].pc = IF q = r THEN "idle" ELSE adminReq[q].pc
          /\ adminReq[q].wasAdmin => adminReq'[q].wasAdmin
          /\ adminReq[q].user \in DOMAIN new /\ new[adminReq[q].user] => adminReq'[q].wasAdmin
          /\ adminReq'[q].served => adminReq[q].served \/ q = r
      BY <2>1, ChangeUserLemma
    <3> QED BY <1>t, <2>2, <2>3, <3>1 DEF OfAdmin, Admin
  <2> QED BY <2>4 DEF ServedInv
<1> QED BY <1>2, <1>3, <1>4, <1>6, <1>7, <1>8, <1>9, <1>10 DEF LoginNext

LoginInductive == LoginTypes /\ LimitInv /\ ServedInv

LEMMA LoginInitInductive == LoginInit => LoginInductive
<1> SUFFICES ASSUME LoginInit PROVE LoginInductive
  OBVIOUS
<1> USE LoginConstantsHold DEF LoginConstants, LoginInit
<1>1. NoRequest \in ReqRecord /\ NoRequest.pc = "idle" /\ NoRequest.served = FALSE
  BY DEF NoRequest, NewRequest, ReqRecord
<1>2. LoginTypes
  BY <1>1 DEF LoginTypes, LimitRecord, NoEntry
<1>3. Trying(adminReq) = {}
  BY <1>1 DEF Trying
<1>4. Cardinality(Trying(adminReq)) = 0 /\ Cardinality(AdminReqs) \in Nat
  BY <1>3, FS_EmptySet, FS_CardinalityType, LoginAssumption
<1>5. LimitInv
  BY <1>4 DEF LimitInv, FailuresCounted, AttemptsBounded, NoEntry
<1>6. ServedInv
  BY <1>1 DEF ServedInv, OfAdmin
<1> QED BY <1>2, <1>5, <1>6 DEF LoginInductive

LEMMA LoginStepInductive == LoginInductive /\ [LoginNext]_loginVars => LoginInductive'
BY LoginTypesStep, LimitStep, ServedStep DEF LoginInductive

(* The rate limiter of the administration server counts at most MaxLoginAttempts
   failures, and one for each request beyond the first that was let in at the
   same time, for any number of requests and any window shorter than the block. *)
THEOREM LoginsLimited == LoginSpec => []AttemptsBounded
<1>1. LoginInductive => AttemptsBounded
  BY DEF LoginInductive, LimitInv
<1> QED BY <1>1, LoginStepInductive, LoginInitInductive, PTL DEF LoginSpec

(* withAuth serves a request only if its user was an administrator at some time
   during it, for any number of users, requests and edits.                   *)
THEOREM AdminsServed == LoginSpec => []ServedToAdmins
<1>1. LoginInductive => ServedToAdmins
  BY DEF LoginInductive, ServedInv, OfAdmin, ServedToAdmins
<1> QED BY <1>1, LoginStepInductive, LoginInitInductive, PTL DEF LoginSpec

-----------------------------------------------------------------------------
(* The life of the process: migrations.                                      *)

(* Max, like Min, of which CHOOSE says nothing to the provers. *)
LEMMA MaxLemma ==
  ASSUME NEW S, S \subseteq Int, NEW m \in S, \A y \in S : y <= m
  PROVE  Max(S) = m
<1>1. Max(S) \in S /\ \A y \in S : y <= Max(S)
  BY Zenon DEF Max
<1>2. Max(S) \in Int /\ m \in Int /\ Max(S) <= m /\ m <= Max(S)
  BY <1>1
<1> HIDE DEF Max
<1> QED BY <1>2

(* The first n migrations are committed, once each, and no other; what Migrate
   has still to apply is what it will find missing, unless another was faster. *)
Prefix(n) == [v \in 1..Versions |-> IF v <= n THEN 1 ELSE 0]
MigratorRecord == [pc : {"idle", "apply", "done", "failed"}, at : 0..(Versions + 1)]

MigrationInv ==
  /\ \E n \in 0..Versions : schema = Prefix(n)
  /\ migrator \in [Migrators -> MigratorRecord]
  /\ serve \in [pc : {"stopped", "starting", "cleaning", "returned"}, at : Int]
  /\ \A m \in Migrators :
       /\ migrator[m].pc = "apply"
            => migrator[m].at >= 1 /\ \A u \in 1..(migrator[m].at - 1) : schema[u] = 1
       /\ migrator[m].pc = "done" => schema[Versions] = 1
  /\ serve.pc = "starting" /\ serve.at > 2 => schema[Versions] = 1

LEMMA VersionLemma ==
  ASSUME NEW n \in 0..Versions, schema = Prefix(n)
  PROVE  SchemaVersion = n
<1> DEFINE S == {0} \union {v \in 1..Versions : schema[v] > 0}
<1>1. S \subseteq Int /\ n \in S /\ \A y \in S : y <= n
  BY LifeAssumption DEF Prefix
<1>2. Max(S) = n
  <2> HIDE DEF S
  <2> QED BY <1>1, MaxLemma
<1> QED BY <1>2 DEF SchemaVersion

(* The positions of the steps. *)
LEMMA StartupAt ==
  /\ Startup[1] = "db" /\ Startup[2] = "migrate" /\ Startup[3] = "tls"
  /\ Startup[4] = "store" /\ Startup[5] = "queue" /\ Startup[6] = "engine"
  /\ Startup[7] = "imap" /\ Startup[8] = "backend" /\ Startup[9] = "smtp"
  /\ Startup[10] = "listen imap" /\ Startup[11] = "listen imaps" /\ Startup[12] = "listen mx"
  /\ Startup[13] = "listen submission" /\ Startup[14] = "listen smtps"
  /\ Startup[15] = "dav" /\ Startup[16] = "admin" /\ Startup[17] = "autodiscover"
  /\ Startup[18] = "running" /\ Len(Startup) = 18
BY DEF Startup

LEMMA CleanupAt ==
  /\ Cleanup[1] = "admin" /\ Cleanup[2] = "dav" /\ Cleanup[3] = "smtp" /\ Cleanup[4] = "imap"
  /\ Cleanup[5] = "engine" /\ Cleanup[6] = "queue" /\ Cleanup[7] = "db" /\ Len(Cleanup) = 7
BY DEF Cleanup

(* So a step is at its position only. *)
LEMMA StartupPosition ==
  ASSUME NEW i \in 1..18
  PROVE  /\ Startup[i] = "db" => i = 1
         /\ Startup[i] = "migrate" => i = 2
         /\ Startup[i] = "tls" => i = 3
         /\ Startup[i] = "store" => i = 4
         /\ Startup[i] = "queue" => i = 5
         /\ Startup[i] = "engine" => i = 6
         /\ Startup[i] = "imap" => i = 7
         /\ Startup[i] = "backend" => i = 8
         /\ Startup[i] = "smtp" => i = 9
         /\ Startup[i] \in {"listen imap", "listen imaps", "listen mx", "listen submission", "listen smtps"}
              => i >= 10 /\ i <= 14
         /\ Startup[i] \in {"dav", "admin"} => i >= 15 /\ i <= 16
         /\ Startup[i] = "autodiscover" => i = 17
<1>0. \/ i = 1 \/ i = 2 \/ i = 3 \/ i = 4 \/ i = 5 \/ i = 6 \/ i = 7 \/ i = 8 \/ i = 9
      \/ i = 10 \/ i = 11 \/ i = 12 \/ i = 13 \/ i = 14 \/ i = 15 \/ i = 16 \/ i = 17 \/ i = 18
  OBVIOUS
<1>1. CASE i = 1 \/ i = 2 \/ i = 3 \/ i = 4 \/ i = 5
  BY <1>1, StartupAt
<1>2. CASE i = 6 \/ i = 7 \/ i = 8 \/ i = 9
  BY <1>2, StartupAt
<1>3. CASE i = 10 \/ i = 11 \/ i = 12 \/ i = 13 \/ i = 14
  <2>1. i >= 10 /\ i <= 14
    BY <1>3
  <2>2. Startup[i] \in {"listen imap", "listen imaps", "listen mx", "listen submission", "listen smtps"}
    BY <1>3, StartupAt
  <2> QED BY <2>1, <2>2
<1>4. CASE i = 15 \/ i = 16
  <2>1. i >= 15 /\ i <= 16
    BY <1>4
  <2>2. Startup[i] \in {"dav", "admin"}
    BY <1>4, StartupAt
  <2> QED BY <2>1, <2>2
<1>5. CASE i = 17 \/ i = 18
  BY <1>5, StartupAt
<1> QED BY <1>0, <1>1, <1>2, <1>3, <1>4, <1>5, Zenon

LEMMA CleanupPosition ==
  ASSUME NEW i \in 1..8, i <= Len(Cleanup)
  PROVE  /\ i \in 1..7
         /\ Cleanup[i] \in {"admin", "dav"} => i \in 1..2
         /\ Cleanup[i] = "smtp" => i = 3
         /\ Cleanup[i] = "imap" => i = 4
         /\ Cleanup[i] = "engine" => i = 5
         /\ Cleanup[i] = "queue" => i = 6
         /\ Cleanup[i] = "db" => i = 7
<1>1. i \in 1..7 /\ (i = 1 \/ i = 2 \/ i = 3 \/ i = 4 \/ i = 5 \/ i = 6 \/ i = 7)
  BY CleanupAt
<1> QED BY <1>1, CleanupAt

LEMMA MigrationInit == LifeInit => MigrationInv
<1> SUFFICES ASSUME LifeInit PROVE MigrationInv
  OBVIOUS
<1>1. schema = Prefix(0)
  BY LifeAssumption DEF LifeInit, Prefix
<1> QED BY <1>1, LifeAssumption DEF LifeInit, MigrationInv, MigratorRecord, NoMigrator, Stopped

LEMMA MigrationStep == MigrationInv /\ [LifeNext]_lifeVars => MigrationInv'
<1> SUFFICES ASSUME MigrationInv, [LifeNext]_lifeVars
             PROVE  MigrationInv'
  OBVIOUS
<1>n. PICK n \in 0..Versions : schema = Prefix(n)
  BY DEF MigrationInv
<1>v. Versions \in Nat /\ Versions >= 1 /\ n \in Nat
  BY LifeAssumption
<1>1. ASSUME NEW m \in Migrators, GetSchemaVersion(m)
      PROVE  MigrationInv'
  <2>1. /\ migrator' = [migrator EXCEPT ![m] = [pc |-> "apply", at |-> n + 1]]
        /\ UNCHANGED <<schema, serve>>
    BY <1>1, <1>n, VersionLemma DEF GetSchemaVersion
  <2>2. \A u \in 1..((n + 1) - 1) : schema[u] = 1
    BY <1>n, <1>v DEF Prefix
  <2>3. n + 1 \in 0..(Versions + 1) /\ n + 1 >= 1
    BY <1>v
  <2> QED BY <2>1, <2>2, <2>3 DEF MigrationInv, MigratorRecord
<1>2. ASSUME NEW m \in Migrators, ApplyMigration(m)
      PROVE  MigrationInv'
  <2> DEFINE v == migrator[m].at
  <2>1. /\ migrator[m].pc = "apply" /\ v \in 1..(Versions + 1) /\ UNCHANGED serve
        /\ \A u \in 1..(v - 1) : schema[u] = 1
    BY <1>2 DEF ApplyMigration, MigrationInv, MigratorRecord
  <2>2. CASE v > Versions
    <3>1. /\ UNCHANGED schema /\ migrator' = [migrator EXCEPT ![m].pc = "done"]
      BY <1>2, <2>2 DEF ApplyMigration
    <3>2. schema[Versions] = 1
      BY <1>v, <2>1, <2>2
    <3> QED BY <2>1, <3>1, <3>2 DEF MigrationInv, MigratorRecord
  <2>3. CASE UNCHANGED schema /\ migrator' = [migrator EXCEPT ![m].pc = "failed"]
    BY <2>1, <2>3 DEF MigrationInv, MigratorRecord
  <2>4. CASE /\ v <= Versions /\ InsertVersion(v)
             /\ schema' = [schema EXCEPT ![v] = @ + 1]
             /\ migrator' = [migrator EXCEPT ![m].at = v + 1]
    <3>0. /\ v \in 1..Versions /\ v \in Nat /\ schema[v] = 0
          /\ \A u \in 1..Versions : schema[u] = IF u <= n THEN 1 ELSE 0
      BY <1>n, <1>v, <2>1, <2>4 DEF InsertVersion, Prefix
    <3>1. n = v - 1
      <4>1. ~(v <= n)
        BY <3>0
      <4>2. v - 1 <= n
        <5>1. CASE v = 1
          BY <1>v, <5>1
        <5>2. CASE v > 1
          <6>1. v - 1 \in 1..(v - 1) /\ v - 1 \in 1..Versions
            BY <1>v, <3>0, <5>2
          <6>2. schema[v - 1] = 1
            BY <2>1, <6>1
          <6> QED BY <3>0, <6>1, <6>2
        <5> QED BY <3>0, <5>1, <5>2
      <4> QED BY <1>v, <3>0, <4>1, <4>2
    <3>2. schema' = Prefix(v) /\ v \in 0..Versions
      <4>1. schema' = [u \in 1..Versions |-> IF u = v THEN schema[v] + 1 ELSE schema[u]]
        BY <1>n, <2>4, <3>0 DEF Prefix
      <4>2. \A u \in 1..Versions : (IF u = v THEN schema[v] + 1 ELSE schema[u]) = IF u <= v THEN 1 ELSE 0
        BY <1>v, <3>0, <3>1
      <4> QED BY <3>0, <4>1, <4>2 DEF Prefix
    <3>3. \A u \in 1..Versions : schema[u] = 1 => schema'[u] = 1
      BY <1>n, <1>v, <3>1, <3>2 DEF Prefix
    <3>4. \A u \in 1..((v + 1) - 1) : schema'[u] = 1
      BY <1>v, <2>1, <2>4, <3>2 DEF Prefix
    <3>5. Versions \in 1..Versions
      BY <1>v
    <3>6. migrator' \in [Migrators -> MigratorRecord]
      BY <1>v, <2>1, <2>4 DEF MigrationInv, MigratorRecord
    <3>7. ASSUME NEW k \in Migrators
          PROVE  /\ migrator'[k].pc = "apply"
                      => migrator'[k].at >= 1 /\ \A u \in 1..(migrator'[k].at - 1) : schema'[u] = 1
                 /\ migrator'[k].pc = "done" => schema'[Versions] = 1
      <4>1. CASE k = m
        <5>1. migrator'[k].pc = "apply" /\ migrator'[k].at = v + 1
          BY <2>1, <2>4, <4>1 DEF MigrationInv, MigratorRecord
        <5> QED BY <2>1, <3>4, <5>1
      <4>2. CASE k # m
        <5>1. migrator'[k] = migrator[k] /\ migrator[k].at \in 0..(Versions + 1)
          BY <2>4, <4>2 DEF MigrationInv, MigratorRecord
        <5>2. \A u \in 1..(migrator[k].at - 1) : u \in 1..Versions
          BY <1>v, <5>1
        <5> QED BY <3>3, <3>5, <5>1, <5>2 DEF MigrationInv
      <4> QED BY <4>1, <4>2
    <3>8. serve.pc = "starting" /\ serve.at > 2 => schema'[Versions] = 1
      BY <3>3, <3>5 DEF MigrationInv
    <3> QED BY <2>1, <3>2, <3>6, <3>7, <3>8 DEF MigrationInv
  <2> QED BY <1>2, <1>v, <2>1, <2>2, <2>3, <2>4 DEF ApplyMigration
(* The other steps leave the schema alone; serve passes "migrate" when its
   Migrate is done.                                                          *)
<1>3. ASSUME UNCHANGED schema,
             migrator' = migrator \/ \E m \in Migrators : migrator' = [migrator EXCEPT ![m] = NoMigrator],
             serve' \in [pc : {"stopped", "starting", "cleaning", "returned"}, at : Int],
             serve'.pc = "starting" /\ serve'.at > 2 => schema[Versions] = 1
      PROVE  MigrationInv'
  <2>1. migrator' \in [Migrators -> MigratorRecord]
    BY <1>3, <1>v DEF MigrationInv, MigratorRecord, NoMigrator
  <2>2. \A m \in Migrators : migrator'[m] = migrator[m] \/ migrator'[m].pc = "idle"
    BY <1>3 DEF MigrationInv, NoMigrator
  <2> QED BY <1>3, <2>1, <2>2 DEF MigrationInv
<1> DEFINE Quiet == /\ UNCHANGED schema
                    /\ migrator' = migrator \/ \E m \in Migrators : migrator' = [migrator EXCEPT ![m] = NoMigrator]
                    /\ serve' \in [pc : {"stopped", "starting", "cleaning", "returned"}, at : Int]
                    /\ serve'.pc = "starting" /\ serve'.at > 2 => schema[Versions] = 1
<1>s. /\ serve \in [pc : {"stopped", "starting", "cleaning", "returned"}, at : Int]
      /\ serve.pc = "starting" /\ serve.at > 2 => schema[Versions] = 1
  BY DEF MigrationInv
(* A step of Startup other than "migrate". *)
<1>4. ASSUME serve.pc = "starting", Startup[serve.at] # "migrate", Advance, UNCHANGED <<schema, migrator>>
      PROVE  Quiet
  <2>1. serve' = [pc |-> "starting", at |-> serve.at + 1]
    BY <1>4, <1>s DEF Advance
  <2>2. serve.at # 2
    BY <1>4, StartupAt
  <2> QED BY <1>4, <1>s, <2>1, <2>2
<1>5. Starting => Quiet
  <2>1. StartServe => Quiet
    BY DEF StartServe
  <2>2. OpenStore => Quiet
    BY <1>4 DEF OpenStore, AtStep
  <2>3. MigrateReturns => Quiet
    <3> SUFFICES ASSUME MigrateReturns PROVE Quiet
      OBVIOUS
    <3>1. "serve" \in Migrators
      BY DEF Migrators
    <3>4. UNCHANGED schema /\ \E m \in Migrators : migrator' = [migrator EXCEPT ![m] = NoMigrator]
      BY <3>1, Zenon DEF MigrateReturns
    <3>2. CASE migrator["serve"].pc = "done" /\ Advance
      <4>1. schema[Versions] = 1
        BY <3>1, <3>2 DEF MigrationInv
      <4>2. serve' = [pc |-> "starting", at |-> serve.at + 1]
        BY <1>s, <3>2 DEF MigrateReturns, AtStep, Advance
      <4>3. serve' \in [pc : {"stopped", "starting", "cleaning", "returned"}, at : Int]
        BY <1>s, <4>2
      <4> QED BY <3>4, <4>1, <4>3, Zenon
    <3>3. CASE BeginCleanup
      <4>1. serve' = [pc |-> "cleaning", at |-> 1]
        BY <3>3 DEF BeginCleanup
      <4>2. serve' \in [pc : {"stopped", "starting", "cleaning", "returned"}, at : Int]
            /\ serve'.pc # "starting"
        BY <4>1
      <4> QED BY <3>4, <4>2, Zenon
    <3> QED BY <3>2, <3>3 DEF MigrateReturns
  <2>4. MakeServer => Quiet
    BY <1>4 DEF MakeServer, AtStep
  <2>5. StartEngine => Quiet
    BY <1>4 DEF StartEngine, AtStep
  <2>6. Listen => Quiet
    BY <1>4 DEF Listen, Listeners, ListenersOf
  <2>7. SpawnHttp => Quiet
    BY <1>4 DEF SpawnHttp, HttpServers
  <2>8. SpawnAutodiscover => Quiet
    BY <1>4 DEF SpawnAutodiscover, AtStep
  <2>9. StepFails \/ PanicOrSignal => Quiet
    BY DEF StepFails, PanicOrSignal, BeginCleanup
  <2> QED BY <2>1, <2>2, <2>3, <2>4, <2>5, <2>6, <2>7, <2>8, <2>9 DEF Starting
<1>6. CleaningUp => Quiet
  <2>1. ASSUME serve.pc = "cleaning", Advance, UNCHANGED <<schema, migrator>>
        PROVE  Quiet
    <3>1. serve' = [pc |-> "cleaning", at |-> serve.at + 1]
      BY <1>s, <2>1 DEF Advance
    <3> QED BY <1>s, <2>1, <3>1
  <2>2. CleanupSkips => Quiet
    BY <2>1 DEF CleanupSkips
  <2>3. (\E h \in HttpServers : ShutdownHttp(h)) => Quiet
    BY <2>1 DEF ShutdownHttp, AtCleanup
  <2>4. CloseListeners("smtp") \/ CloseListeners("imap") => Quiet
    BY <2>1 DEF CloseListeners, AtCleanup
  <2>5. WorkerExits => Quiet
    BY <1>s DEF WorkerExits
  <2>6. StopEngine \/ CloseStore => Quiet
    BY <2>1 DEF StopEngine, CloseStore, AtCleanup
  <2>7. Return => Quiet
    BY DEF Return
  <2> QED BY <2>2, <2>3, <2>4, <2>5, <2>6, <2>7 DEF CleaningUp
<1>7. CommandEnds \/ ProcessEnds => Quiet
  <2>1. "serve" \in Migrators /\ "command" \in Migrators
    BY DEF Migrators
  <2>2. CommandEnds => Quiet
    BY <1>s, <2>1 DEF CommandEnds
  <2>3. ProcessEnds => Quiet
    <3>1. ProcessEnds => UNCHANGED schema /\ \E m \in Migrators : migrator' = [migrator EXCEPT ![m] = NoMigrator]
      BY <2>1, Zenon DEF ProcessEnds
    <3>2. ProcessEnds => serve' = [pc |-> "stopped", at |-> 0]
      BY DEF ProcessEnds, Stopped
    <3> QED BY <3>1, <3>2
  <2> QED BY <2>2, <2>3
<1>8. (\E h \in HttpServers : HttpStart(h)) \/ UNCHANGED lifeVars => Quiet
  BY <1>s DEF HttpStart, lifeVars
<1> HIDE DEF Quiet
<1>9. Quiet => MigrationInv'
  BY <1>3 DEF Quiet
<1> QED BY <1>1, <1>2, <1>5, <1>6, <1>7, <1>8, <1>9 DEF LifeNext

(* Whoever runs Migrate, and whoever is killed or fails while it does, every
   migration is committed once and after those before it, and the server goes
   on only with the whole schema, for any number of migrations.              *)
THEOREM MigrationsOnce == LifeSpec => []MigratedOnce
<1>1. MigrationInv => MigratedOnce
  BY LifeAssumption DEF MigrationInv, MigratedOnce, Prefix
<1> QED BY <1>1, MigrationInit, MigrationStep, PTL DEF LifeSpec

-----------------------------------------------------------------------------
(* The life of the process: what it holds open.                              *)

ImapListeners == {"listen imap", "listen imaps"}
SmtpListeners == {"listen mx", "listen submission", "listen smtps"}

ImapListens(o) == o \intersect ImapListeners # {}
SmtpListens(o) == o \intersect SmtpListeners # {}
Known(o) == o \subseteq {"db", "queue", "autodiscover"} \union ImapListeners \union SmtpListeners

(* For a server in phase p at position i, with the resources o open, t tracked
   and w workers.  cleanup knows the owner of whatever is open: *)
Owned(o, t, w) ==
  /\ "db" \in o => "db" \in t
  /\ "queue" \in o => "queue" \in t
  /\ ImapListens(o) => "imap" \in t
  /\ SmtpListens(o) => "smtp" \in t
  /\ w > 0 => "engine" \in t

(* what a server that starts has opened, step by step: *)
OpenedSoFar(i, o, t, w) ==
  /\ i >= 1 /\ i <= 18
  /\ i >= 2 => "db" \in o
  /\ i >= 6 => "queue" \in o
  /\ i >= 8 => "imap" \in t
  /\ i >= 10 => "smtp" \in t
  /\ i <= 6 => w = 0
  /\ i <= 9 => ~ImapListens(o) /\ ~SmtpListens(o)

(* what cleanup has closed, step by step: *)
ClosedSoFar(i, o, w) ==
  /\ i >= 1 /\ i <= 8
  /\ i >= 4 => ~SmtpListens(o)
  /\ i >= 5 => ~ImapListens(o)
  /\ i >= 6 => w = 0
  /\ i >= 7 => "queue" \notin o
  /\ i >= 8 => "db" \notin o

(* and the stores are there for their users. *)
StoresThere(o, w) ==
  /\ w > 0 => "queue" \in o
  /\ ImapListens(o) => "db" \in o /\ "queue" \in o
  /\ SmtpListens(o) => "db" \in o /\ "queue" \in o

Held(p, i, o, t, w) ==
  /\ Known(o)
  /\ w \in Nat
  /\ Owned(o, t, w) /\ StoresThere(o, w)
  /\ p = "starting" => OpenedSoFar(i, o, t, w)
  /\ p = "cleaning" => ClosedSoFar(i, o, w)
  /\ p \in {"stopped", "returned"} => o \subseteq {"autodiscover"} /\ w = 0

ResourceInv ==
  /\ serve \in [pc : {"stopped", "starting", "cleaning", "returned"}, at : Int]
  /\ Held(serve.pc, serve.at, open, tracked, workers)

LEMMA ListenersLemma ==
  /\ Listeners = ImapListeners \union SmtpListeners
  /\ ListenersOf["imap"] = ImapListeners /\ ListenersOf["smtp"] = SmtpListeners
BY DEF Listeners, ListenersOf, ImapListeners, SmtpListeners

(* What opening and closing does to what is open. *)
LEMMA OpenLemma ==
  ASSUME NEW o, Known(o)
  PROVE  /\ \A r \in {"db", "queue", "autodiscover"} :
              /\ Known(o \union {r}) /\ Known(o \ {r})
              /\ ImapListens(o \union {r}) = ImapListens(o) /\ ImapListens(o \ {r}) = ImapListens(o)
              /\ SmtpListens(o \union {r}) = SmtpListens(o) /\ SmtpListens(o \ {r}) = SmtpListens(o)
         /\ \A r \in ImapListeners \union SmtpListeners : Known(o \union {r})
         /\ Known(o \ ImapListeners) /\ Known(o \ SmtpListeners)
         /\ ~ImapListens(o \ ImapListeners) /\ SmtpListens(o \ ImapListeners) = SmtpListens(o)
         /\ ~SmtpListens(o \ SmtpListeners) /\ ImapListens(o \ SmtpListeners) = ImapListens(o)
<1>1. \A r \in {"db", "queue", "autodiscover"} : r \notin ImapListeners /\ r \notin SmtpListeners
  BY DEF ImapListeners, SmtpListeners
<1>2. ImapListeners \intersect SmtpListeners = {}
  BY DEF ImapListeners, SmtpListeners
<1>3. \A r \in {"db", "queue", "autodiscover"} :
         /\ Known(o \union {r}) /\ Known(o \ {r})
         /\ ImapListens(o \union {r}) = ImapListens(o) /\ ImapListens(o \ {r}) = ImapListens(o)
         /\ SmtpListens(o \union {r}) = SmtpListens(o) /\ SmtpListens(o \ {r}) = SmtpListens(o)
  <2> TAKE r \in {"db", "queue", "autodiscover"}
  <2>1. Known(o \union {r}) /\ Known(o \ {r})
    BY DEF Known
  <2>2. /\ (o \union {r}) \intersect ImapListeners = o \intersect ImapListeners
        /\ (o \ {r}) \intersect ImapListeners = o \intersect ImapListeners
    BY <1>1
  <2>3. /\ (o \union {r}) \intersect SmtpListeners = o \intersect SmtpListeners
        /\ (o \ {r}) \intersect SmtpListeners = o \intersect SmtpListeners
    BY <1>1
  <2> QED BY <2>1, <2>2, <2>3, Zenon DEF ImapListens, SmtpListens
<1>4. \A r \in ImapListeners \union SmtpListeners : Known(o \union {r})
  BY DEF Known
<1>5. Known(o \ ImapListeners) /\ Known(o \ SmtpListeners)
  BY DEF Known
<1>6. /\ (o \ ImapListeners) \intersect ImapListeners = {}
      /\ (o \ SmtpListeners) \intersect SmtpListeners = {}
      /\ (o \ ImapListeners) \intersect SmtpListeners = o \intersect SmtpListeners
      /\ (o \ SmtpListeners) \intersect ImapListeners = o \intersect ImapListeners
  BY <1>2
<1>7. /\ ~ImapListens(o \ ImapListeners) /\ SmtpListens(o \ ImapListeners) = SmtpListens(o)
      /\ ~SmtpListens(o \ SmtpListeners) /\ ImapListens(o \ SmtpListeners) = ImapListens(o)
  BY <1>6, Zenon DEF ImapListens, SmtpListens
<1> QED BY <1>3, <1>4, <1>5, <1>7, Zenon

LEMMA ResourceInit == LifeInit => ResourceInv
BY DEF LifeInit, ResourceInv, Held, Owned, StoresThere, Stopped, Known, ImapListens, SmtpListens

LEMMA ResourceStep == ResourceInv /\ [LifeNext]_lifeVars => ResourceInv'
<1> SUFFICES ASSUME ResourceInv, [LifeNext]_lifeVars
             PROVE  ResourceInv'
  OBVIOUS
<1>h. /\ serve \in [pc : {"stopped", "starting", "cleaning", "returned"}, at : Int]
      /\ Held(serve.pc, serve.at, open, tracked, workers)
      /\ serve.pc = "starting" => serve.at \in 1..18
      /\ serve.pc = "cleaning" => serve.at \in 1..8
  BY DEF ResourceInv, Held, OpenedSoFar, ClosedSoFar
<1>k. Known(open) /\ serve.at \in Int
  BY <1>h DEF Held
(* The position of a step of Startup. *)
<1>p. ASSUME NEW step, AtStep(step)
      PROVE  serve.pc = "starting" /\ serve.at \in 1..18 /\ Startup[serve.at] = step
  BY <1>h, <1>p DEF AtStep
<1>g. ASSUME NEW p \in {"stopped", "starting", "cleaning", "returned"}, NEW i \in Int,
             serve' = [pc |-> p, at |-> i], Held(p, i, open', tracked', workers')
      PROVE  ResourceInv'
  BY <1>g DEF ResourceInv
<1>a. ASSUME serve.pc = "starting", Advance
      PROVE  serve' = [pc |-> "starting", at |-> serve.at + 1]
  BY <1>a, <1>h DEF Advance
<1>c. ASSUME serve.pc = "cleaning", Advance
      PROVE  serve' = [pc |-> "cleaning", at |-> serve.at + 1]
  BY <1>c, <1>h DEF Advance
<1>0. ASSUME UNCHANGED <<serve, open, tracked, workers>>
      PROVE  ResourceInv'
  BY <1>0 DEF ResourceInv
<1>1. ASSUME BeginCleanup, UNCHANGED <<open, tracked, workers>>
      PROVE  ResourceInv'
  <2>1. Held("cleaning", 1, open', tracked', workers')
    BY <1>1, <1>h DEF Held, ClosedSoFar
  <2> QED BY <1>1, <1>g, <2>1 DEF BeginCleanup
<1>2. CASE StartServe
  <2>1. /\ serve' = [pc |-> "starting", at |-> 1] /\ serve.pc = "stopped"
        /\ UNCHANGED <<open, tracked, workers>>
    BY <1>2, <1>a, <1>c, <1>h, StartupPosition, CleanupPosition DEF StartServe, Stopped
  <2>2. Held("starting", 1, open', tracked', workers')
    BY <1>h, <2>1 DEF Held, Owned, OpenedSoFar, StoresThere
  <2> QED BY <1>g, <2>1, <2>2
<1>3. CASE OpenStore /\ AtStep("db")
  <2>1. /\ serve.pc = "starting" /\ serve.at = 1 /\ serve' = [pc |-> "starting", at |-> 2]
        /\ UNCHANGED workers /\ open' = open \union {"db"} /\ tracked' = tracked \union {"db"}
    <3>1. serve.pc = "starting" /\ serve.at = 1 /\ Startup[serve.at] = "db"
      <4>1. serve.pc = "starting" /\ serve.at \in 1..18 /\ Startup[serve.at] = "db"
        BY <1>3, <1>p
      <4> QED BY <4>1, StartupPosition
    <3>2. serve' = [pc |-> "starting", at |-> 2]
      BY <1>3, <1>a, <3>1 DEF OpenStore
    <3> QED BY <1>3, <3>1, <3>2 DEF OpenStore
  <2>3. /\ Known(open') /\ ImapListens(open') = ImapListens(open) /\ SmtpListens(open') = SmtpListens(open)
    BY <1>k, <2>1, OpenLemma
  <2>2. Held("starting", 2, open', tracked', workers')
    BY <1>h, <2>1, <2>3 DEF Held, Owned, OpenedSoFar, StoresThere
  <2>4. serve' = [pc |-> "starting", at |-> 2]
    BY <2>1
  <2> QED BY <1>g, <2>2, <2>4
<1>4. CASE OpenStore /\ AtStep("queue")
  <2>1. /\ serve.pc = "starting" /\ serve.at = 5 /\ serve' = [pc |-> "starting", at |-> 6]
        /\ UNCHANGED workers /\ open' = open \union {"queue"} /\ tracked' = tracked \union {"queue"}
    <3>1. serve.pc = "starting" /\ serve.at = 5 /\ Startup[serve.at] = "queue"
      <4>1. serve.pc = "starting" /\ serve.at \in 1..18 /\ Startup[serve.at] = "queue"
        BY <1>4, <1>p
      <4> QED BY <4>1, StartupPosition
    <3>2. serve' = [pc |-> "starting", at |-> 6]
      BY <1>4, <1>a, <3>1 DEF OpenStore
    <3> QED BY <1>4, <3>1, <3>2 DEF OpenStore
  <2>3. /\ Known(open') /\ ImapListens(open') = ImapListens(open) /\ SmtpListens(open') = SmtpListens(open)
    BY <1>k, <2>1, OpenLemma
  <2>2. Held("starting", 6, open', tracked', workers')
    BY <1>h, <2>1, <2>3 DEF Held, Owned, OpenedSoFar, StoresThere
  <2>4. serve' = [pc |-> "starting", at |-> 6]
    BY <2>1
  <2> QED BY <1>g, <2>2, <2>4
<1>5. CASE MigrateReturns /\ Advance
  <2>1. /\ serve.pc = "starting" /\ serve.at = 2 /\ serve' = [pc |-> "starting", at |-> 3]
        /\ UNCHANGED <<open, tracked, workers>>
    <3>1. serve.pc = "starting" /\ serve.at = 2
      <4>1. serve.pc = "starting" /\ serve.at \in 1..18 /\ Startup[serve.at] = "migrate"
        BY <1>5, <1>p DEF MigrateReturns
      <4> QED BY <4>1, StartupPosition
    <3>2. serve' = [pc |-> "starting", at |-> 3]
      BY <1>5, <1>a, <3>1
    <3> QED BY <1>5, <3>1, <3>2 DEF MigrateReturns
  <2>2. Held("starting", 3, open', tracked', workers')
    BY <1>h, <2>1 DEF Held, Owned, OpenedSoFar, StoresThere
  <2> QED BY <1>g, <2>1, <2>2
<1>6. CASE MakeServer
  <2>1. /\ serve.pc = "starting" /\ serve.at \in {3, 4, 7, 8, 9} /\ UNCHANGED <<open, workers>>
        /\ serve' = [pc |-> "starting", at |-> serve.at + 1]
        /\ tracked' = tracked \union ({Startup[serve.at]} \intersect Resources)
    BY <1>6, <1>a, <1>h, StartupPosition DEF MakeServer, AtStep
  <2>2. /\ tracked \subseteq tracked'
        /\ (serve.at = 7 => "imap" \in tracked') /\ (serve.at = 9 => "smtp" \in tracked')
    BY <2>1, StartupAt DEF Resources
  <2>3. Held("starting", serve.at + 1, open', tracked', workers')
    BY <1>h, <2>1, <2>2 DEF Held, Owned, OpenedSoFar, StoresThere
  <2> QED BY <1>g, <1>h, <2>1, <2>3
<1>7. CASE StartEngine
  <2>1. /\ serve.pc = "starting" /\ serve.at = 6 /\ serve' = [pc |-> "starting", at |-> 7]
        /\ UNCHANGED open /\ tracked' = tracked \union {"engine"} /\ workers' \in Nat
    <3>1. serve.pc = "starting" /\ serve.at = 6
      <4>1. serve.pc = "starting" /\ serve.at \in 1..18 /\ Startup[serve.at] = "engine"
        BY <1>7, <1>p DEF StartEngine
      <4> QED BY <4>1, StartupPosition
    <3>2. serve' = [pc |-> "starting", at |-> 7]
      BY <1>7, <1>a, <3>1 DEF StartEngine
    <3> QED BY <1>7, <3>1, <3>2, LifeAssumption DEF StartEngine
  <2>2. Held("starting", 7, open', tracked', workers')
    BY <1>h, <2>1 DEF Held, Owned, OpenedSoFar, StoresThere
  <2> QED BY <1>g, <2>1, <2>2
<1>8. CASE Listen
  <2>1. serve.pc = "starting" /\ Startup[serve.at] \in ImapListeners \union SmtpListeners
    BY <1>8, ListenersLemma DEF Listen
  <2>2. serve.at >= 10 /\ serve.at <= 14
    <3>1. serve.at \in 1..18
      BY <1>h, <2>1
    <3>2. Startup[serve.at] \in {"listen imap", "listen imaps", "listen mx", "listen submission", "listen smtps"}
      BY <2>1 DEF ImapListeners, SmtpListeners
    <3> QED BY <3>1, <3>2, StartupPosition
  <2>3. /\ serve' = [pc |-> "starting", at |-> serve.at + 1] /\ UNCHANGED <<tracked, workers>>
        /\ open' = open \/ open' = open \union {Startup[serve.at]}
    BY <1>8, <1>a, <2>1 DEF Listen
  <2>4. Held("starting", serve.at + 1, open', tracked', workers')
    <3>1. Owned(open', tracked', workers') /\ StoresThere(open', workers')
      BY <1>h, <2>1, <2>2, <2>3 DEF Held, Owned, OpenedSoFar, StoresThere
    <3>2. OpenedSoFar(serve.at + 1, open', tracked', workers')
      BY <1>h, <2>1, <2>2, <2>3 DEF Held, OpenedSoFar
    <3>3. Known(open') /\ workers' \in Nat
      <4>1. \A r \in ImapListeners \union SmtpListeners : Known(open \union {r})
        BY <1>k, OpenLemma
      <4> QED BY <1>h, <1>k, <2>1, <2>3, <4>1 DEF Held
    <3> QED BY <3>1, <3>2, <3>3 DEF Held
  <2> QED BY <1>g, <1>h, <2>3, <2>4
<1>9. CASE SpawnHttp
  <2>0. serve.pc = "starting" /\ serve.at >= 15 /\ serve.at <= 16
    <3>1. serve.pc = "starting" /\ serve.at \in 1..18 /\ Startup[serve.at] \in {"dav", "admin"}
      BY <1>9, <1>h DEF SpawnHttp, HttpServers
    <3> QED BY <3>1, StartupPosition
  <2>1. /\ serve.pc = "starting" /\ serve.at >= 15 /\ serve.at <= 16 /\ UNCHANGED <<open, workers>>
        /\ serve' = [pc |-> "starting", at |-> serve.at + 1] /\ tracked \subseteq tracked'
    BY <1>9, <1>a, <2>0 DEF SpawnHttp
  <2>2. Held("starting", serve.at + 1, open', tracked', workers')
    BY <1>h, <2>1 DEF Held, Owned, OpenedSoFar, StoresThere
  <2> QED BY <1>g, <1>k, <2>1, <2>2
<1>10. CASE SpawnAutodiscover
  <2>1. /\ serve.pc = "starting" /\ serve.at = 17
        /\ serve' = [pc |-> "starting", at |-> 18] /\ UNCHANGED <<tracked, workers>>
        /\ open' = open \/ open' = open \union {"autodiscover"}
    <3>1. serve.pc = "starting" /\ serve.at = 17
      <4>1. serve.pc = "starting" /\ serve.at \in 1..18 /\ Startup[serve.at] = "autodiscover"
        BY <1>10, <1>p DEF SpawnAutodiscover
      <4> QED BY <4>1, StartupPosition
    <3>2. serve' = [pc |-> "starting", at |-> 18]
      BY <1>10, <1>a, <3>1 DEF SpawnAutodiscover
    <3> QED BY <1>10, <3>1, <3>2 DEF SpawnAutodiscover
  <2>3. /\ Known(open') /\ ImapListens(open') = ImapListens(open) /\ SmtpListens(open') = SmtpListens(open)
    BY <1>k, <2>1, OpenLemma
  <2>2. Held("starting", 18, open', tracked', workers')
    BY <1>h, <2>1, <2>3 DEF Held, Owned, OpenedSoFar, StoresThere
  <2> QED BY <1>g, <2>1, <2>2
<1>11. CASE StepFails \/ PanicOrSignal \/ (MigrateReturns /\ BeginCleanup)
  BY <1>1, <1>11 DEF StepFails, PanicOrSignal, MigrateReturns
<1>12. CASE CleanupSkips
  <2>1. /\ serve.pc = "cleaning" /\ serve.at \in 1..7 /\ Cleanup[serve.at] \notin tracked
        /\ serve' = [pc |-> "cleaning", at |-> serve.at + 1] /\ UNCHANGED <<open, tracked, workers>>
    BY <1>12, <1>c, <1>h, CleanupAt DEF CleanupSkips
  <2>2. /\ serve.at = 3 => "smtp" \notin tracked
        /\ serve.at = 4 => "imap" \notin tracked
        /\ serve.at = 5 => "engine" \notin tracked
        /\ serve.at = 6 => "queue" \notin tracked
        /\ serve.at = 7 => "db" \notin tracked
    BY <2>1, CleanupAt
  <2>3. Held("cleaning", serve.at + 1, open', tracked', workers')
    BY <1>h, <2>1, <2>2 DEF Held, Owned, ClosedSoFar
  <2> QED BY <1>g, <1>h, <2>1, <2>3
<1>13. ASSUME NEW h \in HttpServers, ShutdownHttp(h)
       PROVE  ResourceInv'
  <2>1. /\ serve.pc = "cleaning" /\ serve.at \in {1, 2}
        /\ serve' = [pc |-> "cleaning", at |-> serve.at + 1] /\ UNCHANGED <<open, tracked, workers>>
    BY <1>13, <1>c, <1>h, CleanupPosition DEF ShutdownHttp, AtCleanup, HttpServers
  <2>2. Held("cleaning", serve.at + 1, open', tracked', workers')
    BY <1>h, <2>1 DEF Held, ClosedSoFar
  <2> QED BY <1>g, <2>1, <2>2
<1>14. CASE CloseListeners("smtp")
  <2>1. /\ serve.pc = "cleaning" /\ serve.at = 3 /\ serve' = [pc |-> "cleaning", at |-> 4]
        /\ open' = open \ SmtpListeners /\ UNCHANGED <<tracked, workers>>
    BY <1>14, <1>c, <1>h, CleanupPosition, ListenersLemma DEF CloseListeners, AtCleanup
  <2>3. /\ Known(open') /\ (\A r \in {"db", "queue"} : r \in open' <=> r \in open)
        /\ ImapListens(open') => ImapListens(open)
        /\ SmtpListens(open') => SmtpListens(open)
    BY <1>k, <2>1, OpenLemma DEF ImapListeners, SmtpListeners
  <2>4. ~SmtpListens(open')
    BY <1>k, <2>1, OpenLemma
  <2>2. Held("cleaning", 4, open', tracked', workers')
    BY <1>h, <2>1, <2>3, <2>4 DEF Held, Owned, ClosedSoFar, StoresThere
  <2> QED BY <1>g, <2>1, <2>2
<1>15. CASE CloseListeners("imap")
  <2>1. /\ serve.pc = "cleaning" /\ serve.at = 4 /\ serve' = [pc |-> "cleaning", at |-> 5]
        /\ open' = open \ ImapListeners /\ UNCHANGED <<tracked, workers>>
    BY <1>15, <1>c, <1>h, CleanupPosition, ListenersLemma DEF CloseListeners, AtCleanup
  <2>3. /\ Known(open') /\ (\A r \in {"db", "queue"} : r \in open' <=> r \in open)
        /\ ImapListens(open') => ImapListens(open)
        /\ SmtpListens(open') => SmtpListens(open)
    BY <1>k, <2>1, OpenLemma DEF ImapListeners, SmtpListeners
  <2>4. ~ImapListens(open')
    BY <1>k, <2>1, OpenLemma
  <2>2. Held("cleaning", 5, open', tracked', workers')
    BY <1>h, <2>1, <2>3, <2>4 DEF Held, Owned, ClosedSoFar, StoresThere
  <2> QED BY <1>g, <2>1, <2>2
<1>16. CASE WorkerExits
  <2>1. /\ serve.pc = "cleaning" /\ serve.at = 5 /\ workers > 0 /\ workers' = workers - 1
        /\ UNCHANGED <<serve, open, tracked>>
    BY <1>16, <1>h, CleanupPosition DEF WorkerExits, AtCleanup
  <2>2. Held(serve.pc, serve.at, open', tracked', workers')
    BY <1>h, <2>1 DEF Held, Owned, ClosedSoFar, StoresThere
  <2> QED BY <1>h, <2>1, <2>2 DEF ResourceInv
<1>17. CASE StopEngine
  <2>1. /\ serve.pc = "cleaning" /\ serve.at = 5 /\ serve' = [pc |-> "cleaning", at |-> 6]
        /\ workers = 0 /\ UNCHANGED <<open, tracked, workers>>
    BY <1>17, <1>c, <1>h, CleanupPosition DEF StopEngine, AtCleanup
  <2>2. Held("cleaning", 6, open', tracked', workers')
    BY <1>h, <2>1 DEF Held, Owned, ClosedSoFar, StoresThere
  <2> QED BY <1>g, <2>1, <2>2
<1>18. CASE CloseStore
  <2>1. CASE AtCleanup("queue") /\ open' = open \ {"queue"}
    <3>1. /\ serve.pc = "cleaning" /\ serve.at = 6 /\ serve' = [pc |-> "cleaning", at |-> 7]
          /\ UNCHANGED <<tracked, workers>>
      BY <1>18, <1>c, <1>h, <2>1, CleanupPosition DEF CloseStore, AtCleanup
    <3>3. /\ Known(open') /\ ImapListens(open') = ImapListens(open) /\ SmtpListens(open') = SmtpListens(open)
      BY <1>k, <2>1, OpenLemma
    <3>2. Held("cleaning", 7, open', tracked', workers')
      BY <1>h, <2>1, <3>1, <3>3 DEF Held, Owned, ClosedSoFar, StoresThere
    <3> QED BY <1>g, <3>1, <3>2
  <2>2. CASE AtCleanup("db") /\ open' = open \ {"db"}
    <3>1. /\ serve.pc = "cleaning" /\ serve.at = 7 /\ serve' = [pc |-> "cleaning", at |-> 8]
          /\ UNCHANGED <<tracked, workers>>
      BY <1>18, <1>c, <1>h, <2>2, CleanupPosition DEF CloseStore, AtCleanup
    <3>3. /\ Known(open') /\ ImapListens(open') = ImapListens(open) /\ SmtpListens(open') = SmtpListens(open)
      BY <1>k, <2>2, OpenLemma
    <3>2. Held("cleaning", 8, open', tracked', workers')
      BY <1>h, <2>2, <3>1, <3>3 DEF Held, Owned, ClosedSoFar, StoresThere
    <3> QED BY <1>g, <3>1, <3>2
  <2> QED BY <1>18, <2>1, <2>2 DEF CloseStore
<1>19. CASE Return
  <2>1. /\ serve.pc = "cleaning" /\ serve.at = 8 /\ serve' = [pc |-> "returned", at |-> 0]
        /\ UNCHANGED <<open, tracked, workers>>
    BY <1>19, <1>h, CleanupAt DEF Return
  <2>2. Held("returned", 0, open', tracked', workers')
    <3>1. open \subseteq {"autodiscover"} /\ workers = 0
      BY <1>h, <2>1 DEF Held, ClosedSoFar, Known, ImapListens, SmtpListens
    <3> QED BY <1>h, <2>1, <3>1 DEF Held
  <2> QED BY <1>g, <2>1, <2>2
<1>20. CASE ProcessEnds
  <2>1. /\ serve' = [pc |-> "stopped", at |-> 0] /\ open' = {} /\ tracked' = {} /\ workers' = 0
    BY <1>20 DEF ProcessEnds, Stopped
  <2>2. Held("stopped", 0, open', tracked', workers')
    BY <2>1 DEF Held, Owned, StoresThere, Known, ImapListens, SmtpListens
  <2> QED BY <1>g, <2>1, <2>2
<1>21. CASE CommandEnds \/ (\E h \in HttpServers : HttpStart(h)) \/ UNCHANGED lifeVars
  BY <1>0, <1>21 DEF CommandEnds, HttpStart, lifeVars
<1>22. CASE \E m \in Migrators : GetSchemaVersion(m) \/ ApplyMigration(m)
  BY <1>0, <1>22 DEF GetSchemaVersion, ApplyMigration
<1>23. CASE Starting
  BY <1>2, <1>3, <1>4, <1>5, <1>6, <1>7, <1>8, <1>9, <1>10, <1>11, <1>23
     DEF Starting, OpenStore, MigrateReturns
<1>24. CASE CleaningUp
  BY <1>12, <1>13, <1>14, <1>15, <1>16, <1>17, <1>18, <1>19, <1>24 DEF CleaningUp
<1> QED BY <1>20, <1>21, <1>22, <1>23, <1>24 DEF LifeNext

(* serveCmd returns with nothing of its own open, whichever of its steps failed,
   panicked or was interrupted, for any number of delivery workers.          *)
THEOREM CleanupComplete == LifeSpec => []ReturnsWithNothingOpen
<1>1. ResourceInv => ReturnsWithNothingOpen
  BY DEF ResourceInv, Held, ReturnsWithNothingOpen
<1> QED BY <1>1, ResourceInit, ResourceStep, PTL DEF LifeSpec

(* A worker has its queue, and a listener the database and the queue, from the
   first accepted connection to the last, while cleanup closes them in turn. *)
THEOREM StoresOutlive == LifeSpec => []StoresOutliveUsers
<1>1. ResourceInv => StoresOutliveUsers
  BY ListenersLemma DEF ResourceInv, Held, StoresThere, StoresOutliveUsers, ImapListens, SmtpListens
<1> QED BY <1>1, ResourceInit, ResourceStep, PTL DEF LifeSpec

-----------------------------------------------------------------------------
(* The views of IMAP sessions.                                               *)

ViewRecord == [pc : {"idle", "lookup", "create", "join", "watching"},
               tracker : ImapSessions \union {NoTracker},
               queue : Seq(Nat), told : Nat, joined : Nat]
NotifyRecord == [pc : {"idle", "notify", "count", "queue"}, append : Nat,
                 tracker : ImapSessions \union {NoTracker}, count : Nat, read : Nat]

(* The types, without the bounds that ViewTypeOK has besides. *)
ViewTyped ==
  /\ messages \in Nat /\ appended \in Nat /\ announced \in Nat
  /\ tracker \in ImapSessions \union {NoTracker}
  /\ view \in [ImapSessions -> ViewRecord]
  /\ notify \in [Appenders -> NotifyRecord]

(* Once there is a tracker it is the only one: who has found or made it, to watch
   or to notify, has this one.                                               *)
OneTracker ==
  /\ \A s \in ImapSessions :
       view[s].pc \in {"join", "watching"} => tracker # NoTracker /\ view[s].tracker = tracker
  /\ \A a \in Appenders :
       notify[a].pc \in {"count", "queue"} => tracker # NoTracker /\ notify[a].tracker = tracker

(* A count that an append will queue was read after its message was stored. *)
CountIncludes ==
  \A a \in Appenders :
    /\ notify[a].append <= appended
    /\ notify[a].pc = "queue" => notify[a].read >= notify[a].append

Told(s, k) ==
  \/ view[s].told >= k \/ k \in unannounced
  \/ \E i \in DOMAIN view[s].queue : view[s].queue[i] >= k
  \/ \E a \in Appenders : notify[a].pc # "idle" /\ notify[a].append = k

Watches(s, k) == view[s].pc = "watching" /\ view[s].joined < k

ViewInv == ViewTyped /\ OneTracker /\ CountIncludes /\ WatcherIsTold

-----------------------------------------------------------------------------
LEMMA MaxOfTwo ==
  ASSUME NEW a \in Nat, NEW b \in Nat
  PROVE  Max({a, b}) \in Nat /\ Max({a, b}) \in {a, b} /\ Max({a, b}) >= a /\ Max({a, b}) >= b
<1> DEFINE S == {a, b}
<1>1. \E m \in S : \A y \in S : m >= y
  OBVIOUS
<1>2. Max(S) \in S /\ \A y \in S : Max(S) >= y
  <2> HIDE DEF S
  <2> QED BY <1>1, Zenon DEF Max
<1> QED BY <1>2

LEMMA ViewInvInit == ViewInit => ViewInv
<1> SUFFICES ASSUME ViewInit
             PROVE  ViewInv
  OBVIOUS
<1>1. NoView \in ViewRecord /\ NoNotify \in NotifyRecord
  BY DEF NoView, NoNotify, ViewRecord, NotifyRecord
<1> QED BY <1>1 DEF ViewInit, ViewInv, ViewTyped, OneTracker, CountIncludes, WatcherIsTold, NoView, NoNotify

(* The types hold after every step. *)
LEMMA ViewTypedStep == ViewInv /\ [ViewNext]_viewVars => ViewTyped'
<1> SUFFICES ASSUME ViewInv, [ViewNext]_viewVars
             PROVE  ViewTyped'
  OBVIOUS
<1> USE DEF ViewInv, ViewTyped
<1>1. NoView \in ViewRecord /\ NoNotify \in NotifyRecord
  BY DEF NoView, NoNotify, ViewRecord, NotifyRecord
<1>2. ASSUME NEW s \in ImapSessions, Select(s)
      PROVE  ViewTyped'
  <2>1. [NoView EXCEPT !.pc = "lookup", !.told = appended] \in ViewRecord
    BY <1>1 DEF ViewRecord
  <2> QED BY <1>2, <2>1 DEF Select, SetView
<1>3. ASSUME NEW s \in ImapSessions, LookupTracker(s)
      PROVE  ViewTyped'
  BY <1>3 DEF LookupTracker, SetView, ViewRecord
<1>4. ASSUME NEW s \in ImapSessions, CreateTracker(s)
      PROVE  ViewTyped'
  BY <1>4 DEF CreateTracker, SetView, ViewRecord
<1>5. ASSUME NEW s \in ImapSessions, JoinTracker(s)
      PROVE  ViewTyped'
  BY <1>5 DEF JoinTracker, SetView, ViewRecord
<1>6. ASSUME NEW s \in ImapSessions, Unselect(s)
      PROVE  ViewTyped'
  BY <1>1, <1>6 DEF Unselect, SetView
<1>7. ASSUME NEW s \in ImapSessions, Poll(s)
      PROVE  ViewTyped'
  <2>1. view[s].queue \in Seq(Nat) /\ view[s].queue # <<>> /\ view[s].told \in Nat
    BY <1>7 DEF Poll, ViewRecord
  <2>2. Head(view[s].queue) \in Nat /\ Tail(view[s].queue) \in Seq(Nat)
    BY <2>1
  <2>3. Max({view[s].told, Head(view[s].queue)}) \in Nat
    BY <2>1, <2>2, MaxOfTwo
  <2> DEFINE v == [view[s] EXCEPT !.queue = Tail(@), !.told = Max({@, Head(view[s].queue)})]
  <2>4. v \in ViewRecord
    BY <2>2, <2>3 DEF ViewRecord
  <2>5. view' = [view EXCEPT ![s] = v]
    BY <1>7 DEF Poll, SetView
  <2> HIDE DEF v
  <2> QED BY <1>7, <2>4, <2>5 DEF Poll
<1>8. ASSUME NEW a \in Appenders, StoreMessage(a)
      PROVE  ViewTyped'
  <2>1. appended' \in Nat
    BY <1>8 DEF StoreMessage
  <2>2. [NoNotify EXCEPT !.pc = "notify", !.append = appended'] \in NotifyRecord
    BY <1>1, <2>1 DEF NotifyRecord
  <2> QED BY <1>8, <2>1, <2>2 DEF StoreMessage, SetNotify
<1>9. ASSUME NEW a \in Appenders, FindTracker(a)
      PROVE  ViewTyped'
  BY <1>1, <1>9 DEF FindTracker, SetNotify, NotifyRecord
<1>10. ASSUME NEW a \in Appenders, CountMessages(a)
       PROVE  ViewTyped'
  <2>1. [notify[a] EXCEPT !.pc = "queue", !.count = messages, !.read = appended] \in NotifyRecord
    BY DEF NotifyRecord
  <2> QED BY <1>1, <1>10, <2>1 DEF CountMessages, SetNotify
<1>11. ASSUME NEW a \in Appenders, QueueCount(a)
       PROVE  ViewTyped'
  <2> DEFINE n == notify[a]
  <2>1. n.count \in Nat /\ n.read \in Nat
    BY DEF NotifyRecord
  <2>2. announced' \in Nat
    BY <1>11, <2>1, MaxOfTwo DEF QueueCount
  <2>3. ASSUME NEW s \in ImapSessions
        PROVE  [view[s] EXCEPT !.queue = Append(@, n.read)] \in ViewRecord
    <3>1. Append(view[s].queue, n.read) \in Seq(Nat)
      BY <2>1 DEF ViewRecord
    <3> QED BY <3>1 DEF ViewRecord
  <2>4. view' \in [ImapSessions -> ViewRecord]
    BY <1>11, <2>3 DEF QueueCount
  <2>5. notify' \in [Appenders -> NotifyRecord]
    BY <1>1, <1>11 DEF QueueCount, SetNotify
  <2> QED BY <1>11, <2>2, <2>4, <2>5 DEF QueueCount
<1>12. CASE ExpungeRow
  BY <1>12 DEF ExpungeRow
<1>13. CASE UNCHANGED viewVars
  BY <1>13 DEF viewVars
<1> QED BY <1>2, <1>3, <1>4, <1>5, <1>6, <1>7, <1>8, <1>9, <1>10, <1>11, <1>12, <1>13
        DEF ViewNext, Selecting, Notifying

(* No step makes a second tracker, and a count is read after the message. *)
LEMMA TrackerStep == ViewInv /\ [ViewNext]_viewVars => OneTracker' /\ CountIncludes'
<1> SUFFICES ASSUME ViewInv, [ViewNext]_viewVars
             PROVE  OneTracker' /\ CountIncludes'
  OBVIOUS
<1> USE DEF ViewInv, ViewTyped, ViewRecord, NotifyRecord, OneTracker, CountIncludes
<1>1. ASSUME NEW s \in ImapSessions, Select(s)
      PROVE  OneTracker' /\ CountIncludes'
  BY <1>1 DEF Select, SetView, NoView
<1>2. ASSUME NEW s \in ImapSessions, LookupTracker(s)
      PROVE  OneTracker' /\ CountIncludes'
  BY <1>2 DEF LookupTracker, SetView
<1>3. ASSUME NEW s \in ImapSessions, CreateTracker(s)
      PROVE  OneTracker' /\ CountIncludes'
  BY <1>3, ViewAssumption DEF CreateTracker, SetView
<1>4. ASSUME NEW s \in ImapSessions, JoinTracker(s)
      PROVE  OneTracker' /\ CountIncludes'
  BY <1>4 DEF JoinTracker, SetView
<1>5. ASSUME NEW s \in ImapSessions, Unselect(s)
      PROVE  OneTracker' /\ CountIncludes'
  BY <1>5 DEF Unselect, SetView, NoView
<1>6. ASSUME NEW s \in ImapSessions, Poll(s)
      PROVE  OneTracker' /\ CountIncludes'
  BY <1>6 DEF Poll, SetView
<1>7. ASSUME NEW a \in Appenders, StoreMessage(a)
      PROVE  OneTracker' /\ CountIncludes'
  BY <1>7 DEF StoreMessage, SetNotify, NoNotify
<1>8. ASSUME NEW a \in Appenders, FindTracker(a)
      PROVE  OneTracker' /\ CountIncludes'
  BY <1>8 DEF FindTracker, SetNotify, NoNotify
<1>9. ASSUME NEW a \in Appenders, CountMessages(a)
      PROVE  OneTracker' /\ CountIncludes'
  <2>1. CASE notify' = [notify EXCEPT ![a] = NoNotify]
    BY <1>9, <2>1 DEF CountMessages, NoNotify
  <2>2. CASE notify' = [notify EXCEPT ![a] = [notify[a] EXCEPT !.pc = "queue", !.count = messages, !.read = appended]]
    BY <1>9, <2>2 DEF CountMessages
  <2> QED BY <1>9, <2>1, <2>2 DEF CountMessages, SetNotify
<1>10. ASSUME NEW a \in Appenders, QueueCount(a)
       PROVE  OneTracker' /\ CountIncludes'
  BY <1>10 DEF QueueCount, SetNotify, NoNotify
<1>11. CASE ExpungeRow
  BY <1>11 DEF ExpungeRow
<1>12. CASE UNCHANGED viewVars
  BY <1>12 DEF viewVars
<1> QED BY <1>1, <1>2, <1>3, <1>4, <1>5, <1>6, <1>7, <1>8, <1>9, <1>10, <1>11, <1>12
        DEF ViewNext, Selecting, Notifying

(* What a step leaves alone keeps a session told: the session's own state, the
   appends that were given up, and the notifications under way.              *)
LEMMA StillTold ==
  ASSUME NEW s \in ImapSessions, NEW k,
         Told(s, k),
         view'[s].told = view[s].told, view'[s].queue = view[s].queue,
         unannounced \subseteq unannounced',
         \A a \in Appenders : notify[a].pc # "idle" /\ notify[a].append = k
                               => notify'[a].pc # "idle" /\ notify'[a].append = k
  PROVE  Told(s, k)'
BY DEF Told

LEMMA ToldStep == ViewInv /\ [ViewNext]_viewVars => WatcherIsTold'
<1> SUFFICES ASSUME ViewInv, [ViewNext]_viewVars,
                    NEW s \in ImapSessions, NEW k \in 1..appended', Watches(s, k)'
             PROVE  Told(s, k)'
  BY DEF WatcherIsTold, Watches, Told
<1> USE DEF ViewInv, ViewTyped, ViewRecord, NotifyRecord, Watches
<1>1. k \in 1..appended /\ Watches(s, k) => Told(s, k)
  BY DEF WatcherIsTold, Told
<1>2. ASSUME NEW t \in ImapSessions, Select(t) \/ LookupTracker(t) \/ CreateTracker(t) \/ Unselect(t)
      PROVE  Told(s, k)'
  <2>1. s # t /\ view'[s] = view[s] /\ appended' = appended
        /\ notify' = notify /\ unannounced' = unannounced
    <3>1. CASE Select(t)
      BY <3>1 DEF Select, SetView, NoView
    <3>2. CASE LookupTracker(t)
      BY <3>2 DEF LookupTracker, SetView
    <3>3. CASE CreateTracker(t)
      BY <3>3 DEF CreateTracker, SetView
    <3>4. CASE Unselect(t)
      BY <3>4 DEF Unselect, SetView, NoView
    <3> QED BY <1>2, <3>1, <3>2, <3>3, <3>4
  <2> QED BY <1>1, <2>1, StillTold
<1>3. ASSUME NEW t \in ImapSessions, JoinTracker(t)
      PROVE  Told(s, k)'
  <2>1. s # t /\ view'[s] = view[s] /\ appended' = appended
        /\ notify' = notify /\ unannounced' = unannounced
    <3>1. view'[t].joined = appended /\ appended' = appended
      BY <1>3 DEF JoinTracker, SetView
    <3>2. s # t
      BY <3>1
    <3> QED BY <1>3, <3>2 DEF JoinTracker, SetView
  <2> QED BY <1>1, <2>1, StillTold
<1>4. ASSUME NEW t \in ImapSessions, Poll(t)
      PROVE  Told(s, k)'
  <2>1. appended' = appended /\ notify' = notify /\ unannounced' = unannounced
    BY <1>4 DEF Poll
  <2>2. CASE s # t
    <3>1. view'[s] = view[s]
      BY <1>4, <2>2 DEF Poll, SetView
    <3> QED BY <1>1, <2>1, <3>1, StillTold
  <2>3. CASE s = t
    <3> DEFINE q == view[s].queue
    <3>1. /\ q \in Seq(Nat) /\ q # <<>> /\ view[s].told \in Nat
          /\ view'[s].queue = Tail(q) /\ view'[s].told = Max({view[s].told, Head(q)})
      BY <1>4, <2>3 DEF Poll, SetView
    <3>2. Head(q) = q[1] /\ Head(q) \in Nat
      BY <3>1
    <3>3. view'[s].told \in Nat /\ view'[s].told >= view[s].told /\ view'[s].told >= q[1]
      BY <3>1, <3>2, MaxOfTwo
    <3>4. Told(s, k)
      BY <1>1, <1>4, <2>1, <2>3 DEF Poll, SetView
    <3>5. CASE view[s].told >= k
      BY <3>1, <3>3, <3>5 DEF Told
    <3>6. ASSUME NEW i \in DOMAIN q, q[i] >= k
          PROVE  Told(s, k)'
      <4>1. i \in 1..Len(q) /\ q[i] \in Nat
        BY <3>1, <3>6
      <4>2. CASE i = 1
        BY <3>2, <3>3, <3>6, <4>2 DEF Told
      <4>3. CASE i # 1
        <5>1. i - 1 \in DOMAIN Tail(q) /\ Tail(q)[i - 1] = q[i]
          BY <3>1, <4>1, <4>3
        <5> QED BY <3>1, <3>6, <5>1 DEF Told
      <4> QED BY <4>2, <4>3
    <3>7. CASE k \in unannounced \/ \E a \in Appenders : notify[a].pc # "idle" /\ notify[a].append = k
      BY <2>1, <3>7 DEF Told
    <3> QED BY <3>4, <3>5, <3>6, <3>7 DEF Told
  <2> QED BY <2>2, <2>3
<1>5. ASSUME NEW a \in Appenders, StoreMessage(a)
      PROVE  Told(s, k)'
  <2>1. /\ view' = view /\ unannounced' = unannounced /\ appended' = appended + 1
        /\ \A b \in Appenders : notify[b].pc # "idle" => notify'[b] = notify[b]
        /\ notify'[a].pc = "notify" /\ notify'[a].append = appended'
    BY <1>5 DEF StoreMessage, SetNotify, NoNotify
  <2>2. CASE k = appended'
    BY <2>1, <2>2 DEF Told
  <2>3. CASE k # appended'
    BY <1>1, <2>1, <2>3, StillTold
  <2> QED BY <2>2, <2>3
<1>6. ASSUME NEW a \in Appenders, FindTracker(a)
      PROVE  Told(s, k)'
  <2>1. view' = view /\ unannounced' = unannounced /\ appended' = appended /\ tracker # NoTracker
    BY <1>6 DEF FindTracker, OneTracker
  <2>2. \A b \in Appenders : notify[b].pc # "idle" =>
          notify'[b].pc # "idle" /\ notify'[b].append = notify[b].append
    BY <1>6, <2>1 DEF FindTracker, SetNotify
  <2> QED BY <1>1, <2>1, <2>2, StillTold
<1>7. ASSUME NEW a \in Appenders, CountMessages(a)
      PROVE  Told(s, k)'
  <2>1. view' = view /\ appended' = appended /\ unannounced \subseteq unannounced'
    BY <1>7 DEF CountMessages
  <2>2. Told(s, k)
    BY <1>1, <2>1
  <2>3. CASE notify' = [notify EXCEPT ![a] = NoNotify] /\ notify[a].append \in unannounced'
    <3>1. CASE k = notify[a].append
      BY <2>3, <3>1 DEF Told
    <3>2. CASE k # notify[a].append
      BY <2>1, <2>2, <2>3, <3>2, StillTold
    <3> QED BY <3>1, <3>2
  <2>4. CASE notify' = [notify EXCEPT ![a] = [notify[a] EXCEPT !.pc = "queue", !.count = messages, !.read = appended]]
    <3>1. \A b \in Appenders : notify[b].pc # "idle" =>
            notify'[b].pc # "idle" /\ notify'[b].append = notify[b].append
      BY <2>4
    <3> QED BY <2>1, <2>2, <3>1, StillTold
  <2> QED BY <1>7, <2>3, <2>4 DEF CountMessages, SetNotify
<1>8. ASSUME NEW a \in Appenders, QueueCount(a)
      PROVE  Told(s, k)'
  <2> DEFINE n == notify[a]
             q == view[s].queue
  <2>1. /\ appended' = appended /\ unannounced \subseteq unannounced'
        /\ n.pc = "queue" /\ notify' = [notify EXCEPT ![a] = NoNotify]
        /\ n.count < announced => n.append \in unannounced'
    BY <1>8 DEF QueueCount, SetNotify
  <2>2. view[s].pc = "watching" /\ view[s].joined < k /\ view'[s].told = view[s].told
    BY <1>8 DEF QueueCount
  <2>3. n.tracker = view[s].tracker
    BY <2>1, <2>2 DEF OneTracker
  <2>4. CASE n.count < announced
    <3>1. view'[s].queue = q
      BY <1>8, <2>4 DEF QueueCount
    <3>2. CASE k = n.append
      BY <2>1, <2>4, <3>2 DEF Told
    <3>3. CASE k # n.append
      <4>1. Told(s, k)
        BY <1>1, <2>1, <2>2
      <4> QED BY <2>1, <2>2, <3>1, <3>3, <4>1, StillTold
    <3> QED BY <3>2, <3>3
  <2>5. CASE n.count >= announced
    <3>1. view'[s].queue = Append(q, n.read) /\ q \in Seq(Nat) /\ n.read \in Nat
      BY <1>8, <2>2, <2>3, <2>5 DEF QueueCount
    <3>2. \A i \in DOMAIN q : i \in DOMAIN view'[s].queue /\ view'[s].queue[i] = q[i]
      BY <3>1
    <3>3. Len(q) + 1 \in DOMAIN view'[s].queue /\ view'[s].queue[Len(q) + 1] = n.read
      BY <3>1
    <3>4. CASE k = n.append
      BY <2>1, <3>3, <3>4 DEF Told, CountIncludes
    <3>5. CASE k # n.append
      <4>1. Told(s, k)
        BY <1>1, <2>1, <2>2
      <4> QED BY <2>1, <2>2, <3>2, <3>5, <4>1 DEF Told
    <3> QED BY <3>4, <3>5
  <2>6. n.count \in Nat
    OBVIOUS
  <2> QED BY <2>4, <2>5, <2>6
<1>9. CASE ExpungeRow \/ UNCHANGED viewVars
  BY <1>1, <1>9, StillTold DEF ExpungeRow, viewVars
<1> QED BY <1>2, <1>3, <1>4, <1>5, <1>6, <1>7, <1>8, <1>9
        DEF ViewNext, Selecting, Notifying

-----------------------------------------------------------------------------
LEMMA ViewInvariant == ViewSpec => []ViewInv
<1>1. ViewInv /\ [ViewNext]_viewVars => ViewInv'
  BY ViewTypedStep, TrackerStep, ToldStep DEF ViewInv
<1> QED BY <1>1, ViewInvInit, PTL DEF ViewSpec

(* GetMailboxTracker (imap/server.go): whichever of several first Selects makes
   the tracker, everyone who watches is on the one notifications go to.      *)
THEOREM AllWatchOneTracker == ViewSpec => []WatchesTheTracker
<1>1. ViewInv => WatchesTheTracker
  BY DEF ViewInv, OneTracker, WatchesTheTracker
<1> QED BY <1>1, ViewInvariant, PTL

(* NotifyMailboxUpdate, Append and Poll: no message stored while a session
   watches is lost between the append and the client.                        *)
THEOREM NoAppendUntold == ViewSpec => []WatcherIsTold
<1>1. ViewInv => WatcherIsTold
  BY DEF ViewInv
<1> QED BY <1>1, ViewInvariant, PTL

-----------------------------------------------------------------------------
(* CalDAV and CardDAV.                                                       *)

DavRecord == [pc : {"idle", "write", "ctag", "reread", "done"}, item : DavItems \union {0},
              cond : {"none", "new", "match", "delete"}, seen : Nat, ctag : Nat,
              replaced : Nat, etag : Nat, reply : Nat]

DavTyped ==
  /\ davTags \in Nat /\ davItem \in [DavItems -> Nat] /\ davCtag \in Nat
  /\ davReq \in [DavReqs -> DavRecord]
  /\ \A r \in DavReqs : davReq[r].pc \in {"write", "ctag", "reread"} => davReq[r].item \in DavItems
  /\ davSync \in [ctag : Nat, items : [DavItems -> Nat], next : Nat]

(* The ctag a request has drawn and not yet written is nobody else's: not the
   collection's, not one the client knows, not another request's.            *)
CtagFresh(r) ==
  /\ davReq[r].ctag # davCtag /\ davReq[r].ctag # davSync.ctag /\ davReq[r].ctag # davSync.next
  /\ davReq[r].ctag > 0 /\ davReq[r].ctag <= davTags
  /\ \A q \in DavReqs \ {r} : DavAt(q, "ctag") => davReq[q].ctag # davReq[r].ctag

CtagsFresh ==
  /\ davCtag <= davTags /\ davSync.ctag <= davTags /\ davSync.next <= davTags
  /\ \A r \in DavReqs : DavAt(r, "ctag") => CtagFresh(r)

(* A client that trusts its ctag wrongly is about to find out. *)
SyncSoon ==
  davSync.ctag # 0 /\ davSync.ctag = davCtag /\ davSync.items # davItem
    => davStale \/ \E r \in DavReqs : DavAt(r, "ctag")

DavInv == DavTyped /\ CtagsFresh /\ SyncSoon /\ CreateNeverReplaces

(* A request that is answered, and one that is read. *)
LEMMA DavAnswered ==
  ASSUME NEW q \in DavRecord, NEW n \in Nat
  PROVE  /\ [q EXCEPT !.pc = "done", !.reply = n] \in DavRecord
         /\ [q EXCEPT !.pc = "done", !.cond = "delete", !.reply = n] \in DavRecord
BY DEF DavRecord

LEMMA DavRead ==
  ASSUME NEW q \in DavRecord, NEW pc \in {"idle", "write", "ctag", "reread", "done"},
         NEW n \in Nat, NEW m \in Nat, NEW i \in DavItems \union {0},
         NEW c \in {"none", "new", "match", "delete"}
  PROVE  [q EXCEPT !.item = i, !.cond = c, !.seen = m, !.pc = pc, !.reply = n] \in DavRecord
BY DEF DavRecord

LEMMA DavInvInit == DavInit => DavInv
<1> SUFFICES ASSUME DavInit PROVE DavInv
  OBVIOUS
<1>1. NoReq \in DavRecord /\ NoReq.pc = "idle" /\ NoReq.replaced = 0
  BY DEF NoReq, DavRecord
<1>2. davSync = [ctag |-> 0, items |-> NoItems, next |-> 0] /\ NoItems \in [DavItems -> Nat]
  BY DEF DavInit, NoItems
<1>3. davReq = [r \in DavReqs |-> NoReq] /\ davTags = 0 /\ davCtag = 0 /\ davItem = NoItems
  BY DEF DavInit
<1>4. DavTyped
  BY <1>1, <1>2, <1>3 DEF DavTyped
<1>5. CtagsFresh /\ SyncSoon /\ CreateNeverReplaces
  BY <1>1, <1>2, <1>3 DEF CtagsFresh, SyncSoon, CreateNeverReplaces, DavAt
<1> QED BY <1>4, <1>5 DEF DavInv

LEMMA DavInvStep == DavInv /\ [DavNext]_davVars => DavInv'
<1> SUFFICES ASSUME DavInv, [DavNext]_davVars
             PROVE  DavInv'
  OBVIOUS
<1> USE DEF DavInv
<1>n. NoReq \in DavRecord /\ NoReq.replaced = 0
  BY DEF NoReq, DavRecord
(* A step that replaces one request. *)
<1>r. ASSUME NEW r \in DavReqs, NEW f \in DavRecord, Request(r, f),
             f.pc \in {"write", "ctag", "reread"} => f.item \in DavItems,
             f.seen = 0 /\ f.cond # "delete" => f.replaced = 0
      PROVE  /\ davReq' \in [DavReqs -> DavRecord] /\ davReq'[r] = f
             /\ \A q \in DavReqs \ {r} : davReq'[q] = davReq[q]
             /\ \A q \in DavReqs : davReq'[q].pc \in {"write", "ctag", "reread"} => davReq'[q].item \in DavItems
             /\ CreateNeverReplaces'
  <2>1. /\ davReq' \in [DavReqs -> DavRecord] /\ davReq'[r] = f
        /\ \A q \in DavReqs \ {r} : davReq'[q] = davReq[q]
    BY <1>r DEF Request, DavTyped
  <2>2. \A q \in DavReqs : davReq'[q].pc \in {"write", "ctag", "reread"} => davReq'[q].item \in DavItems
    BY <1>r, <2>1 DEF DavTyped
  <2>3. CreateNeverReplaces'
    BY <1>r, <2>1 DEF CreateNeverReplaces
  <2> QED BY <2>1, <2>2, <2>3
(* A request that goes on without having written. *)
<1>q. ASSUME NEW r \in DavReqs, NEW f \in DavRecord, Request(r, f),
             f.pc \in {"write", "reread"} => f.item \in DavItems,
             f.seen = 0 /\ f.cond # "delete" => f.replaced = 0,
             f.pc # "ctag",
             UNCHANGED <<davItem, davCtag, davTags, davSync>>,
             davStale => davStale',
             DavAt(r, "ctag") => davStale'
      PROVE  DavInv'
  <2>1. /\ davReq' \in [DavReqs -> DavRecord] /\ davReq'[r] = f
        /\ \A q \in DavReqs \ {r} : davReq'[q] = davReq[q]
        /\ \A q \in DavReqs : davReq'[q].pc \in {"write", "ctag", "reread"} => davReq'[q].item \in DavItems
        /\ CreateNeverReplaces'
    BY <1>r, <1>q
  <2>2. DavTyped'
    BY <1>q, <2>1 DEF DavTyped
  <2>3. CtagsFresh'
    BY <1>q, <2>1 DEF CtagsFresh, CtagFresh, DavAt
  <2>4. SyncSoon'
    BY <1>q, <2>1 DEF SyncSoon, DavAt
  <2> QED BY <2>1, <2>2, <2>3, <2>4
(* A request that has written draws its ctag. *)
<1>w. ASSUME NEW r \in DavReqs, NEW f \in DavRecord, Request(r, f), ~DavAt(r, "ctag"),
             f.pc = "ctag", f.item \in DavItems, f.seen = 0 /\ f.cond # "delete" => f.replaced = 0,
             f.ctag = davTags', davTags' \in Nat, davTags' > davTags,
             davItem' \in [DavItems -> Nat], UNCHANGED <<davCtag, davSync>>
      PROVE  DavInv'
  <2>1. /\ davReq' \in [DavReqs -> DavRecord] /\ davReq'[r] = f
        /\ \A q \in DavReqs \ {r} : davReq'[q] = davReq[q]
        /\ \A q \in DavReqs : davReq'[q].pc \in {"write", "ctag", "reread"} => davReq'[q].item \in DavItems
        /\ CreateNeverReplaces'
    BY <1>r, <1>w
  <2>2. DavTyped'
    BY <1>w, <2>1 DEF DavTyped
  <2>3. CtagsFresh'
    <3>1. davCtag' <= davTags' /\ davSync'.ctag <= davTags' /\ davSync'.next <= davTags'
      BY <1>w DEF CtagsFresh, DavTyped
    <3>2. \A q \in DavReqs \ {r} : DavAt(q, "ctag") => davReq[q].ctag <= davTags /\ davReq[q].ctag \in Nat
      BY DEF CtagsFresh, CtagFresh, DavTyped, DavRecord
    <3>3. CtagFresh(r)'
      BY <1>w, <2>1, <3>2 DEF CtagFresh, CtagsFresh, DavTyped, DavAt
    <3>4. ASSUME NEW q \in DavReqs \ {r}, DavAt(q, "ctag")
          PROVE  CtagFresh(q)'
      <4>1. CtagFresh(q)
        BY <3>4 DEF CtagsFresh
      <4> QED BY <1>w, <2>1, <3>2, <3>4, <4>1 DEF CtagFresh, DavTyped, DavAt
    <3> QED BY <2>1, <3>1, <3>3, <3>4 DEF CtagsFresh, DavAt
  <2>4. SyncSoon'
    BY <1>w, <2>1 DEF SyncSoon, DavAt
  <2> QED BY <2>1, <2>2, <2>3, <2>4
<1>1. CASE MkCollection
  <2>1. DavTyped' /\ CreateNeverReplaces'
    BY <1>1 DEF MkCollection, DavTyped, CreateNeverReplaces
  <2>2. \A r \in DavReqs : DavAt(r, "ctag") => davReq[r].ctag \in Nat /\ davReq[r].ctag <= davTags
    BY DEF CtagsFresh, CtagFresh, DavTyped, DavRecord
  <2>3. CtagsFresh'
    BY <1>1, <2>2 DEF MkCollection, CtagsFresh, CtagFresh, DavTyped, DavAt
  <2>4. SyncSoon'
    BY <1>1 DEF MkCollection, SyncSoon, CtagsFresh, DavTyped
  <2> QED BY <2>1, <2>3, <2>4
<1>2. CASE Propfind
  <2>0. davSync' = [ctag |-> davSync.ctag, items |-> davSync.items, next |-> davCtag]
    BY <1>2 DEF Propfind, DavTyped
  <2>1. DavTyped' /\ CreateNeverReplaces'
    BY <1>2, <2>0 DEF Propfind, DavTyped, CreateNeverReplaces
  <2>2. CtagsFresh'
    BY <1>2, <2>0 DEF Propfind, CtagsFresh, CtagFresh, DavAt
  <2>3. SyncSoon'
    BY <1>2, <2>0 DEF Propfind, SyncSoon, DavAt
  <2> QED BY <2>1, <2>2, <2>3
<1>3. CASE Report
  <2>1. DavTyped' /\ CreateNeverReplaces'
    BY <1>3 DEF Report, DavTyped, CreateNeverReplaces
  <2>2. CtagsFresh'
    <3>1. davSync'.ctag = davSync.next /\ davSync'.next = 0
      BY <1>3 DEF Report
    <3>2. \A r \in DavReqs : DavAt(r, "ctag") => davReq[r].ctag # 0
      BY DEF CtagsFresh, CtagFresh
    <3> QED BY <1>3, <3>1, <3>2 DEF Report, CtagsFresh, CtagFresh, DavAt, DavTyped
  <2>3. SyncSoon'
    BY <1>3 DEF Report, SyncSoon
  <2> QED BY <2>1, <2>2, <2>3
<1>4. ASSUME NEW r \in DavReqs, NEW i \in DavItems, Delete(r, i)
      PROVE  DavInv'
  <2>0. ~DavAt(r, "ctag") /\ davItem[i] \in Nat
    BY <1>4 DEF Delete, DavFree, DavAt, DavTyped
  <2>1. CASE davItem[i] = 0
    <3> DEFINE f == [NoReq EXCEPT !.pc = "done", !.cond = "delete", !.reply = 404]
    <3>1. f \in DavRecord /\ f.pc = "done" /\ f.cond = "delete"
      <4>0. 404 \in Nat
        OBVIOUS
      <4>1. f \in DavRecord
        BY <1>n, <4>0, DavAnswered, Zenon
      <4> QED BY <1>n, <4>1 DEF DavRecord
    <3>2. Request(r, f) /\ UNCHANGED <<davItem, davTags, davCtag, davSync, davStale>>
      BY <1>4, <2>1 DEF Delete
    <3> HIDE DEF f
    <3> QED BY <1>q, <2>0, <3>1, <3>2
  <2>2. CASE davItem[i] # 0
    <3> DEFINE f == [NoReq EXCEPT !.pc = "ctag", !.item = i, !.ctag = davTags + 1,
                       !.cond = "delete", !.replaced = davItem[i]]
    <3>0. davTags + 1 \in Nat
      BY DEF DavTyped
    <3>1. f \in DavRecord /\ f.pc = "ctag" /\ f.cond = "delete" /\ f.item = i /\ f.ctag = davTags + 1
      <4>1. f \in DavRecord
        BY <1>n, <2>0, <3>0 DEF DavRecord
      <4> QED BY <1>n, <2>0, <3>0, <4>1 DEF DavRecord
    <3>2. /\ Request(r, f) /\ davTags' = davTags + 1 /\ UNCHANGED <<davCtag, davSync>>
          /\ davItem' \in [DavItems -> Nat] /\ davTags' \in Nat /\ davTags' > davTags
      BY <1>4, <2>2 DEF Delete, DavTyped
    <3> HIDE DEF f
    <3> QED BY <1>w, <2>0, <3>1, <3>2
  <2> QED BY <2>1, <2>2
<1>5. ASSUME NEW r \in DavReqs, NEW i \in DavItems, NEW cond \in {"none", "new", "match"}, NEW etag,
             PutRead(r, i, cond, etag)
      PROVE  DavInv'
  <2>0. ~DavAt(r, "ctag")
    BY <1>5 DEF PutRead, DavFree, DavAt
  <2>1. PICK seen \in {davItem[i], 0} :
          Request(r, [NoReq EXCEPT !.item = i, !.cond = cond, !.seen = seen,
            !.pc = IF PreconditionFails(cond, etag, seen) THEN "done" ELSE "write",
            !.reply = IF PreconditionFails(cond, etag, seen) THEN 412 ELSE 0])
    BY <1>5 DEF PutRead
  <2> DEFINE f == [NoReq EXCEPT !.item = i, !.cond = cond, !.seen = seen,
                     !.pc = IF PreconditionFails(cond, etag, seen) THEN "done" ELSE "write",
                     !.reply = IF PreconditionFails(cond, etag, seen) THEN 412 ELSE 0]
  <2>2. f \in DavRecord /\ f.pc \in {"done", "write"} /\ f.item = i /\ f.replaced = 0
    <3>1. seen \in Nat
      BY DEF DavTyped
    <3> DEFINE pc == IF PreconditionFails(cond, etag, seen) THEN "done" ELSE "write"
               code == IF PreconditionFails(cond, etag, seen) THEN 412 ELSE 0
    <3>2. /\ pc \in {"idle", "write", "ctag", "reread", "done"} /\ pc \in {"done", "write"} /\ code \in Nat
          /\ i \in DavItems \union {0} /\ cond \in {"none", "new", "match", "delete"}
      OBVIOUS
    <3>3. f = [NoReq EXCEPT !.item = i, !.cond = cond, !.seen = seen, !.pc = pc, !.reply = code]
      OBVIOUS
    <3> HIDE DEF f, pc, code
    <3>4. f \in DavRecord
      BY <1>n, <3>1, <3>2, <3>3, DavRead
    <3> QED BY <1>n, <3>2, <3>3, <3>4 DEF DavRecord
  <2>3. Request(r, f) /\ UNCHANGED <<davItem, davCtag, davTags, davSync, davStale>>
    BY <1>5, <2>1 DEF PutRead
  <2> HIDE DEF f
  <2> QED BY <1>q, <2>0, <2>2, <2>3
<1>6. ASSUME NEW r \in DavReqs, PutWrite(r)
      PROVE  DavInv'
  <2>0. /\ DavAt(r, "write") /\ ~DavAt(r, "ctag") /\ davReq[r] \in DavRecord
        /\ davReq[r].item \in DavItems /\ UNCHANGED <<davCtag, davSync, davFaults, davStale>>
    BY <1>6 DEF PutWrite, DavAt, DavTyped
  <2>1. CASE RowAccepts(r) /\ davItem' = [davItem EXCEPT ![davReq[r].item] = davTags + 1]
             /\ davTags' = davTags + 2
             /\ Request(r, [davReq[r] EXCEPT !.pc = "ctag", !.ctag = davTags + 2,
                              !.replaced = davItem[davReq[r].item]])
    <3> DEFINE f == [davReq[r] EXCEPT !.pc = "ctag", !.ctag = davTags + 2,
                       !.replaced = davItem[davReq[r].item]]
    <3>1. /\ f \in DavRecord /\ f.pc = "ctag" /\ f.item = davReq[r].item /\ f.ctag = davTags + 2
          /\ f.seen = davReq[r].seen /\ f.replaced = davItem[davReq[r].item]
      <4>1. davTags + 2 \in Nat /\ davItem[davReq[r].item] \in Nat
        BY <2>0 DEF DavTyped
      <4>9. f \in DavRecord
        BY <2>0, <4>1 DEF DavRecord
      <4> QED BY <2>0, <4>1, <4>9 DEF DavRecord
    <3>2. f.seen = 0 => f.replaced = 0
      BY <2>1, <3>1 DEF RowAccepts
    <3>3. /\ Request(r, f) /\ davTags' \in Nat /\ davTags' > davTags /\ davTags' = davTags + 2
          /\ davItem' \in [DavItems -> Nat]
      BY <2>0, <2>1 DEF DavTyped
    <3> HIDE DEF f
    <3> QED BY <1>w, <2>0, <3>1, <3>2, <3>3
  <2>2. CASE Respond(r, 500) /\ UNCHANGED <<davItem, davTags>>
    <3> DEFINE f == [davReq[r] EXCEPT !.pc = "done", !.reply = 500]
    <3>1. /\ f \in DavRecord /\ f.pc = "done" /\ f.cond = davReq[r].cond
          /\ f.seen = davReq[r].seen /\ f.replaced = davReq[r].replaced
      <4>0. 500 \in Nat
        OBVIOUS
      <4>1. f \in DavRecord
        BY <2>0, <4>0, DavAnswered, Zenon
      <4> QED BY <2>0, <4>1 DEF DavRecord
    <3>2. Request(r, f)
      BY <2>2 DEF Respond
    <3>3. f.seen = 0 /\ f.cond # "delete" => f.replaced = 0
      BY <3>1 DEF CreateNeverReplaces
    <3> HIDE DEF f
    <3> QED BY <1>q, <2>0, <2>2, <3>1, <3>2, <3>3
  <2> QED BY <1>6, <2>1, <2>2 DEF PutWrite
<1>7. ASSUME NEW r \in DavReqs, UpdateCtag(r)
      PROVE  DavInv'
  <2>0. /\ DavAt(r, "ctag") /\ davReq[r] \in DavRecord /\ davReq[r].item \in DavItems /\ CtagFresh(r)
        /\ UNCHANGED <<davItem, davTags, davSync>>
    BY <1>7 DEF UpdateCtag, DavAt, DavTyped, CtagsFresh
  <2>1. CASE davCtag' = davReq[r].ctag
             /\ Request(r, [davReq[r] EXCEPT !.pc = IF davReq[r].cond = "delete" THEN "done" ELSE "reread",
                              !.ctag = 0, !.reply = 204])
    <3> DEFINE f == [davReq[r] EXCEPT !.pc = IF davReq[r].cond = "delete" THEN "done" ELSE "reread",
                       !.ctag = 0, !.reply = 204]
    <3>1. /\ f \in DavRecord /\ f.pc \in {"done", "reread"} /\ f.item = davReq[r].item
          /\ f.cond = davReq[r].cond /\ f.seen = davReq[r].seen /\ f.replaced = davReq[r].replaced
      BY <2>0 DEF DavRecord
    <3>2. f.seen = 0 /\ f.cond # "delete" => f.replaced = 0
      BY <3>1 DEF CreateNeverReplaces
    <3>3. Request(r, f)
      BY <2>1
    <3> HIDE DEF f
    <3>4. /\ davReq' \in [DavReqs -> DavRecord] /\ davReq'[r] = f
          /\ \A q \in DavReqs \ {r} : davReq'[q] = davReq[q]
          /\ \A q \in DavReqs : davReq'[q].pc \in {"write", "ctag", "reread"} => davReq'[q].item \in DavItems
          /\ CreateNeverReplaces'
      BY <1>r, <2>0, <3>1, <3>2, <3>3
    <3>5. davReq[r].ctag \in Nat
      BY <2>0 DEF DavRecord
    <3>6. DavTyped'
      BY <2>0, <2>1, <3>4, <3>5 DEF DavTyped
    <3>7. CtagsFresh'
      <4>1. davCtag' <= davTags' /\ davSync'.ctag <= davTags' /\ davSync'.next <= davTags'
        BY <2>0, <2>1 DEF CtagsFresh, CtagFresh
      <4>2. ASSUME NEW q \in DavReqs \ {r}, DavAt(q, "ctag")
            PROVE  CtagFresh(q)'
        <5>1. CtagFresh(q) /\ davReq[q].ctag # davReq[r].ctag
          BY <2>0, <4>2 DEF CtagsFresh, CtagFresh
        <5> QED BY <2>0, <2>1, <3>1, <3>4, <5>1 DEF CtagFresh, DavAt
      <4> QED BY <3>1, <3>4, <4>1, <4>2 DEF CtagsFresh, DavAt
    <3>8. SyncSoon'
      BY <2>0, <2>1 DEF SyncSoon, CtagFresh
    <3> QED BY <3>4, <3>6, <3>7, <3>8
  <2>2. CASE davStale' = TRUE /\ Respond(r, 500) /\ UNCHANGED davCtag
    <3> DEFINE f == [davReq[r] EXCEPT !.pc = "done", !.reply = 500]
    <3>1. /\ f \in DavRecord /\ f.pc = "done" /\ f.cond = davReq[r].cond
          /\ f.seen = davReq[r].seen /\ f.replaced = davReq[r].replaced
      <4>0. 500 \in Nat
        OBVIOUS
      <4>1. f \in DavRecord
        BY <2>0, <4>0, DavAnswered, Zenon
      <4> QED BY <2>0, <4>1 DEF DavRecord
    <3>2. Request(r, f)
      BY <2>2 DEF Respond
    <3>3. f.seen = 0 /\ f.cond # "delete" => f.replaced = 0
      BY <3>1 DEF CreateNeverReplaces
    <3> HIDE DEF f
    <3> QED BY <1>q, <2>0, <2>2, <3>1, <3>2, <3>3
  <2> QED BY <1>7, <2>1, <2>2 DEF UpdateCtag
<1>8. ASSUME NEW r \in DavReqs, PutReread(r)
      PROVE  DavInv'
  <2>0. /\ ~DavAt(r, "ctag") /\ davReq[r] \in DavRecord /\ davItem[davReq[r].item] \in Nat
    BY <1>8 DEF PutReread, DavAt, DavTyped
  <2> DEFINE f == [davReq[r] EXCEPT !.pc = "done", !.etag = davItem[davReq[r].item]]
  <2>1. /\ f \in DavRecord /\ f.pc = "done" /\ f.cond = davReq[r].cond
        /\ f.seen = davReq[r].seen /\ f.replaced = davReq[r].replaced
    <3>1. f \in DavRecord
      BY <2>0 DEF DavRecord
    <3> QED BY <2>0, <3>1 DEF DavRecord
  <2>2. Request(r, f) /\ UNCHANGED <<davItem, davCtag, davTags, davSync, davStale>>
    BY <1>8 DEF PutReread
  <2>3. f.seen = 0 /\ f.cond # "delete" => f.replaced = 0
    BY <2>1 DEF CreateNeverReplaces
  <2> HIDE DEF f
  <2> QED BY <1>q, <2>0, <2>1, <2>2, <2>3
<1>9. CASE UNCHANGED davVars
  BY <1>9 DEF davVars, DavTyped, CtagsFresh, CtagFresh, SyncSoon, CreateNeverReplaces, DavAt
<1> QED BY <1>1, <1>2, <1>3, <1>4, <1>5, <1>6, <1>7, <1>8, <1>9 DEF DavNext

LEMMA DavInvariant == DavSpec => []DavInv
BY DavInvInit, DavInvStep, PTL DEF DavSpec

(* A PUT that found no row never replaces one that another request has made
   since, for any number of requests and items: the row's UNIQUE stands between
   the read and the write.                                                   *)
THEOREM CreatesNeverReplace == DavSpec => []CreateNeverReplaces
<1>1. DavInv => CreateNeverReplaces
  BY DEF DavInv
<1> QED BY <1>1, DavInvariant, PTL

(* With nothing under way and no ctag update lost, a client whose ctag is the
   collection's has its items, however many requests wrote items and ctags in
   whichever order.                                                          *)
THEOREM ClientInStep == DavSpec => []SyncSound
<1>1. DavInv => SyncSound
  BY DEF DavInv, SyncSoon, SyncSound, DavAt
<1> QED BY <1>1, DavInvariant, PTL

=============================================================================
