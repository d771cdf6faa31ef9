--------------------------- MODULE Services_proofs ---------------------------
(***************************************************************************)
(* The types and bounds of the services around queue and mailbox store,    *)
(* and that MCServices only puts them side by side: each of its behaviours *)
(* is one of every component, so the components' theorems are about what   *)
(* its run checks.                                                         *)
(***************************************************************************)
EXTENDS MCServices, Server_proofs, Inbound_proofs, Sieve_proofs

-----------------------------------------------------------------------------
(* Types that are part of an inductive invariant.                            *)

LEMMA MxTypes == MxSpec => []MxTypeOK
<1>1. Fresh => MxTypeOK
  BY DEF Fresh
<1> QED BY <1>1, FreshInit, FreshStep, PTL DEF MxSpec

LEMMA LoginTypesHold == LoginSpec => []LoginTypeOK
<1>1. LoginInductive => LoginTypeOK
  BY DEF LoginInductive, LoginTypes, LoginTypeOK, LimitRecord, ReqRecord
<1> QED BY <1>1, LoginInitInductive, LoginStepInductive, PTL DEF LoginSpec

LEMMA InboundTypes == InboundSpec => []InboundTypeOK
<1>1. InTyped => InboundTypeOK
  BY DEF InTyped, InboundTypeOK, AcctRecord, SessRecord
<1> QED BY <1>1, TypedInit, TypedStep, PTL DEF InboundSpec

-----------------------------------------------------------------------------
(* Sieve: the loops' counters stay within the parser's limits.               *)

Limited(p) == p.nots <= MaxConditionDepth /\ p.count \in 0..MaxArraySize

LEMMA SingleLimited ==
  ASSUME NEW p \in ParseRecord, NEW t, NEW then, Limited(p)
  PROVE  Limited(SingleCondition(p, t, then))
<1> DEFINE q == SingleCondition(p, t, then)
<1>0. p.nots \in Nat /\ p.count \in Nat /\ MaxConditionDepth \in Nat /\ MaxArraySize \in Nat
  BY SieveAssumption DEF ParseRecord, Limited
<1>1. CASE 3 + p.nots > MaxConditionDepth \/ RefusedTest(t)
  <2>1. q.nots = p.nots /\ q.count = p.count
    BY <1>1 DEF SingleCondition, ParseError, ParseRecord
  <2> QED BY <2>1 DEF Limited
<1>2. CASE ~(3 + p.nots > MaxConditionDepth \/ RefusedTest(t))
  <2>1. q.nots \in {p.nots + 1, p.nots, 0} /\ q.count = p.count
    BY <1>2 DEF SingleCondition, ParseRecord
  <2>2. 3 + p.nots <= MaxConditionDepth
    BY <1>0, <1>2
  <2> QED BY <1>0, <2>1, <2>2 DEF Limited
<1> QED BY <1>1, <1>2

LEMMA TokenLimited ==
  ASSUME NEW p \in ParseRecord, NEW t, Limited(p)
  PROVE  Limited(ParseToken(p, t))
<1>0. p.nots \in Nat /\ p.count \in Nat /\ MaxConditionDepth \in Nat /\ MaxArraySize \in Nat
  BY SieveAssumption DEF ParseRecord, Limited
<1>e. Limited(ParseError(p))
  BY DEF ParseError, ParseRecord, Limited
<1>s. Limited(EndRule(p))
  BY <1>0 DEF EndRule, StartParse, Limited
<1>b. Limited(ParseBrace(p, t))
  BY <1>e DEF ParseBrace, ParseRecord, Limited
<1>1. CASE p.mode = "top"
  BY <1>1 DEF ParseToken, ParseTop, ParseRecord, Limited
<1>2. CASE p.mode = "cond"
  <2>1. CASE t.typ \in {"allof", "anyof"} /\ p.nots = 0
    BY <1>2, <2>1 DEF ParseToken, ParseCondition, ParseRecord, Limited
  <2>2. CASE ~(t.typ \in {"allof", "anyof"} /\ p.nots = 0)
    BY <1>2, <2>2, SingleLimited DEF ParseToken, ParseCondition
  <2> QED BY <2>1, <2>2
<1>3. CASE p.mode = "open"
  BY <1>3, <1>b DEF ParseToken, ParseRecord, Limited
<1>4. CASE p.mode \in {"list", "sep"}
  <2>0. ParseToken(p, t) = ParseConditionList(p, t)
    BY <1>4 DEF ParseToken
  <2>1. CASE t.typ = ")" /\ p.nots = 0
    BY <1>0, <2>0, <2>1 DEF ParseConditionList, ParseRecord, Limited
  <2>2. CASE ~(t.typ = ")" /\ p.nots = 0) /\ t.typ = "," /\ p.mode = "sep"
    BY <2>0, <2>2 DEF ParseConditionList, ParseRecord, Limited
  <2>3. CASE ~(t.typ = ")" /\ p.nots = 0) /\ ~(t.typ = "," /\ p.mode = "sep")
    <3>1. CASE p.nots = 0 /\ p.count >= MaxArraySize
      BY <1>e, <2>0, <2>3, <3>1 DEF ParseConditionList
    <3>2. CASE ~(p.nots = 0 /\ p.count >= MaxArraySize)
      <4> DEFINE q == [p EXCEPT !.count = IF p.nots = 0 THEN @ + 1 ELSE @, !.mode = "list"]
      <4>0. q.nots = p.nots /\ q.count = IF p.nots = 0 THEN p.count + 1 ELSE p.count
        BY DEF ParseRecord
      <4>1. q.count \in 0..MaxArraySize
        BY <1>0, <3>2, <4>0 DEF Limited
      <4>m. q \in ParseRecord
        <5> DEFINE n == IF p.nots = 0 THEN p.count + 1 ELSE p.count
        <5>1. q = [p EXCEPT !.count = n, !.mode = "list"] /\ n \in Nat
          BY <1>0 DEF ParseRecord
        <5> HIDE DEF q, n
        <5> QED BY <5>1 DEF ParseRecord, Modes
      <4>2. Limited(q)
        BY <4>0, <4>1 DEF Limited
      <4>3. ParseConditionList(p, t) = SingleCondition(q, t, "sep")
        BY <2>3, <3>2 DEF ParseConditionList
      <4> HIDE DEF q
      <4> QED BY <2>0, <4>m, <4>2, <4>3, SingleLimited
    <3> QED BY <3>1, <3>2
  <2> QED BY <2>1, <2>2, <2>3
<1>5. CASE p.mode = "brace"
  BY <1>5, <1>b DEF ParseToken
<1>6. CASE p.mode = "block"
  <2>0. ParseToken(p, t) = ParseBlock(p, t)
    BY <1>6 DEF ParseToken
  <2>1. CASE t.typ = "}" \/ p.count >= MaxArraySize \/ RefusedAction(t)
    BY <1>e, <1>s, <2>0, <2>1 DEF ParseBlock
  <2>2. CASE ~(t.typ = "}" \/ p.count >= MaxArraySize \/ RefusedAction(t))
    <3>1. ParseBlock(p, t).nots = p.nots /\ ParseBlock(p, t).count = p.count + 1
      BY <2>2 DEF ParseBlock, ParseRecord
    <3>2. ~(p.count >= MaxArraySize)
      BY <2>2, Zenon
    <3>3. p.count + 1 \in 0..MaxArraySize
      BY <1>0, <3>2
    <3> QED BY <2>0, <3>1, <3>3 DEF Limited
  <2> QED BY <2>1, <2>2
<1>7. CASE p.mode = "error"
  BY <1>7 DEF ParseToken
<1> QED BY <1>1, <1>2, <1>3, <1>4, <1>5, <1>6, <1>7 DEF ParseRecord, Modes

LEMMA SieveTypes == SieveSpec => []SieveTypeOK
<1> DEFINE Inv == InStep(parse, rfc) /\ Limited(parse) /\ written \in 0..MaxScriptTokens
<1>1. SieveInit => Inv
  BY StartInStep, SieveAssumption DEF SieveInit, StartParse, Limited
<1>2. Inv /\ [SieveNext]_sieveVars => Inv'
  <2> SUFFICES ASSUME Inv, [SieveNext]_sieveVars PROVE Inv'
    OBVIOUS
  <2>1. InStep(parse', rfc')
    BY SieveInStep
  <2>2. CASE UNCHANGED sieveVars
    BY <2>1, <2>2 DEF sieveVars, Limited
  <2>3. CASE SieveNext
    <3>1. PICK t \in RfcTokens(rfc) : parse' = ParseToken(parse, t) /\ written < MaxScriptTokens /\ written' = written + 1
      BY <2>3 DEF SieveNext, Write
    <3>2. parse \in ParseRecord
      BY DEF InStep, ScriptTyped
    <3>3. Limited(parse')
      BY <3>1, <3>2, TokenLimited
    <3> QED BY <2>1, <3>1, <3>3, SieveAssumption
  <2> QED BY <2>2, <2>3
<1>3. Inv => SieveTypeOK
  BY DEF InStep, ScriptTyped, ParseRecord, Modes, Limited, SieveTypeOK
<1> HIDE DEF Inv
<1> QED BY <1>1, <1>2, <1>3, PTL DEF SieveSpec

-----------------------------------------------------------------------------
(* CalDAV and CardDAV: every ETag and ctag is one that was drawn.            *)

DavDrawn ==
  /\ \A i \in DavItems : davItem[i] <= davTags
  /\ \A r \in DavReqs : davReq[r].reply \in {0, 204, 404, 412, 500}

LEMMA DavDrawnStep == DavInv /\ DavDrawn /\ [DavNext]_davVars => DavDrawn'
<1> SUFFICES ASSUME DavInv, DavDrawn, [DavNext]_davVars
             PROVE  DavDrawn'
  OBVIOUS
<1>t. /\ davTags \in Nat /\ davItem \in [DavItems -> Nat] /\ davReq \in [DavReqs -> DavRecord]
      /\ \A r \in DavReqs : davReq[r].pc \in {"write", "ctag", "reread"} => davReq[r].item \in DavItems
  BY DEF DavInv, DavTyped
(* A request gets its reply, or keeps it. *)
<1>r. ASSUME NEW r \in DavReqs, NEW f, Request(r, f), f.reply \in {0, 204, 404, 412, 500}
      PROVE  \A q \in DavReqs : davReq'[q].reply \in {0, 204, 404, 412, 500}
  BY <1>r, <1>t DEF Request, DavDrawn
<1>u. ASSUME NEW r \in DavReqs, NEW f, Request(r, f), f.reply \in {0, 204, 404, 412, 500},
             UNCHANGED <<davItem, davTags>>
      PROVE  DavDrawn'
  BY <1>r, <1>u DEF DavDrawn
<1>1. CASE MkCollection \/ Propfind \/ Report \/ UNCHANGED davVars
  BY <1>t, <1>1 DEF MkCollection, Propfind, Report, davVars, DavDrawn
<1>2. ASSUME NEW r \in DavReqs, NEW i \in DavItems, NEW cond, NEW etag, PutRead(r, i, cond, etag)
      PROVE  DavDrawn'
  <2>1. PICK seen \in {davItem[i], 0} :
          Request(r, [NoReq EXCEPT !.item = i, !.cond = cond, !.seen = seen,
            !.pc = IF PreconditionFails(cond, etag, seen) THEN "done" ELSE "write",
            !.reply = IF PreconditionFails(cond, etag, seen) THEN 412 ELSE 0])
    BY <1>2 DEF PutRead
  <2> DEFINE f == [NoReq EXCEPT !.item = i, !.cond = cond, !.seen = seen,
            !.pc = IF PreconditionFails(cond, etag, seen) THEN "done" ELSE "write",
            !.reply = IF PreconditionFails(cond, etag, seen) THEN 412 ELSE 0]
  <2>2. f.reply \in {0, 412}
    BY DEF NoReq
  <2>3. UNCHANGED <<davItem, davTags>>
    BY <1>2 DEF PutRead
  <2>4. Request(r, f)
    BY <2>1
  <2> HIDE DEF f
  <2> QED BY <1>u, <2>2, <2>3, <2>4
<1>3. ASSUME NEW r \in DavReqs, PutWrite(r)
      PROVE  DavDrawn'
  <2>1. davReq[r] \in DavRecord /\ davReq[r].reply \in {0, 204, 404, 412, 500} /\ davReq[r].item \in DavItems
    BY <1>3, <1>t DEF PutWrite, DavAt, DavDrawn
  <2>2. CASE Respond(r, 500) /\ UNCHANGED <<davItem, davTags>>
    <3>1. [davReq[r] EXCEPT !.pc = "done", !.reply = 500].reply = 500
      BY <2>1 DEF DavRecord
    <3> QED BY <1>u, <2>2, <3>1 DEF Respond
  <2>3. CASE /\ davItem' = [davItem EXCEPT ![davReq[r].item] = davTags + 1]
             /\ davTags' = davTags + 2
             /\ Request(r, [davReq[r] EXCEPT !.pc = "ctag", !.ctag = davTags + 2,
                              !.replaced = davItem[davReq[r].item]])
    <3>1. [davReq[r] EXCEPT !.pc = "ctag", !.ctag = davTags + 2,
             !.replaced = davItem[davReq[r].item]].reply = davReq[r].reply
      BY <2>1 DEF DavRecord
    <3>2. \A q \in DavReqs : davReq'[q].reply \in {0, 204, 404, 412, 500}
      BY <1>r, <2>1, <2>3, <3>1
    <3>3. \A i \in DavItems : davItem'[i] <= davTags'
      BY <1>t, <2>1, <2>3 DEF DavDrawn
    <3> QED BY <3>2, <3>3 DEF DavDrawn
  <2> QED BY <1>3, <2>2, <2>3 DEF PutWrite
<1>4. ASSUME NEW r \in DavReqs, NEW i \in DavItems, Delete(r, i)
      PROVE  DavDrawn'
  <2> DEFINE f == [NoReq EXCEPT !.pc = "done", !.cond = "delete", !.reply = 404]
             g == [NoReq EXCEPT !.pc = "ctag", !.item = i, !.ctag = davTags + 1,
                           !.cond = "delete", !.replaced = davItem[i]]
  <2>1. f.reply = 404 /\ g.reply = 0
    BY DEF NoReq
  <2>2. \/ Request(r, f) /\ UNCHANGED <<davItem, davTags>>
        \/ Request(r, g) /\ davItem' = [davItem EXCEPT ![i] = 0] /\ davTags' = davTags + 1
    BY <1>4 DEF Delete
  <2> HIDE DEF f, g
  <2>3. \A q \in DavReqs : davReq'[q].reply \in {0, 204, 404, 412, 500}
    BY <1>r, <2>1, <2>2
  <2>4. \A k \in DavItems : davItem'[k] <= davTags'
    BY <1>t, <2>2 DEF DavDrawn
  <2> QED BY <2>3, <2>4 DEF DavDrawn
<1>5. ASSUME NEW r \in DavReqs, UpdateCtag(r) \/ PutReread(r)
      PROVE  DavDrawn'
  <2>1. davReq[r] \in DavRecord /\ davReq[r].reply \in {0, 204, 404, 412, 500}
    BY <1>t DEF DavDrawn
  <2> DEFINE f == [davReq[r] EXCEPT !.pc = IF davReq[r].cond = "delete" THEN "done" ELSE "reread",
                               !.ctag = 0, !.reply = 204]
             g == [davReq[r] EXCEPT !.pc = "done", !.reply = 500]
             h == [davReq[r] EXCEPT !.pc = "done", !.etag = davItem[davReq[r].item]]
  <2>2. f.reply = 204 /\ g.reply = 500 /\ h.reply = davReq[r].reply
    BY <2>1 DEF DavRecord
  <2>3. UNCHANGED <<davItem, davTags>>
    BY <1>5 DEF UpdateCtag, PutReread
  <2>4. Request(r, f) \/ Request(r, g) \/ Request(r, h)
    BY <1>5 DEF UpdateCtag, PutReread, Respond
  <2> HIDE DEF f, g, h
  <2>5. f.reply \in {0, 204, 404, 412, 500} /\ g.reply \in {0, 204, 404, 412, 500}
        /\ h.reply \in {0, 204, 404, 412, 500}
    BY <2>1, <2>2
  <2> QED BY <1>u, <2>3, <2>4, <2>5
<1> QED BY <1>1, <1>2, <1>3, <1>4, <1>5 DEF DavNext

LEMMA DavTypes == DavSpec => []DavTypeOK
<1>1. DavInit => DavDrawn
  BY DEF DavInit, DavDrawn, NoItems, NoReq
<1>2. DavInv /\ DavDrawn => DavTypeOK
  <2> SUFFICES ASSUME DavInv, DavDrawn PROVE DavTypeOK
    OBVIOUS
  <2>1. davItem \in [DavItems -> 0..davTags]
    BY DEF DavInv, DavTyped, DavDrawn
  <2>2. davCtag \in 0..davTags
    BY DEF DavInv, DavTyped, CtagsFresh
  <2> QED BY <2>1, <2>2 DEF DavTypeOK, DavDrawn
<1> QED BY <1>1, <1>2, DavInvInit, DavInvStep, DavDrawnStep, PTL DEF DavSpec

-----------------------------------------------------------------------------
(* The process: its places, its workers and its http servers.                *)

HttpStates == {"none", "spawned", "made", "serving", "closed"}

LifeBounds ==
  /\ serve.pc \in {"stopped", "returned"} => serve.at = 0
  /\ tracked \subseteq Resources /\ workers \in 0..Workers
  /\ http \in [HttpServers -> HttpStates]
  /\ starts \in 0..MaxStarts

LEMMA LifeBoundsStep == ResourceInv /\ LifeBounds /\ [LifeNext]_lifeVars => LifeBounds'
<1> SUFFICES ASSUME ResourceInv, LifeBounds, [LifeNext]_lifeVars
             PROVE  LifeBounds'
  OBVIOUS
<1>t. /\ serve \in [pc : {"stopped", "starting", "cleaning", "returned"}, at : Int]
      /\ Workers \in Nat /\ MaxStarts \in Nat
  BY LifeAssumption DEF ResourceInv
<1>1. CASE UNCHANGED lifeVars \/ CommandEnds
  BY <1>1 DEF lifeVars, CommandEnds, LifeBounds
<1>2. ASSUME NEW m \in Migrators, GetSchemaVersion(m) \/ ApplyMigration(m)
      PROVE  LifeBounds'
  <2>1. UNCHANGED <<serve, open, tracked, workers, http, starts>>
    BY <1>2, Zenon DEF GetSchemaVersion, ApplyMigration
  <2> QED BY <2>1 DEF LifeBounds
(* A step of the start, or of cleanup, that goes on. *)
<1>a. ASSUME serve.pc \in {"starting", "cleaning"}, Advance \/ BeginCleanup
      PROVE  serve'.pc \in {"starting", "cleaning"}
  BY <1>a, <1>t DEF Advance, BeginCleanup
<1>3. CASE Starting
  <2>1. CASE StartServe
    BY <1>t, <2>1 DEF StartServe, LifeBounds
  <2>2. CASE OpenStore \/ MakeServer
    <3>1. /\ serve.pc = "starting" /\ Advance /\ UNCHANGED <<workers, http, starts>>
          /\ tracked' \subseteq tracked \union Resources
      BY <2>2 DEF OpenStore, MakeServer, AtStep, Resources
    <3> QED BY <1>a, <3>1 DEF LifeBounds
  <2>3. CASE MigrateReturns \/ Listen \/ SpawnAutodiscover \/ StepFails \/ PanicOrSignal
    <3>1. /\ serve.pc = "starting" /\ (Advance \/ BeginCleanup)
          /\ UNCHANGED <<tracked, workers, http, starts>>
      BY <2>3 DEF MigrateReturns, Listen, SpawnAutodiscover, StepFails, PanicOrSignal, AtStep
    <3> QED BY <1>a, <3>1 DEF LifeBounds
  <2>4. CASE StartEngine
    <3>1. serve.pc = "starting" /\ Advance
      BY <2>4 DEF StartEngine, AtStep
    <3> QED BY <1>a, <1>t, <2>4, <3>1 DEF StartEngine, LifeBounds, Resources
  <2>5. CASE SpawnHttp
    <3>1. serve.pc = "starting" /\ Advance /\ UNCHANGED <<workers, starts>>
      BY <2>5 DEF SpawnHttp
    <3>2. tracked' \subseteq Resources /\ http' \in [HttpServers -> HttpStates]
      BY <2>5 DEF SpawnHttp, LifeBounds, Resources, HttpServers, HttpStates
    <3> QED BY <1>a, <3>1, <3>2 DEF LifeBounds
  <2> QED BY <1>3, <2>1, <2>2, <2>3, <2>4, <2>5 DEF Starting
<1>4. CASE CleaningUp
  <2>1. CASE CleanupSkips \/ StopEngine \/ CloseStore \/ CloseListeners("smtp") \/ CloseListeners("imap")
    <3>1. serve.pc = "cleaning" /\ Advance /\ UNCHANGED <<tracked, workers, http, starts>>
      BY <2>1 DEF CleanupSkips, StopEngine, CloseStore, CloseListeners, AtCleanup
    <3> QED BY <1>a, <3>1 DEF LifeBounds
  <2>2. ASSUME NEW h \in HttpServers, ShutdownHttp(h)
        PROVE  LifeBounds'
    <3>1. serve.pc = "cleaning" /\ Advance /\ UNCHANGED <<tracked, workers, starts>>
      BY <2>2 DEF ShutdownHttp, AtCleanup
    <3>2. http' \in [HttpServers -> HttpStates]
      BY <2>2 DEF ShutdownHttp, LifeBounds, HttpStates
    <3> QED BY <1>a, <3>1, <3>2 DEF LifeBounds
  <2>3. CASE WorkerExits
    BY <1>t, <2>3 DEF WorkerExits, LifeBounds
  <2>4. CASE Return
    BY <2>4 DEF Return, LifeBounds
  <2> QED BY <1>4, <2>1, <2>2, <2>3, <2>4 DEF CleaningUp
<1>5. CASE ProcessEnds
  BY <1>t, <1>5 DEF ProcessEnds, Stopped, LifeBounds, HttpStates
<1>6. ASSUME NEW h \in HttpServers, HttpStart(h)
      PROVE  LifeBounds'
  BY <1>6 DEF HttpStart, LifeBounds, HttpStates
<1> QED BY <1>1, <1>2, <1>3, <1>4, <1>5, <1>6 DEF LifeNext

LEMMA LifeTypes == LifeSpec => []LifeTypeOK
<1> DEFINE Inv == MigrationInv /\ ResourceInv /\ LifeBounds
<1>1. LifeInit => Inv
  BY MigrationInit, ResourceInit, LifeAssumption DEF LifeInit, LifeBounds, Stopped, HttpStates
<1>2. Inv /\ [LifeNext]_lifeVars => Inv'
  BY MigrationStep, ResourceStep, LifeBoundsStep
<1>3. Inv => LifeTypeOK
  <2> SUFFICES ASSUME Inv PROVE LifeTypeOK
    OBVIOUS
  <2>1. schema \in [1..Versions -> 0..2]
    BY DEF MigrationInv, Prefix
  <2>2. migrator \in [Migrators -> [pc : {"idle", "apply", "done", "failed"}, at : 0..(Versions + 1)]]
    BY DEF MigrationInv, MigratorRecord
  <2>3. serve \in [pc : {"stopped", "starting", "cleaning", "returned"}, at : 0..Len(Startup)]
    <3>1. /\ serve \in [pc : {"stopped", "starting", "cleaning", "returned"}, at : Int]
          /\ serve.pc = "starting" => serve.at >= 1 /\ serve.at <= 18
          /\ serve.pc = "cleaning" => serve.at >= 1 /\ serve.at <= 8
          /\ serve.pc \in {"stopped", "returned"} => serve.at = 0
          /\ Len(Startup) = 18
      BY StartupAt DEF ResourceInv, Held, OpenedSoFar, ClosedSoFar, LifeBounds
    <3>2. serve.at \in 0..18
      BY <3>1
    <3> QED BY <3>1, <3>2
  <2>4. open \subseteq {"db", "queue", "autodiscover"} \union Listeners
    BY ListenersLemma DEF ResourceInv, Held, Known
  <2> QED BY <2>1, <2>2, <2>3, <2>4 DEF LifeTypeOK, LifeBounds, HttpStates
<1> HIDE DEF Inv
<1> QED BY <1>1, <1>2, <1>3, PTL DEF LifeSpec
-----------------------------------------------------------------------------
(* The views of IMAP sessions: what is told, read and queued is bounded by the
   appends, and every count that is queued for a session or will be belongs to
   an append of its own.                                                     *)

Notifiers == {a \in Appenders : notify[a].pc # "idle"}

ViewFits(v) ==
  /\ v.told <= MaxAppends /\ v.joined <= MaxAppends
  /\ \A i \in DOMAIN v.queue : v.queue[i] <= MaxAppends

NotifyFits(n) ==
  /\ n.append <= MaxAppends /\ n.count <= MaxAppends /\ n.read <= MaxAppends
  /\ n.pc # "idle" => n.append >= 1

ViewBounds ==
  /\ messages <= appended /\ appended <= MaxAppends /\ announced <= MaxAppends
  /\ \A s \in ImapSessions : ViewFits(view[s])
  /\ \A a \in Appenders : NotifyFits(notify[a])
  /\ unannounced \subseteq 1..MaxAppends /\ notifyFaults \in 0..MaxNotifyFaults

QueueRoom ==
  /\ IsFiniteSet(Notifiers)
  /\ \A s \in ImapSessions : Len(view[s].queue) + Cardinality(Notifiers) <= appended

LEMMA FitNone == ViewFits(NoView) /\ NotifyFits(NoNotify)
BY ViewAssumption DEF ViewFits, NotifyFits, NoView, NoNotify

LEMMA ViewBoundsStep == ViewInv /\ ViewBounds /\ [ViewNext]_viewVars => ViewBounds'
<1> SUFFICES ASSUME ViewInv, ViewBounds, [ViewNext]_viewVars
             PROVE  ViewBounds'
  OBVIOUS
<1>t. /\ messages \in Nat /\ appended \in Nat /\ announced \in Nat /\ MaxAppends \in Nat
      /\ MaxNotifyFaults \in Nat
      /\ view \in [ImapSessions -> ViewRecord] /\ notify \in [Appenders -> NotifyRecord]
  BY ViewAssumption DEF ViewInv, ViewTyped
(* A step that sets one session's view to one that fits, or one append's state. *)
<1>v. ASSUME NEW s \in ImapSessions, NEW v, SetView(s, v), ViewFits(v),
             UNCHANGED <<messages, appended, announced, notify, unannounced, notifyFaults>>
      PROVE  ViewBounds'
  BY <1>t, <1>v DEF ViewBounds, SetView
<1>n. ASSUME NEW a \in Appenders, NEW n, SetNotify(a, n), NotifyFits(n)
      PROVE  \A b \in Appenders : NotifyFits(notify'[b])
  BY <1>t, <1>n DEF ViewBounds, SetNotify
<1>2. ASSUME NEW s \in ImapSessions, Select(s)
      PROVE  ViewBounds'
  <2> DEFINE v == [NoView EXCEPT !.pc = "lookup", !.told = appended]
  <2>1. ViewFits(v)
    BY <1>t, FitNone DEF ViewFits, NoView, ViewBounds
  <2>2. SetView(s, v)
    BY <1>2 DEF Select
  <2> HIDE DEF v
  <2> QED BY <1>2, <1>v, <2>1, <2>2 DEF Select
<1>3. ASSUME NEW s \in ImapSessions, Selecting(s)
      PROVE  ViewBounds'
  <2>1. view[s] \in ViewRecord /\ ViewFits(view[s]) /\ appended <= MaxAppends
    BY <1>t DEF ViewBounds
  <2>2. PICK v : SetView(s, v) /\ v.told = view[s].told /\ v.queue = view[s].queue
                 /\ v.joined \in {view[s].joined, appended}
    <3> DEFINE c == [view[s] EXCEPT !.pc = "create"]
               j == [view[s] EXCEPT !.pc = "join", !.tracker = tracker]
               k == [view[s] EXCEPT !.pc = "join", !.tracker = tracker']
               w == [view[s] EXCEPT !.pc = "watching", !.joined = appended]
    <3>1. /\ c.told = view[s].told /\ c.queue = view[s].queue /\ c.joined = view[s].joined
          /\ j.told = view[s].told /\ j.queue = view[s].queue /\ j.joined = view[s].joined
          /\ k.told = view[s].told /\ k.queue = view[s].queue /\ k.joined = view[s].joined
          /\ w.told = view[s].told /\ w.queue = view[s].queue /\ w.joined = appended
      BY <2>1 DEF ViewRecord
    <3>2. SetView(s, c) \/ SetView(s, j) \/ SetView(s, k) \/ SetView(s, w)
      BY <1>3 DEF Selecting, LookupTracker, CreateTracker, JoinTracker
    <3> HIDE DEF c, j, k, w
    <3> QED BY <3>1, <3>2
  <2>3. ViewFits(v)
    BY <2>1, <2>2 DEF ViewFits
  <2>4. UNCHANGED <<messages, appended, announced, notify, unannounced, notifyFaults>>
    BY <1>3 DEF Selecting, LookupTracker, CreateTracker, JoinTracker
  <2> QED BY <1>v, <2>2, <2>3, <2>4
<1>4. ASSUME NEW s \in ImapSessions, Unselect(s)
      PROVE  ViewBounds'
  BY <1>4, <1>v, FitNone DEF Unselect
<1>5. ASSUME NEW s \in ImapSessions, Poll(s)
      PROVE  ViewBounds'
  <2>1. view[s] \in ViewRecord /\ ViewFits(view[s]) /\ view[s].queue # <<>>
    BY <1>t, <1>5 DEF ViewBounds, Poll
  <2> DEFINE q == view[s].queue
             v == [view[s] EXCEPT !.queue = Tail(@), !.told = Max({@, Head(view[s].queue)})]
  <2>2. v.queue = Tail(q) /\ v.told = Max({view[s].told, Head(q)}) /\ v.joined = view[s].joined
    BY <2>1 DEF ViewRecord
  <2>3. q \in Seq(Nat) /\ Head(q) \in Nat /\ Head(q) <= MaxAppends /\ view[s].told \in Nat
    BY <2>1 DEF ViewRecord, ViewFits
  <2>4. Max({view[s].told, Head(q)}) <= MaxAppends
    BY <2>1, <2>3, MaxOfTwo DEF ViewFits
  <2>5. \A i \in DOMAIN Tail(q) : Tail(q)[i] <= MaxAppends
    BY <2>1, <2>3 DEF ViewFits
  <2>6. SetView(s, v)
    BY <1>5 DEF Poll
  <2> HIDE DEF q, v
  <2>7. ViewFits(v)
    BY <2>1, <2>2, <2>4, <2>5 DEF ViewFits
  <2> QED BY <1>5, <1>v, <2>6, <2>7 DEF Poll
<1>6. ASSUME NEW a \in Appenders, StoreMessage(a)
      PROVE  ViewBounds'
  <2> DEFINE n == [NoNotify EXCEPT !.pc = "notify", !.append = appended']
  <2>1. NotifyFits(n)
    BY <1>t, <1>6 DEF StoreMessage, NoNotify, NotifyFits
  <2>2. SetNotify(a, n)
    BY <1>6 DEF StoreMessage
  <2> HIDE DEF n
  <2>3. \A b \in Appenders : NotifyFits(notify'[b])
    BY <1>n, <2>1, <2>2
  <2> QED BY <1>t, <1>6, <2>3 DEF StoreMessage, ViewBounds
<1>7. ASSUME NEW a \in Appenders, FindTracker(a)
      PROVE  ViewBounds'
  <2>1. notify[a] \in NotifyRecord /\ NotifyFits(notify[a]) /\ notify[a].pc # "idle"
    BY <1>t, <1>7 DEF ViewBounds, FindTracker
  <2> DEFINE n == [notify[a] EXCEPT !.pc = "count", !.tracker = tracker]
  <2>2. NotifyFits(n)
    BY <2>1 DEF NotifyRecord, NotifyFits
  <2>3. SetNotify(a, NoNotify) \/ SetNotify(a, n)
    BY <1>7 DEF FindTracker
  <2> HIDE DEF n
  <2>4. \A b \in Appenders : NotifyFits(notify'[b])
    BY <1>n, <2>2, <2>3, FitNone
  <2> QED BY <1>7, <2>4 DEF FindTracker, ViewBounds
<1>8. ASSUME NEW a \in Appenders, CountMessages(a)
      PROVE  ViewBounds'
  <2>1. notify[a] \in NotifyRecord /\ NotifyFits(notify[a]) /\ notify[a].pc # "idle"
    BY <1>t, <1>8 DEF ViewBounds, CountMessages
  <2> DEFINE n == [notify[a] EXCEPT !.pc = "queue", !.count = messages, !.read = appended]
  <2>2. NotifyFits(n)
    BY <1>t, <2>1 DEF NotifyRecord, NotifyFits, ViewBounds
  <2>3. \/ SetNotify(a, n) /\ UNCHANGED <<unannounced, notifyFaults>>
        \/ /\ notifyFaults < MaxNotifyFaults /\ notifyFaults' = notifyFaults + 1
           /\ unannounced' = unannounced \union {notify[a].append}
           /\ SetNotify(a, NoNotify)
    BY <1>8 DEF CountMessages
  <2> HIDE DEF n
  <2>4. \A b \in Appenders : NotifyFits(notify'[b])
    BY <1>n, <2>2, <2>3, FitNone
  <2>5. notify[a].append \in 1..MaxAppends
    BY <1>t, <2>1 DEF NotifyRecord, NotifyFits
  <2>6. unannounced' \subseteq 1..MaxAppends
    BY <2>3, <2>5 DEF ViewBounds
  <2>7. notifyFaults' \in 0..MaxNotifyFaults
    BY <1>t, <2>3 DEF ViewBounds
  <2> QED BY <1>8, <2>4, <2>6, <2>7 DEF CountMessages, ViewBounds
<1>9. ASSUME NEW a \in Appenders, QueueCount(a)
      PROVE  ViewBounds'
  <2> DEFINE n == notify[a]
  <2>1. n \in NotifyRecord /\ NotifyFits(n) /\ n.pc # "idle"
    BY <1>t, <1>9 DEF ViewBounds, QueueCount
  <2>2. n.append \in 1..MaxAppends /\ n.count \in 0..MaxAppends /\ n.read \in 0..MaxAppends
    BY <1>t, <2>1 DEF NotifyRecord, NotifyFits
  <2>3. announced' <= MaxAppends
    <3>1. announced' = Max({announced, n.count})
      BY <1>9 DEF QueueCount
    <3> HIDE DEF n
    <3>2. Max({announced, n.count}) \in {announced, n.count}
      BY <1>t, <2>2, MaxOfTwo
    <3> QED BY <2>2, <3>1, <3>2 DEF ViewBounds
  <2>4. ASSUME NEW s \in ImapSessions
        PROVE  ViewFits(view'[s])
    <3>1. view[s] \in ViewRecord /\ ViewFits(view[s]) /\ view[s].queue \in Seq(Nat)
      BY <1>t DEF ViewBounds, ViewRecord
    <3> DEFINE v == [view[s] EXCEPT !.queue = Append(@, n.read)]
    <3>2. v.queue = Append(view[s].queue, n.read) /\ v.told = view[s].told /\ v.joined = view[s].joined
      BY <3>1 DEF ViewRecord
    <3>3. \A i \in DOMAIN Append(view[s].queue, n.read) : Append(view[s].queue, n.read)[i] <= MaxAppends
      BY <2>2, <3>1 DEF ViewFits
    <3>4. view'[s] \in {v, view[s]}
      BY <1>9 DEF QueueCount
    <3> HIDE DEF v
    <3> QED BY <3>1, <3>2, <3>3, <3>4 DEF ViewFits
  <2>5. unannounced' \subseteq 1..MaxAppends
    BY <1>9, <2>2 DEF QueueCount, ViewBounds
  <2>6. SetNotify(a, NoNotify) /\ UNCHANGED <<messages, appended, notifyFaults>>
    BY <1>9 DEF QueueCount
  <2> HIDE DEF n
  <2>7. \A b \in Appenders : NotifyFits(notify'[b])
    BY <1>n, <2>6, FitNone
  <2> QED BY <2>3, <2>4, <2>5, <2>6, <2>7 DEF ViewBounds
<1>10. CASE ExpungeRow
  BY <1>10, <1>t DEF ExpungeRow, ViewBounds
<1>11. CASE UNCHANGED viewVars
  BY <1>11 DEF viewVars, ViewBounds
<1> QED BY <1>2, <1>3, <1>4, <1>5, <1>6, <1>7, <1>8, <1>9, <1>10, <1>11 DEF ViewNext, Notifying

LEMMA QueueRoomStep == ViewInv /\ QueueRoom /\ [ViewNext]_viewVars => QueueRoom'
<1> SUFFICES ASSUME ViewInv, QueueRoom, [ViewNext]_viewVars
             PROVE  QueueRoom'
  OBVIOUS
<1>t. /\ appended \in Nat /\ view \in [ImapSessions -> ViewRecord] /\ notify \in [Appenders -> NotifyRecord]
      /\ \A s \in ImapSessions : view[s].queue \in Seq(Nat) /\ Len(view[s].queue) \in Nat
  BY DEF ViewInv, ViewTyped, ViewRecord
<1>f. IsFiniteSet(Notifiers) /\ Cardinality(Notifiers) \in Nat
  BY FS_CardinalityType DEF QueueRoom
(* A session's view changes, and its queue does not grow. *)
<1>v. ASSUME NEW s \in ImapSessions, NEW v, SetView(s, v), Len(v.queue) <= Len(view[s].queue),
             Len(v.queue) \in Nat, UNCHANGED <<appended, notify>>
      PROVE  QueueRoom'
  <2>1. Notifiers' = Notifiers
    BY <1>v DEF Notifiers
  <2>2. \A q \in ImapSessions : Len(view'[q].queue) <= Len(view[q].queue) /\ Len(view'[q].queue) \in Nat
    BY <1>t, <1>v DEF SetView
  <2> QED BY <1>t, <1>f, <1>v, <2>1, <2>2 DEF QueueRoom
<1>2. ASSUME NEW s \in ImapSessions, Select(s) \/ Unselect(s)
      PROVE  QueueRoom'
  <2> DEFINE v == [NoView EXCEPT !.pc = "lookup", !.told = appended]
  <2>1. v.queue = <<>> /\ NoView.queue = <<>>
    BY DEF NoView
  <2>2. SetView(s, v) \/ SetView(s, NoView)
    BY <1>2 DEF Select, Unselect
  <2>3. UNCHANGED <<appended, notify>>
    BY <1>2 DEF Select, Unselect
  <2>4. Len(v.queue) = 0 /\ Len(NoView.queue) = 0
    BY <2>1
  <2> HIDE DEF v
  <2>5. Len(view[s].queue) \in Nat
    BY <1>t
  <2>6. CASE SetView(s, v)
    BY <1>v, <2>3, <2>4, <2>5, <2>6
  <2>7. CASE SetView(s, NoView)
    BY <1>v, <2>3, <2>4, <2>5, <2>7
  <2> QED BY <2>2, <2>6, <2>7
<1>3. ASSUME NEW s \in ImapSessions, Selecting(s)
      PROVE  QueueRoom'
  <2> DEFINE c == [view[s] EXCEPT !.pc = "create"]
             j == [view[s] EXCEPT !.pc = "join", !.tracker = tracker]
             k == [view[s] EXCEPT !.pc = "join", !.tracker = tracker']
             w == [view[s] EXCEPT !.pc = "watching", !.joined = appended]
  <2>1. /\ c.queue = view[s].queue /\ j.queue = view[s].queue
        /\ k.queue = view[s].queue /\ w.queue = view[s].queue
    BY <1>t DEF ViewRecord
  <2>2. SetView(s, c) \/ SetView(s, j) \/ SetView(s, k) \/ SetView(s, w)
    BY <1>3 DEF Selecting, LookupTracker, CreateTracker, JoinTracker
  <2>3. UNCHANGED <<appended, notify>>
    BY <1>3 DEF Selecting, LookupTracker, CreateTracker, JoinTracker
  <2> HIDE DEF c, j, k, w
  <2> QED BY <1>t, <1>v, <2>1, <2>2, <2>3
<1>4. ASSUME NEW s \in ImapSessions, Poll(s)
      PROVE  QueueRoom'
  <2> DEFINE v == [view[s] EXCEPT !.queue = Tail(@), !.told = Max({@, Head(view[s].queue)})]
  <2>1. v.queue = Tail(view[s].queue)
    BY <1>t DEF ViewRecord
  <2>2. Len(Tail(view[s].queue)) = Len(view[s].queue) - 1 /\ Len(Tail(view[s].queue)) \in Nat
    BY <1>t, <1>4 DEF Poll
  <2>3. SetView(s, v) /\ UNCHANGED <<appended, notify>>
    BY <1>4 DEF Poll
  <2> HIDE DEF v
  <2>4. Len(v.queue) \in Nat /\ Len(v.queue) <= Len(view[s].queue)
    BY <1>t, <2>1, <2>2
  <2> QED BY <1>v, <2>3, <2>4
<1>5. ASSUME NEW a \in Appenders, StoreMessage(a)
      PROVE  QueueRoom'
  <2>1. Notifiers' = Notifiers \union {a} /\ a \notin Notifiers
    BY <1>t, <1>5 DEF StoreMessage, SetNotify, Notifiers, NoNotify
  <2>2. IsFiniteSet(Notifiers') /\ Cardinality(Notifiers') = Cardinality(Notifiers) + 1
    BY <1>f, <2>1, FS_AddElement
  <2>3. appended' = appended + 1 /\ view' = view
    BY <1>5 DEF StoreMessage
  <2> QED BY <1>t, <1>f, <2>2, <2>3 DEF QueueRoom
(* An append is done, or goes on. *)
<1>n. ASSUME NEW a \in Appenders, notify[a].pc # "idle", SetNotify(a, NoNotify)
      PROVE  IsFiniteSet(Notifiers') /\ Cardinality(Notifiers') = Cardinality(Notifiers) - 1
  <2>1. Notifiers' = Notifiers \ {a} /\ a \in Notifiers
    BY <1>t, <1>n DEF SetNotify, Notifiers, NoNotify
  <2> QED BY <1>f, <2>1, FS_RemoveElement
<1>6. ASSUME NEW a \in Appenders, FindTracker(a) \/ CountMessages(a)
      PROVE  QueueRoom'
  <2>1. notify[a].pc # "idle" /\ UNCHANGED <<appended, view>>
    BY <1>6 DEF FindTracker, CountMessages
  <2>2. CASE SetNotify(a, NoNotify)
    BY <1>n, <1>t, <1>f, <2>1, <2>2 DEF QueueRoom
  <2>3. CASE ~SetNotify(a, NoNotify)
    <3> DEFINE c == [notify[a] EXCEPT !.pc = "count", !.tracker = tracker]
               q == [notify[a] EXCEPT !.pc = "queue", !.count = messages, !.read = appended]
    <3>1. c.pc # "idle" /\ q.pc # "idle"
      BY <1>t DEF NotifyRecord
    <3>2. SetNotify(a, c) \/ SetNotify(a, q)
      BY <1>6, <2>3 DEF FindTracker, CountMessages
    <3> HIDE DEF c, q
    <3>3. Notifiers' = Notifiers
      BY <1>t, <2>1, <3>1, <3>2 DEF SetNotify, Notifiers
    <3> QED BY <2>1, <3>3 DEF QueueRoom
  <2> QED BY <2>2, <2>3
<1>7. ASSUME NEW a \in Appenders, QueueCount(a)
      PROVE  QueueRoom'
  <2>1. notify[a].pc # "idle" /\ SetNotify(a, NoNotify) /\ UNCHANGED appended
    BY <1>7 DEF QueueCount
  <2>2. IsFiniteSet(Notifiers') /\ Cardinality(Notifiers') = Cardinality(Notifiers) - 1
    BY <1>n, <2>1
  <2>3. ASSUME NEW s \in ImapSessions
        PROVE  Len(view'[s].queue) \in Nat /\ Len(view'[s].queue) <= Len(view[s].queue) + 1
    <3> DEFINE v == [view[s] EXCEPT !.queue = Append(@, notify[a].read)]
    <3>1. v.queue = Append(view[s].queue, notify[a].read)
      BY <1>t DEF ViewRecord
    <3>2. Len(Append(view[s].queue, notify[a].read)) = Len(view[s].queue) + 1
      BY <1>t DEF NotifyRecord
    <3>3. view'[s] \in {v, view[s]}
      BY <1>7 DEF QueueCount
    <3> HIDE DEF v
    <3> QED BY <1>t, <3>1, <3>2, <3>3
  <2> QED BY <1>t, <1>f, <2>1, <2>2, <2>3 DEF QueueRoom
<1>8. CASE ExpungeRow \/ UNCHANGED viewVars
  <2>1. UNCHANGED <<view, notify, appended>>
    BY <1>8 DEF ExpungeRow, viewVars
  <2>2. Notifiers' = Notifiers
    BY <2>1 DEF Notifiers
  <2> QED BY <2>1, <2>2 DEF QueueRoom
<1> QED BY <1>2, <1>3, <1>4, <1>5, <1>6, <1>7, <1>8 DEF ViewNext, Notifying

LEMMA ViewTypes == ViewSpec => []ViewTypeOK
<1> DEFINE Inv == ViewInv /\ ViewBounds /\ QueueRoom
<1>1. ViewInit => Inv
  <2> SUFFICES ASSUME ViewInit PROVE ViewBounds /\ QueueRoom
    BY ViewInvInit
  <2>1. ViewBounds
    BY FitNone, ViewAssumption DEF ViewInit, ViewBounds
  <2>2. Notifiers = {}
    BY DEF ViewInit, Notifiers, NoNotify
  <2>3. \A s \in ImapSessions : view[s].queue = <<>>
    BY DEF ViewInit, NoView
  <2>4. QueueRoom
    BY <2>2, <2>3, FS_EmptySet DEF ViewInit, QueueRoom
  <2> QED BY <2>1, <2>4
<1>2. Inv /\ [ViewNext]_viewVars => Inv'
  BY ViewTypedStep, TrackerStep, ToldStep, ViewBoundsStep, QueueRoomStep DEF ViewInv
<1>3. Inv => ViewTypeOK
  <2> SUFFICES ASSUME Inv PROVE ViewTypeOK
    OBVIOUS
  <2>t. ViewTyped /\ MaxAppends \in Nat /\ MaxNotifyFaults \in Nat
    BY ViewAssumption DEF ViewInv
  <2>1. messages \in 0..MaxAppends /\ appended \in 0..MaxAppends /\ announced \in 0..MaxAppends
    BY <2>t DEF ViewTyped, ViewBounds
  <2> DEFINE Queues == UNION {[1..n -> 0..MaxAppends] : n \in 0..MaxAppends}
  <2>2. ASSUME NEW s \in ImapSessions
        PROVE  /\ view[s].queue \in Queues
               /\ view[s].told \in 0..MaxAppends /\ view[s].joined \in 0..MaxAppends
    <3>1. view[s] \in ViewRecord /\ ViewFits(view[s])
      BY <2>t DEF ViewTyped, ViewBounds
    <3>2. view[s].queue \in Seq(Nat) /\ Len(view[s].queue) \in Nat
      BY <3>1 DEF ViewRecord
    <3>3. Len(view[s].queue) <= appended
      BY <2>1, <3>2, FS_CardinalityType DEF QueueRoom
    <3>4. Len(view[s].queue) \in 0..MaxAppends
      BY <2>1, <2>t, <3>2, <3>3
    <3>5. view[s].queue \in [1..Len(view[s].queue) -> 0..MaxAppends]
      BY <2>t, <3>1, <3>2 DEF ViewFits
    <3>6. view[s].queue \in Queues
      BY <3>4, <3>5
    <3> HIDE DEF Queues
    <3> QED BY <2>t, <3>1, <3>6 DEF ViewRecord, ViewFits
  <2>3. view \in [ImapSessions -> [pc : {"idle", "lookup", "create", "join", "watching"},
               tracker : ImapSessions \union {NoTracker},
               queue : Queues, told : 0..MaxAppends, joined : 0..MaxAppends]]
    <3> HIDE DEF Queues
    <3> QED BY <2>t, <2>2 DEF ViewTyped, ViewRecord
  <2>4. notify \in [Appenders -> [pc : {"idle", "notify", "count", "queue"}, append : 0..MaxAppends,
               tracker : ImapSessions \union {NoTracker}, count : 0..MaxAppends, read : 0..MaxAppends]]
    BY <2>t DEF ViewTyped, NotifyRecord, ViewBounds, NotifyFits
  <2> QED BY <2>t, <2>1, <2>3, <2>4 DEF ViewTypeOK, ViewTyped, ViewBounds
<1> HIDE DEF Inv
<1> QED BY <1>1, <1>2, <1>3, PTL DEF ViewSpec

-----------------------------------------------------------------------------
(* MCServices: every step is one of one component and leaves the others alone. *)

LEMMA ServicesProject ==
  [ServicesNext]_servicesVars =>
    /\ [SieveNext]_sieveVars /\ [InboundNext]_inboundVars /\ [DavNext]_davVars
    /\ [LoginNext]_loginVars /\ [ViewNext]_viewVars /\ [MxNext]_mxVars /\ [LifeNext]_lifeVars
BY Zenon DEF ServicesNext, SievePart, InboundPart, DavPart, LoginPart, ViewPart, MxPart, LifePart,
  servicesVars

(* A behaviour of the composition is a behaviour of each of its components: what
   is proved of one of them alone holds of them side by side.                *)
LEMMA ServicesAreComponents ==
  ServicesSpec => /\ SieveSpec /\ InboundSpec /\ DavSpec /\ LoginSpec
                  /\ ViewSpec /\ MxSpec /\ LifeSpec
<1>1. ServicesInit => /\ SieveInit /\ InboundInit /\ DavInit /\ LoginInit
                      /\ ViewInit /\ MxInit /\ LifeInit
  BY DEF ServicesInit
<1> QED BY <1>1, ServicesProject, PTL
        DEF ServicesSpec, SieveSpec, InboundSpec, DavSpec, LoginSpec, ViewSpec, MxSpec, LifeSpec

(* ServicesTypeOK, for every instance: the Sieve parser's counters stay within its
   limits, ETags and ctags are drawn ones, a session of IMAP never has more
   counts queued than there were appends, the workers and the starts of the
   process are as many as there may be.                                      *)
THEOREM ServicesTyped == ServicesSpec => []ServicesTypeOK
<1>1. ServicesTypeOK <=> /\ SieveTypeOK /\ InboundTypeOK /\ DavTypeOK /\ LoginTypeOK
                         /\ ViewTypeOK /\ MxTypeOK /\ LifeTypeOK
  BY DEF ServicesTypeOK
<1> QED BY <1>1, ServicesAreComponents, SieveTypes, InboundTypes, DavTypes, LoginTypesHold,
           ViewTypes, MxTypes, LifeTypes, PTL
=============================================================================
