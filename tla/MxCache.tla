------------------------------- MODULE MxCache -------------------------------
(***************************************************************************)
(* The MX resolver (smtp/delivery/mx.go) and its cache of one domain:      *)
(* delivery goroutines that look the domain up, each step on the sync.Map  *)
(* one of its own, while DNS answers (external) are slow or fail.  Records *)
(* carry the ticks since the DNS gave them.                                *)
(***************************************************************************)
EXTENDS Integers, FiniteSetsExt

CONSTANTS
  Resolvers,  \* goroutines that look the domain up
  CacheTTL,   \* ttl
  MaxAnswer   \* the longest a lookup takes, from its first query to Store

ASSUME MxAssumption == CacheTTL \in Nat \ {0} /\ MaxAnswer \in Nat

VARIABLES
  mxCache,  \* age of the entry, -1 without one, and of its records
  lookup,   \* resolver -> where its Lookup is, for how long, and its records' age
  answered  \* age of the records that the last Lookup returned, -1 for an error
mxVars == <<mxCache, lookup, answered>>

NoCache == [age |-> -1, records |-> 0]
NoLookup == [pc |-> "idle", busy |-> 0, records |-> 0]
OldestRecords == CacheTTL + MaxAnswer
Grow(age) == Min({age + 1, OldestRecords + 1})

MxInit ==
  /\ mxCache = NoCache
  /\ lookup = [r \in Resolvers |-> NoLookup]
  /\ answered = -1

LookupGoto(r, pc) == lookup' = [lookup EXCEPT ![r].pc = pc]
Found(r, age) == lookup' = [lookup EXCEPT ![r] = NoLookup] /\ answered' = age

(* Lookup: an entry that has not expired is the answer; one that has is deleted
   before the query.                                                         *)
Load(r) ==
  /\ lookup[r].pc = "idle"
  /\ \/ /\ mxCache.age \in 0..(CacheTTL - 1)
        /\ Found(r, mxCache.records)
     \/ /\ mxCache.age >= CacheTTL
        /\ LookupGoto(r, "delete") /\ UNCHANGED answered
     \/ /\ mxCache.age < 0
        /\ LookupGoto(r, "query") /\ UNCHANGED answered
  /\ UNCHANGED mxCache

(* Delete takes away what is there now. *)
DeleteExpired(r) ==
  /\ lookup[r].pc = "delete"
  /\ mxCache' = NoCache
  /\ LookupGoto(r, "query")
  /\ UNCHANGED answered

(* lookupMX: MX records; without any the domain's own address, which
   lookupAFallback looks up, or an error.  Errors are not cached.            *)
Query(r) ==
  /\ lookup[r].pc = "query"
  /\ \/ /\ lookup' = [lookup EXCEPT ![r].pc = "store", ![r].records = 0]
        /\ UNCHANGED answered
     \/ LookupGoto(r, "fallback") /\ UNCHANGED answered
     \/ Found(r, -1)
  /\ UNCHANGED mxCache

LookupAFallback(r) ==
  /\ lookup[r].pc = "fallback"
  /\ \/ /\ lookup' = [lookup EXCEPT ![r].pc = "store", ![r].records = 0]
        /\ UNCHANGED answered
     \/ Found(r, -1)
  /\ UNCHANGED mxCache

(* The entry of another goroutine keeps its records and gets a new expiry. *)
StoreRecordsExtends(r) ==
  /\ lookup[r].pc = "store"
  /\ mxCache' = [age |-> 0, records |-> IF mxCache.age >= 0 THEN mxCache.records ELSE lookup[r].records]
  /\ Found(r, lookup[r].records)

(* Store: the entry expires a ttl from now, whatever is there already. *)
StoreRecords(r) ==
  /\ lookup[r].pc = "store"
  /\ mxCache' = [age |-> 0, records |-> lookup[r].records]
  /\ Found(r, lookup[r].records)

(* Time passes; a lookup is over within MaxAnswer. *)
MxTick ==
  /\ \A r \in Resolvers : lookup[r].pc = "idle" \/ lookup[r].busy < MaxAnswer
  /\ mxCache' = IF mxCache.age < 0 THEN mxCache
                ELSE [age |-> Grow(mxCache.age), records |-> Grow(mxCache.records)]
  /\ lookup' = [r \in Resolvers |->
       IF lookup[r].pc = "idle" THEN lookup[r]
       ELSE [lookup[r] EXCEPT !.busy = @ + 1, !.records = IF lookup[r].pc = "store" THEN @ + 1 ELSE @]]
  /\ UNCHANGED answered

MxNext ==
  \/ \E r \in Resolvers : Load(r) \/ DeleteExpired(r) \/ Query(r) \/ LookupAFallback(r) \/ StoreRecords(r)
  \/ MxTick

MxSpec == MxInit /\ [][MxNext]_mxVars

-----------------------------------------------------------------------------
(* Properties.                                                               *)

MxTypeOK ==
  /\ mxCache \in [age : -1..(OldestRecords + 1), records : 0..(OldestRecords + 1)]
  /\ lookup \in [Resolvers -> [pc : {"idle", "delete", "query", "fallback", "store"},
                               busy : 0..MaxAnswer, records : 0..MaxAnswer]]
  /\ answered \in -1..(OldestRecords + 1)

(* Lookup never returns records older than a ttl and the time of one lookup, in
   whatever order concurrent lookups delete, overwrite and read the entry: no
   race keeps old records alive.                                             *)
RecordsFresh == answered < OldestRecords
=============================================================================
