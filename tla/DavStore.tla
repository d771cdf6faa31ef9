------------------------------- MODULE DavStore -------------------------------
(***************************************************************************)
(* CalDAV and CardDAV (internal/dav): PUT, DELETE and MKCALENDAR requests  *)
(* on one collection, in parallel, and a client that keeps itself in step  *)
(* by the collection's ctag.  Calendars with their events and address      *)
(* books with their contacts have the same handlers, word for word.        *)
(*                                                                         *)
(* Tags are drawn from a counter: ETags are random and ctags the time in   *)
(* nanoseconds, both taken to be fresh.  Every write has its ETag, so the  *)
(* ETag stands for the data as well.                                       *)
(***************************************************************************)
EXTENDS Naturals

CONSTANTS
  DavItems,      \* event or contact UIDs
  DavReqs,       \* handlers, one request at a time each
  MaxDavTags,    \* bound on the tags drawn
  MaxDavFaults   \* bound on failing statements

ASSUME DavAssumption == MaxDavFaults \in Nat /\ MaxDavTags \in Nat

VARIABLES
  davItem,    \* the rows: item -> ETag, 0 when there is none
  davCtag,    \* the collection's ctag, 0 before it exists
  davTags,    \* tags drawn so far
  davReq,     \* the requests
  davSync,    \* the client: its ctag and items, and the ctag PROPFIND gave it
  davFaults, davStale   \* faults; a ctag update has failed
davVars == <<davItem, davCtag, davTags, davReq, davSync, davFaults, davStale>>

NoItems == [i \in DavItems |-> 0]
NoReq == [pc |-> "idle", item |-> 0, cond |-> "none", seen |-> 0, ctag |-> 0,
          replaced |-> 0, etag |-> 0, reply |-> 0]

DavInit ==
  /\ davItem = NoItems /\ davCtag = 0 /\ davTags = 0 /\ davFaults = 0 /\ davStale = FALSE
  /\ davReq = [r \in DavReqs |-> NoReq]
  /\ davSync = [ctag |-> 0, items |-> NoItems, next |-> 0]

DavAt(r, pc) == davReq[r].pc = pc
DavFree(r) == davReq[r].pc \in {"idle", "done"} /\ davTags < MaxDavTags
DavFault == davFaults < MaxDavFaults /\ davFaults' = davFaults + 1
Request(r, f) == davReq' = [davReq EXCEPT ![r] = f]
Respond(r, code) == Request(r, [davReq[r] EXCEPT !.pc = "done", !.reply = code])

(* handleMkCalendar, handleMkAddressBook. *)
MkCollection ==
  /\ davCtag = 0 /\ davCtag' = davTags + 1 /\ davTags' = davTags + 1
  /\ UNCHANGED <<davItem, davReq, davSync, davFaults, davStale>>

(* The preconditions: If-Match with an ETag ("match") is looked at only when
   the row was found, with a star it asks for nothing; If-None-Match is only
   ever the star ("new"). *)
PreconditionFails(cond, etag, seen) ==
  /\ seen # 0
  /\ cond = "new" \/ (cond = "match" /\ etag # seen)

(* PUT reads the row, taking an error for its absence. *)
PutRead(r, i, cond, etag) ==
  /\ DavFree(r)
  /\ \E seen \in {davItem[i], 0} :
       /\ IF seen = davItem[i] THEN UNCHANGED davFaults ELSE DavFault
       /\ Request(r, [NoReq EXCEPT !.item = i, !.cond = cond, !.seen = seen,
            !.pc = IF PreconditionFails(cond, etag, seen) THEN "done" ELSE "write",
            !.reply = IF PreconditionFails(cond, etag, seen) THEN 412 ELSE 0])
  /\ UNCHANGED <<davItem, davCtag, davTags, davSync, davStale>>

(* Without the UNIQUE. *)
RowAcceptsAny(r) == davReq[r].seen # 0 => davItem[davReq[r].item] # 0

(* UpdateEvent needs a row to update, CreateEvent a collection and, by the
   UNIQUE of (calendar_id, uid), no row; both draw the ETag and then the ctag. *)
RowAccepts(r) ==
  IF davReq[r].seen # 0 THEN davItem[davReq[r].item] # 0
  ELSE davCtag # 0 /\ davItem[davReq[r].item] = 0

PutWrite(r) ==
  /\ DavAt(r, "write")
  /\ \/ /\ RowAccepts(r)
        /\ davItem' = [davItem EXCEPT ![davReq[r].item] = davTags + 1]
        /\ davTags' = davTags + 2
        /\ Request(r, [davReq[r] EXCEPT !.pc = "ctag", !.ctag = davTags + 2,
                         !.replaced = davItem[davReq[r].item]])
     \/ ~RowAccepts(r) /\ Respond(r, 500) /\ UNCHANGED <<davItem, davTags>>
  /\ UNCHANGED <<davCtag, davSync, davFaults, davStale>>

(* A DELETE that leaves the ctag alone. *)
DeleteSilently(r, i) ==
  /\ DavFree(r) /\ davItem[i] # 0
  /\ davItem' = [davItem EXCEPT ![i] = 0]
  /\ Request(r, [NoReq EXCEPT !.pc = "done", !.cond = "delete", !.reply = 204])
  /\ UNCHANGED <<davCtag, davTags, davSync, davFaults, davStale>>

(* DeleteEvent, DeleteContact. *)
Delete(r, i) ==
  /\ DavFree(r)
  /\ IF davItem[i] = 0
     THEN /\ Request(r, [NoReq EXCEPT !.pc = "done", !.cond = "delete", !.reply = 404])
          /\ UNCHANGED <<davItem, davTags>>
     ELSE /\ davItem' = [davItem EXCEPT ![i] = 0]
          /\ davTags' = davTags + 1
          /\ Request(r, [NoReq EXCEPT !.pc = "ctag", !.item = i, !.ctag = davTags + 1,
                           !.cond = "delete", !.replaced = davItem[i]])
  /\ UNCHANGED <<davCtag, davSync, davFaults, davStale>>

(* The statement that updates the ctag; its failure fails the request. *)
UpdateCtag(r) ==
  /\ DavAt(r, "ctag")
  /\ \/ /\ davCtag' = davReq[r].ctag /\ UNCHANGED <<davFaults, davStale>>
        /\ Request(r, [davReq[r] EXCEPT !.pc = IF davReq[r].cond = "delete" THEN "done" ELSE "reread",
                         !.ctag = 0, !.reply = 204])
     \/ DavFault /\ davStale' = TRUE /\ Respond(r, 500) /\ UNCHANGED davCtag
  /\ UNCHANGED <<davItem, davTags, davSync>>

(* PUT answers with the ETag the row has by now. *)
PutReread(r) ==
  /\ DavAt(r, "reread")
  /\ Request(r, [davReq[r] EXCEPT !.pc = "done", !.etag = davItem[davReq[r].item]])
  /\ UNCHANGED <<davItem, davCtag, davTags, davSync, davFaults, davStale>>

(* The client: PROPFIND for the ctag and, when it is not the one it has, a
   REPORT for the items. *)
Propfind ==
  /\ davSync.next = 0 /\ davCtag # davSync.ctag
  /\ davSync' = [davSync EXCEPT !.next = davCtag]
  /\ UNCHANGED <<davItem, davCtag, davTags, davReq, davFaults, davStale>>

Report ==
  /\ davSync.next # 0
  /\ davSync' = [ctag |-> davSync.next, items |-> davItem, next |-> 0]
  /\ UNCHANGED <<davItem, davCtag, davTags, davReq, davFaults, davStale>>

DavNext ==
  \/ MkCollection \/ Propfind \/ Report
  \/ \E r \in DavReqs :
       \/ \E i \in DavItems :
            \/ Delete(r, i)
            \/ \E cond \in {"none", "new"} : PutRead(r, i, cond, 0)
            \/ \E etag \in {davItem[i], davSync.items[i]} : PutRead(r, i, "match", etag)
       \/ PutWrite(r) \/ UpdateCtag(r) \/ PutReread(r)

DavSpec == DavInit /\ [][DavNext]_davVars

-----------------------------------------------------------------------------
DavTypeOK ==
  /\ davItem \in [DavItems -> 0..davTags] /\ davCtag \in 0..davTags
  /\ \A r \in DavReqs : davReq[r].reply \in {0, 204, 404, 412, 500}

(* A PUT that found no row, above all one with If-None-Match: *, never
   replaces what another request has put there meanwhile (handleCalDAVPut,
   CreateEvent). *)
CreateNeverReplaces ==
  \A r \in DavReqs : davReq[r].seen = 0 /\ davReq[r].cond # "delete" => davReq[r].replaced = 0

(* When no request is under way and no ctag update has failed, a client whose
   ctag is the collection's has the collection's items: it may skip the
   REPORT (the order of the two statements of CreateEvent, UpdateEvent and
   DeleteEvent). *)
SyncSound ==
  /\ \A r \in DavReqs : davReq[r].pc \in {"idle", "done"}
  /\ ~davStale /\ davSync.ctag # 0 /\ davSync.ctag = davCtag
  => davSync.items = davItem
=============================================================================
