--------------------------- MODULE MailStore_proofs ---------------------------
(***************************************************************************)
(* Type correctness of the mailbox store, and that UIDs ascend, for any    *)
(* number of clients, messages, mailboxes, flags and failures.             *)
(***************************************************************************)
EXTENDS MailStore, TLAPS

(* Places where the client has a message, has read its row or its file, or holds
   the lock on a message that is stored.                                     *)
WithKey == {"write", "uid", "insert", "set", "retag", "rekey", "untag",
            "open", "scanCur", "scanNew", "append"}
WithFile == {"rekey", "untag", "open", "scanCur", "scanNew"}
OnRow == {"retag", "rekey", "untag"}

(* Store.mu belongs to the client that is between Lock and Unlock. *)
MutexHeld == \A c \in Clients : pc[c] \in Locked <=> mu = c

LocalsSet ==
  \A c \in Clients :
    /\ pc[c] \in WithKey => job[c].key \in Keys
    /\ pc[c] \in WithFile => job[c].seen # NoFile

(* SetFlags works on a row: nobody else deletes it while the lock is held. *)
RowHeld == \A c \in Clients : pc[c] \in OnRow => job[c].key \in rows

Typed == TypeOK /\ MutexHeld /\ LocalsSet /\ RowHeld

-----------------------------------------------------------------------------
LEMMA NoJobType == NoJob \in Job /\ NoJob.key = NoKey /\ NoJob.seen = NoFile
BY StoreAssumption DEF NoJob, Job

LEMMA NameTypes ==
  ASSUME NEW flags
  PROVE  NameFor(flags) \in FileName /\ DirFor(flags) \in {"new", "cur"}
<1>1. (flags \intersect MaildirFlags # {}) \in BOOLEAN
  BY Zenon
<1> QED BY <1>1 DEF NameFor, DirFor, FileName

(* A client moves to another place with other local variables. *)
LEMMA GotoTypes ==
  ASSUME Typed, NEW c \in Clients, NEW place \in PCs, NEW j \in Job, Goto(c, place, j),
         place \in Locked => mu \in {NoClient, c},
         place \in WithKey => j.key \in Keys,
         place \in WithFile => j.seen # NoFile
  PROVE  /\ pc' \in [Clients -> PCs] /\ job' \in [Clients -> Job]
         /\ mu' \in Clients \union {NoClient}
         /\ MutexHeld' /\ LocalsSet'
         /\ pc'[c] = place /\ job'[c] = j
         /\ \A d \in Clients \ {c} : pc'[d] = pc[d] /\ job'[d] = job[d]
<1>t. /\ pc \in [Clients -> PCs] /\ job \in [Clients -> Job]
      /\ mu \in Clients \union {NoClient} /\ NoClient \notin Clients
  BY StoreAssumption DEF Typed, TypeOK
<1>1. /\ pc' = [pc EXCEPT ![c] = place] /\ job' = [job EXCEPT ![c] = j]
      /\ mu' = IF place \in Locked THEN c ELSE IF mu = c THEN NoClient ELSE mu
  BY DEF Goto
<1>2. /\ pc' \in [Clients -> PCs] /\ job' \in [Clients -> Job]
      /\ mu' \in Clients \union {NoClient}
      /\ pc'[c] = place /\ job'[c] = j
      /\ \A d \in Clients \ {c} : pc'[d] = pc[d] /\ job'[d] = job[d]
  BY <1>t, <1>1
<1>3. MutexHeld'
  BY <1>t, <1>1, <1>2 DEF Typed, MutexHeld
<1>4. LocalsSet'
  BY <1>2 DEF Typed, LocalsSet
<1> QED BY <1>2, <1>3, <1>4

(* A client's step: its locals by Goto, the stored state typed, and no row taken
   from under another client, who would hold the lock.                       *)
LEMMA TypedStep ==
  ASSUME Typed, NEW c \in Clients, NEW place \in PCs, NEW j \in Job, Goto(c, place, j),
         place \in Locked => mu \in {NoClient, c},
         place \in WithKey => j.key \in Keys,
         place \in WithFile => j.seen # NoFile,
         place \in OnRow => j.key \in rows',
         rows \subseteq rows' \/ mu \in {NoClient, c},
         boxes' \subseteq Boxes, name' \in [Boxes -> Names], uidnext' \in [Boxes -> Nat],
         row' \in [Keys -> Row \union {NoRow}],
         issued' \in [Keys -> [box: Boxes, uid: Nat]],
         dirs' \subseteq Paths, file' \in [Keys -> File \union {NoFile}],
         doomed' \subseteq Keys, torn' \subseteq Boxes, astray' \subseteq Keys,
         events' \in 0..MaxEvents
  PROVE  Typed'
<1>1. /\ pc' \in [Clients -> PCs] /\ job' \in [Clients -> Job]
      /\ mu' \in Clients \union {NoClient}
      /\ MutexHeld' /\ LocalsSet'
      /\ pc'[c] = place /\ job'[c] = j
      /\ \A d \in Clients \ {c} : pc'[d] = pc[d] /\ job'[d] = job[d]
  BY GotoTypes
<1>2. TypeOK'
  BY <1>1 DEF TypeOK
<1>3. RowHeld'
  <2> SUFFICES ASSUME NEW d \in Clients, pc'[d] \in OnRow
               PROVE  job'[d].key \in rows'
    BY DEF RowHeld
  <2>1. CASE d = c
    BY <1>1, <2>1
  <2>2. CASE d # c
    <3>1. pc[d] \in OnRow /\ job'[d] = job[d]
      BY <1>1, <2>2
    <3>2. mu = d
      BY <3>1 DEF Typed, MutexHeld, OnRow, Locked, PCs
    <3>3. job[d].key \in rows
      BY <3>1 DEF Typed, RowHeld
    <3> QED BY <2>2, <3>1, <3>2, <3>3, StoreAssumption
  <2> QED BY <2>1, <2>2
<1> QED BY <1>1, <1>2, <1>3 DEF Typed

(* Types of what a client in the middle of an operation works on. *)
LEMMA LocalTypes ==
  ASSUME Typed, NEW c \in Clients
  PROVE  /\ pc[c] \in PCs
         /\ job[c] \in Job /\ job[c].box \in Boxes /\ job[c].flags \in SUBSET Flags
         /\ job[c].uid \in Nat /\ job[c].todo \in SUBSET Keys /\ job[c].old \in Names
         /\ PathOfBox(job[c].box) \in Paths /\ PathOf[job[c].old] \in Paths
         /\ pc[c] \in Locked => mu = c
         /\ pc[c] \in WithKey => job[c].key \in Keys
         /\ pc[c] \in WithFile => job[c].seen \in File
         /\ pc[c] \in OnRow => /\ job[c].key \in rows
                               /\ row[job[c].key] \in Row
                               /\ PathOfBox(row[job[c].key].box) \in Paths
<1>1. pc[c] \in PCs /\ job[c] \in Job
  BY DEF Typed, TypeOK
<1>2. /\ job[c].box \in Boxes /\ job[c].flags \in SUBSET Flags
      /\ job[c].uid \in Nat /\ job[c].todo \in SUBSET Keys /\ job[c].old \in Names
      /\ job[c].seen \in File \union {NoFile}
  BY <1>1 DEF Job
<1>3. \A b \in Boxes : PathOfBox(b) \in Paths
  BY StoreAssumption DEF PathOfBox, Typed, TypeOK
<1>4. pc[c] \in OnRow => job[c].key \in rows /\ row[job[c].key] \in Row
  BY DEF Typed, RowHeld, rows, TypeOK
<1>5. pc[c] \in OnRow => PathOfBox(row[job[c].key].box) \in Paths
  BY <1>3, <1>4 DEF Row
<1>6. pc[c] \in Locked => mu = c
  BY DEF Typed, MutexHeld
<1> QED BY <1>1, <1>2, <1>3, <1>4, <1>5, <1>6, StoreAssumption DEF Typed, LocalsSet

-----------------------------------------------------------------------------
(* The actions keep the types, one lemma for each command.                   *)

LEMMA EventType ==
  ASSUME Typed, NEW kind, Event(kind)
  PROVE  events' \in 0..MaxEvents
BY StoreAssumption DEF Event, Typed, TypeOK

(* A client returns; the stored state may have changed. *)
LEMMA ReturnStep ==
  ASSUME Typed, NEW c \in Clients, Return(c),
         rows \subseteq rows' \/ mu \in {NoClient, c},
         boxes' \subseteq Boxes, name' \in [Boxes -> Names], uidnext' \in [Boxes -> Nat],
         row' \in [Keys -> Row \union {NoRow}],
         issued' \in [Keys -> [box: Boxes, uid: Nat]],
         dirs' \subseteq Paths, file' \in [Keys -> File \union {NoFile}],
         doomed' \subseteq Keys, torn' \subseteq Boxes, astray' \subseteq Keys,
         events' \in 0..MaxEvents
  PROVE  Typed'
<1>1. "idle" \in PCs /\ "idle" \notin Locked \union WithKey \union WithFile \union OnRow
  BY DEF PCs, Locked, WithKey, WithFile, OnRow
<1> QED BY <1>1, NoJobType, TypedStep DEF Return

(* A step without a change of what is stored. *)
LEMMA QuietTypes ==
  ASSUME Typed, NEW c \in Clients, NEW place \in PCs, NEW j \in Job, Goto(c, place, j),
         place \in Locked => mu \in {NoClient, c},
         place \in WithKey => j.key \in Keys,
         place \in WithFile => j.seen # NoFile,
         place \in OnRow => j.key \in rows,
         UNCHANGED <<dbVars, fsVars, damageVars, events>>
  PROVE  Typed'
<1>1. rows' = rows
  BY DEF rows, dbVars
<1> QED BY <1>1, TypedStep DEF dbVars, fsVars, damageVars, Typed, TypeOK

LEMMA AppendToTypes ==
  ASSUME Typed, NEW c \in Clients, NEW k \in Keys, NEW b \in Boxes, NEW flags \in SUBSET Flags,
         AppendTo(c, k, b, flags), UNCHANGED <<dbVars, fsVars, damageVars, events>>
  PROVE  Typed'
<1> DEFINE j == [NoJob EXCEPT !.key = k, !.box = b, !.flags = flags, !.uid = uidnext[b]]
<1>1. j \in Job /\ j.key = k
  BY NoJobType DEF Job, Typed, TypeOK
<1>2. Goto(c, "write", j) /\ mu = NoClient
  BY DEF AppendTo
<1>3. "write" \in PCs /\ "write" \notin WithFile \union OnRow
  BY DEF PCs, WithFile, OnRow
<1> HIDE DEF j
<1> QED BY <1>1, <1>2, <1>3, QuietTypes

LEMMA AppendTypes ==
  ASSUME Typed, NEW c \in Clients, Append(c)
  PROVE  Typed'
<1>l. /\ job[c] \in Job /\ job[c].box \in Boxes /\ job[c].flags \in SUBSET Flags
      /\ job[c].uid \in Nat /\ PathOfBox(job[c].box) \in Paths
      /\ pc[c] \in Locked => mu = c
      /\ pc[c] \in WithKey => job[c].key \in Keys
  BY LocalTypes
<1>p. /\ {"uid", "insert", "unseen"} \subseteq PCs
      /\ {"uid", "insert", "unseen"} \intersect (WithFile \union OnRow) = {}
      /\ {"write", "uid", "insert", "unseen"} \subseteq Locked
      /\ {"write", "uid", "insert"} \subseteq WithKey
      /\ "unseen" \notin WithKey
  BY DEF PCs, Locked, WithKey, WithFile, OnRow
<1>t. TypeOK
  BY DEF Typed
<1>1. CASE AppendMessage(c)
  <2>1. PICK k \in Unused, b \in boxes, flags \in SUBSET Flags : AppendTo(c, k, b, flags)
    BY <1>1 DEF AppendMessage
  <2>2. k \in Keys /\ b \in Boxes
    BY <1>t DEF Unused, TypeOK
  <2> QED BY <1>1, <2>1, <2>2, AppendToTypes DEF AppendMessage
<1>2. CASE AppendWrite(c)
  <2> DEFINE k == job[c].key
             path == PathOfBox(job[c].box)
             new == [path |-> path, dir |-> DirFor(job[c].flags), key |-> NameFor(job[c].flags)]
  <2>1. pc[c] = "write" /\ mu = c /\ k \in Keys /\ new \in File
    BY <1>2, <1>l, <1>p, NameTypes DEF AppendWrite, File
  <2>2. dirs \union {path} \subseteq Paths
    BY <1>l, <1>t DEF TypeOK
  <2>3. CASE /\ dirs' = dirs \union {path} /\ file' = [file EXCEPT ![k] = new]
             /\ Goto(c, "uid", job[c]) /\ UNCHANGED events
    <3>1. file' \in [Keys -> File \union {NoFile}]
      BY <2>1, <2>3, <1>t DEF TypeOK
    <3>2. rows' = rows
      BY <1>2 DEF AppendWrite, dbVars, rows
    <3> HIDE DEF k, path, new
    <3> QED BY <1>2, <1>l, <1>p, <1>t, <2>1, <2>2, <2>3, <3>1, <3>2, TypedStep
            DEF AppendWrite, dbVars, damageVars, TypeOK, k
  <2>4. CASE Event("fs") /\ dirs' \in {dirs, dirs \union {path}} /\ Return(c) /\ UNCHANGED file
    <3>1. events' \in 0..MaxEvents /\ dirs' \subseteq Paths
      BY <1>t, <2>2, <2>4, EventType DEF TypeOK
    <3> QED BY <1>2, <1>t, <2>1, <2>4, <3>1, ReturnStep
            DEF AppendWrite, dbVars, damageVars, TypeOK
  <2> QED BY <1>2, <2>3, <2>4 DEF AppendWrite
<1>f. ASSUME AppendFails(c), pc[c] \in {"uid", "insert"}, UNCHANGED damageVars
      PROVE  Typed'
  <2>1. events' \in 0..MaxEvents
    BY <1>f, EventType DEF AppendFails
  <2>2. file' \in [Keys -> File \union {NoFile}]
    BY <1>f, <1>t DEF AppendFails, TypeOK
  <2> QED BY <1>f, <1>l, <1>p, <1>t, <2>1, <2>2, ReturnStep
          DEF AppendFails, dbVars, damageVars, TypeOK
<1>3. CASE AppendUid(c)
  <2>1. pc[c] = "uid" /\ mu = c /\ job[c].key \in Keys
    BY <1>3, <1>l, <1>p DEF AppendUid
  <2>2. CASE /\ uidnext' = [uidnext EXCEPT ![job[c].box] = @ + 1]
             /\ Goto(c, "insert", job[c])
             /\ UNCHANGED <<boxes, name, row, issued, fsVars, events>>
    <3>1. uidnext' \in [Boxes -> Nat]
      BY <1>l, <1>t, <2>2 DEF TypeOK
    <3>2. rows' = rows
      BY <2>2 DEF rows
    <3> QED BY <1>3, <1>l, <1>p, <1>t, <2>1, <2>2, <3>1, <3>2, TypedStep
            DEF AppendUid, fsVars, damageVars, TypeOK
  <2> QED BY <1>3, <1>f, <2>1, <2>2 DEF AppendUid
<1>4. CASE AppendInsert(c)
  <2> DEFINE k == job[c].key
             new == [box |-> job[c].box, uid |-> job[c].uid,
                     key |-> NameFor(job[c].flags), flags |-> job[c].flags]
             j == [NoJob EXCEPT !.box = job[c].box]
  <2>1. pc[c] = "insert" /\ mu = c /\ k \in Keys /\ new \in Row
    BY <1>4, <1>l, <1>p, NameTypes DEF AppendInsert, Row
  <2>j. j \in Job
    BY <1>l, NoJobType DEF Job
  <2>2. CASE /\ issued' = [issued EXCEPT ![k] = [box |-> job[c].box, uid |-> job[c].uid]]
             /\ row' = [row EXCEPT ![k] = new]
             /\ Goto(c, "unseen", j)
             /\ UNCHANGED <<boxes, name, uidnext, fsVars, events>>
    <3>1. row' \in [Keys -> Row \union {NoRow}]
      BY <1>t, <2>1, <2>2 DEF TypeOK
    <3>2. issued' \in [Keys -> [box: Boxes, uid: Nat]]
      BY <1>l, <1>t, <2>1, <2>2 DEF TypeOK
    <3> HIDE DEF j, new, k
    <3> QED BY <1>4, <1>p, <1>t, <2>1, <2>j, <2>2, <3>1, <3>2, TypedStep
            DEF AppendInsert, fsVars, damageVars, TypeOK
  <2> QED BY <1>4, <1>f, <2>1, <2>2 DEF AppendInsert
<1>5. CASE AppendUnseen(c)
  <2>1. pc[c] = "unseen" /\ mu = c
    BY <1>5, <1>l, <1>p DEF AppendUnseen
  <2>2. ASSUME NEW k \in files,
               file' = [file EXCEPT ![k].dir = "cur", ![k].key.info = TRUE],
               astray' \in {astray, astray \union {k}},
               UNCHANGED <<localVars, events>>
        PROVE  Typed'
    <3>1. k \in Keys /\ file[k] \in File
      BY <1>t DEF files, TypeOK
    <3>2. [file[k] EXCEPT !.dir = "cur", !.key.info = TRUE] \in File
      BY <3>1 DEF File, FileName
    <3>3. file' = [file EXCEPT ![k] = [file[k] EXCEPT !.dir = "cur", !.key.info = TRUE]]
      BY <1>t, <2>2, <3>1 DEF TypeOK
    <3>4. file' \in [Keys -> File \union {NoFile}]
      BY <1>t, <3>1, <3>2, <3>3 DEF TypeOK
    <3>5. TypeOK'
      BY <1>5, <1>t, <2>2, <3>1, <3>4 DEF AppendUnseen, TypeOK, dbVars, localVars
    <3> QED BY <1>5, <2>2, <3>5
            DEF Typed, MutexHeld, LocalsSet, RowHeld, rows, localVars, dbVars, AppendUnseen
  <2>3. ASSUME Return(c), UNCHANGED <<file, astray>>, events' \in 0..MaxEvents
        PROVE  Typed'
    BY <1>5, <1>t, <2>1, <2>3, ReturnStep DEF AppendUnseen, TypeOK, dbVars
  <2>4. Event("fs") => events' \in 0..MaxEvents
    BY EventType
  <2>5. UNCHANGED events => events' \in 0..MaxEvents
    BY <1>t DEF TypeOK
  <2> QED BY <1>5, <2>2, <2>3, <2>4, <2>5 DEF AppendUnseen
<1> QED BY <1>1, <1>2, <1>3, <1>4, <1>5 DEF Append

LEMMA StoreTypes ==
  ASSUME Typed, NEW c \in Clients, Store(c)
  PROVE  Typed'
<1>l. /\ job[c] \in Job /\ job[c].flags \in SUBSET Flags
      /\ pc[c] \in Locked => mu = c
      /\ pc[c] \in WithKey => job[c].key \in Keys
      /\ pc[c] \in WithFile => job[c].seen \in File
      /\ pc[c] \in OnRow => /\ job[c].key \in rows
                            /\ row[job[c].key] \in Row
                            /\ PathOfBox(row[job[c].key].box) \in Paths
  BY LocalTypes
<1>p. /\ {"set", "retag", "rekey", "untag"} \subseteq PCs \intersect WithKey
      /\ "set" \notin Locked \union WithFile \union OnRow
      /\ {"retag", "rekey", "untag"} \subseteq Locked \intersect OnRow
      /\ "retag" \notin WithFile /\ {"rekey", "untag"} \subseteq WithFile
  BY DEF PCs, Locked, WithKey, WithFile, OnRow
<1>t. TypeOK
  BY DEF Typed
<1>e. \A kind : Event(kind) => events' \in 0..MaxEvents
  BY EventType
<1>1. CASE UpdateFlags(c) \/ ReplaceFlags(c)
  <2>1. PICK k \in rows, flags \in SUBSET Flags :
               Goto(c, "set", [NoJob EXCEPT !.key = k, !.flags = flags])
    <3>1. CASE ReplaceFlags(c)
      BY <3>1 DEF ReplaceFlags
    <3>2. CASE UpdateFlags(c)
      <4>1. PICK k \in rows, f \in Flags :
              \E flags \in {row[k].flags \union {f}, row[k].flags \ {f}} :
                Goto(c, "set", [NoJob EXCEPT !.key = k, !.flags = flags])
        BY <3>2 DEF UpdateFlags
      <4>2. row[k].flags \in SUBSET Flags
        BY <1>t DEF TypeOK, rows, Row
      <4>3. row[k].flags \union {f} \in SUBSET Flags /\ row[k].flags \ {f} \in SUBSET Flags
        BY <4>2
      <4> QED BY <4>1, <4>3
    <3> QED BY <1>1, <3>1, <3>2
  <2> DEFINE j == [NoJob EXCEPT !.key = k, !.flags = flags]
  <2>2. j \in Job /\ j.key \in Keys
    BY NoJobType DEF Job, rows
  <2>3. UNCHANGED <<dbVars, fsVars, damageVars, events>>
    BY <1>1 DEF UpdateFlags, ReplaceFlags
  <2>4. Goto(c, "set", j)
    BY <2>1
  <2> HIDE DEF j
  <2> QED BY <1>p, <2>2, <2>3, <2>4, QuietTypes
<1>2. CASE SetFlags(c)
  <2> DEFINE k == job[c].key
  <2>1. pc[c] = "set" /\ mu = NoClient /\ k \in Keys
    BY <1>2, <1>l, <1>p DEF SetFlags
  <2>2. CASE /\ k \in rows /\ row' = [row EXCEPT ![k].flags = job[c].flags]
             /\ Goto(c, "retag", job[c]) /\ UNCHANGED events
    <3>1. row[k] \in Row
      BY <1>t, <2>1, <2>2 DEF rows, TypeOK
    <3>2. [row[k] EXCEPT !.flags = job[c].flags] \in Row
      BY <1>l, <3>1 DEF Row
    <3>3. row' = [row EXCEPT ![k] = [row[k] EXCEPT !.flags = job[c].flags]]
      BY <2>2
    <3>4. row' \in [Keys -> Row \union {NoRow}]
      BY <1>t, <2>1, <3>2, <3>3 DEF TypeOK
    <3>5. k \in rows'
      BY <1>t, <2>1, <3>2, <3>3, NullAssumption DEF rows, TypeOK
    <3> HIDE DEF k
    <3> QED BY <1>2, <1>l, <1>p, <1>t, <2>1, <2>2, <3>4, <3>5, TypedStep
            DEF SetFlags, fsVars, damageVars, TypeOK, k
  <2>3. CASE Return(c) /\ UNCHANGED row /\ events' \in 0..MaxEvents
    BY <1>2, <1>t, <2>1, <2>3, ReturnStep DEF SetFlags, fsVars, damageVars, TypeOK
  <2> QED BY <1>2, <1>e, <1>t, <2>2, <2>3 DEF SetFlags, TypeOK
<1>3. CASE Retag(c)
  <2> DEFINE k == job[c].key
             new == [path |-> PathOfBox(row[k].box), dir |-> DirFor(job[c].flags),
                     key |-> NameFor(job[c].flags)]
             j == [job[c] EXCEPT !.seen = file[k]]
  <2>1. pc[c] = "retag" /\ mu = c /\ k \in Keys /\ k \in rows /\ new \in File
    BY <1>3, <1>l, <1>p, NameTypes DEF Retag, File
  <2>2. CASE /\ k \in files /\ file' = [file EXCEPT ![k] = new]
             /\ Goto(c, "rekey", j) /\ UNCHANGED events
    <3>1. file[k] \in File
      BY <1>t, <2>1, <2>2 DEF files, TypeOK
    <3>2. j \in Job /\ j.key = k /\ j.seen # NoFile
      BY <1>l, <3>1, NullAssumption DEF Job
    <3>3. file' \in [Keys -> File \union {NoFile}]
      BY <1>t, <2>1, <2>2 DEF TypeOK
    <3>4. rows' = rows
      BY <1>3 DEF Retag, dbVars, rows
    <3> HIDE DEF k, j, new
    <3> QED BY <1>3, <1>p, <1>t, <2>1, <2>2, <3>2, <3>3, <3>4, TypedStep
            DEF Retag, dbVars, damageVars, TypeOK
  <2>3. CASE Return(c) /\ UNCHANGED file /\ events' \in 0..MaxEvents
    BY <1>3, <1>t, <2>1, <2>3, ReturnStep DEF Retag, dbVars, damageVars, TypeOK
  <2> QED BY <1>3, <1>e, <1>t, <2>2, <2>3 DEF Retag, Exact, TypeOK
<1>4. CASE Rekey(c)
  <2> DEFINE k == job[c].key
  <2>1. pc[c] = "rekey" /\ mu = c /\ k \in Keys /\ k \in rows /\ row[k] \in Row
    BY <1>4, <1>l, <1>p DEF Rekey
  <2>2. CASE row' = [row EXCEPT ![k].key = NameFor(job[c].flags)] /\ Return(c) /\ UNCHANGED events
    <3>1. [row[k] EXCEPT !.key = NameFor(job[c].flags)] \in Row
      BY <2>1, NameTypes DEF Row
    <3>2. row' \in [Keys -> Row \union {NoRow}]
      BY <1>t, <2>1, <2>2, <3>1 DEF TypeOK
    <3> QED BY <1>4, <1>t, <2>1, <2>2, <3>2, ReturnStep DEF Rekey, fsVars, damageVars, TypeOK
  <2>3. CASE Event("db") /\ Goto(c, "untag", job[c]) /\ UNCHANGED row
    <3>1. rows' = rows
      BY <2>3 DEF rows
    <3>2. job[c].seen # NoFile
      BY <1>l, <1>p, <2>1, NullAssumption
    <3> QED BY <1>4, <1>e, <1>l, <1>p, <1>t, <2>1, <2>3, <3>1, <3>2, TypedStep
            DEF Rekey, fsVars, damageVars, TypeOK
  <2> QED BY <1>4, <2>2, <2>3 DEF Rekey
<1>5. CASE Untag(c)
  <2>1. pc[c] = "untag" /\ mu = c /\ job[c].key \in Keys /\ job[c].seen \in File
    BY <1>5, <1>l, <1>p DEF Untag
  <2>2. file' \in [Keys -> File \union {NoFile}] /\ astray' \subseteq Keys
    BY <1>5, <1>t, <2>1 DEF Untag, TypeOK
  <2> QED BY <1>5, <1>t, <2>1, <2>2, ReturnStep DEF Untag, dbVars, TypeOK
<1> QED BY <1>1, <1>2, <1>3, <1>4, <1>5 DEF Store

LEMMA CopyTypes ==
  ASSUME Typed, NEW c \in Clients, Copy(c)
  PROVE  Typed'
<1>l. /\ job[c] \in Job /\ job[c].box \in Boxes /\ job[c].flags \in SUBSET Flags
      /\ pc[c] \in WithKey => job[c].key \in Keys
      /\ pc[c] \in WithFile => job[c].seen \in File
  BY LocalTypes
<1>p. /\ {"open", "scanCur", "scanNew"} \subseteq PCs \intersect WithKey \intersect WithFile
      /\ "append" \in PCs \intersect WithKey /\ "append" \notin WithFile
      /\ {"open", "scanCur", "scanNew", "append"} \intersect (Locked \union OnRow) = {}
  BY DEF PCs, Locked, WithKey, WithFile, OnRow
<1>t. TypeOK
  BY DEF Typed
<1>b. \A b \in Boxes : PathOfBox(b) \in Paths
  BY <1>t, StoreAssumption DEF PathOfBox, TypeOK
<1>u. UNCHANGED <<dbVars, fsVars, damageVars, events>>
  BY DEF Copy, CopyMessage, OpenBody, ScanBody, AppendCopy
<1>r. ASSUME Return(c)
      PROVE  Typed'
  <2>1. rows' = rows
    BY <1>u DEF dbVars, rows
  <2> QED BY <1>r, <1>t, <1>u, <2>1, ReturnStep DEF dbVars, fsVars, damageVars, TypeOK
<1>f. ASSUME Found(c)
      PROVE  Typed'
  <2>1. CASE Return(c)
    BY <1>r, <2>1
  <2>2. ASSUME NEW k \in Unused, Goto(c, "append", [job[c] EXCEPT !.key = k])
        PROVE  Typed'
    <3> DEFINE j == [job[c] EXCEPT !.key = k]
    <3>1. j \in Job /\ j.key \in Keys
      BY <1>l DEF Job, Unused
    <3>2. Goto(c, "append", j)
      BY <2>2
    <3> HIDE DEF j
    <3> QED BY <1>p, <1>u, <3>1, <3>2, QuietTypes
  <2> QED BY <1>f, <2>1, <2>2 DEF Found
<1>1. CASE CopyMessage(c)
  <2>1. PICK k \in rows, b \in boxes :
          Goto(c, "open", [NoJob EXCEPT !.key = k, !.box = b, !.flags = row[k].flags,
                                        !.seen = [path |-> PathOfBox(row[k].box), dir |-> "cur",
                                                   key |-> row[k].key]])
    BY <1>1 DEF CopyMessage
  <2> DEFINE seen == [path |-> PathOfBox(row[k].box), dir |-> "cur", key |-> row[k].key]
             j == [NoJob EXCEPT !.key = k, !.box = b, !.flags = row[k].flags, !.seen = seen]
  <2>2. k \in Keys /\ b \in Boxes /\ row[k] \in Row
    BY <1>t DEF rows, TypeOK
  <2>3. seen \in File /\ row[k].flags \in SUBSET Flags
    BY <1>b, <2>2 DEF File, Row
  <2>4. Goto(c, "open", j)
    BY <2>1
  <2> HIDE DEF seen
  <2>5. j \in Job /\ j.key \in Keys /\ j.seen # NoFile
    BY <2>2, <2>3, NoJobType, NullAssumption DEF Job
  <2> HIDE DEF j
  <2> QED BY <1>p, <1>u, <2>4, <2>5, QuietTypes
<1>2. CASE OpenBody(c)
  <2>1. pc[c] = "open" /\ job[c].seen \in File /\ job[c].key \in Keys
    BY <1>2, <1>l, <1>p DEF OpenBody
  <2> DEFINE path == PathOfBox(issued[job[c].key].box)
             j == [job[c] EXCEPT !.seen.path = path]
  <2>2. path \in Paths
    BY <1>b, <1>t, <2>1 DEF TypeOK
  <2> HIDE DEF path
  <2>3. [job[c].seen EXCEPT !.path = path] \in File
    BY <2>1, <2>2 DEF File
  <2>4. j = [job[c] EXCEPT !.seen = [job[c].seen EXCEPT !.path = path]]
    BY <1>l DEF Job
  <2>5. j \in Job /\ j.key \in Keys /\ j.seen # NoFile
    BY <1>l, <2>1, <2>3, <2>4, NullAssumption DEF Job
  <2>6. ASSUME Goto(c, "scanCur", j)
        PROVE  Typed'
    <3> HIDE DEF j
    <3> QED BY <1>p, <1>u, <2>5, <2>6, QuietTypes
  <2> QED BY <1>2, <1>f, <1>r, <2>6 DEF OpenBody, path
<1>3. CASE ScanBody(c)
  <2>1. ASSUME Goto(c, "scanNew", job[c]), pc[c] = "scanCur"
        PROVE  Typed'
    <3>1. job[c].key \in Keys /\ job[c].seen # NoFile
      BY <1>l, <1>p, <2>1, NullAssumption
    <3> QED BY <1>l, <1>p, <1>u, <2>1, <3>1, QuietTypes
  <2> QED BY <1>3, <1>f, <1>r, <2>1 DEF ScanBody, ScanFor
<1>4. CASE AppendCopy(c)
  <2>1. job[c].key \in Keys
    BY <1>4, <1>l, <1>p DEF AppendCopy
  <2> QED BY <1>4, <1>l, <1>r, <1>u, <2>1, AppendToTypes DEF AppendCopy
<1> QED BY <1>1, <1>2, <1>3, <1>4 DEF Copy

LEMMA ExpungeTypes ==
  ASSUME Typed, NEW c \in Clients, Expunge(c)
  PROVE  Typed'
<1>l. /\ job[c] \in Job /\ job[c].todo \in SUBSET Keys /\ job[c].box \in Boxes
      /\ pc[c] \in Locked => mu = c
  BY LocalTypes
<1>p. /\ {"unlink", "purge"} \subseteq PCs \intersect Locked
      /\ {"unlink", "purge"} \intersect (WithKey \union WithFile \union OnRow) = {}
  BY DEF PCs, Locked, WithKey, WithFile, OnRow
<1>t. TypeOK
  BY DEF Typed
<1>c. \A b : Condemned(b) \subseteq Keys
  BY DEF Condemned, rows
<1>1. CASE ExpungeMailbox(c)
  <2>1. PICK b \in boxes : /\ Goto(c, "unlink", [NoJob EXCEPT !.box = b, !.todo = Condemned(b)])
                           /\ doomed' = doomed \union Condemned(b)
    BY <1>1 DEF ExpungeMailbox
  <2> DEFINE j == [NoJob EXCEPT !.box = b, !.todo = Condemned(b)]
  <2>2. j \in Job /\ doomed' \subseteq Keys
    BY <1>c, <1>t, <2>1, NoJobType DEF Job, TypeOK
  <2>3. Goto(c, "unlink", j)
    BY <2>1
  <2> HIDE DEF j
  <2> QED BY <1>1, <1>p, <1>t, <2>2, <2>3, TypedStep
          DEF ExpungeMailbox, dbVars, fsVars, TypeOK
<1>2. CASE Unlink(c)
  <2>1. pc[c] = "unlink" /\ mu = c
    BY <1>2, <1>l, <1>p DEF Unlink
  <2>2. PICK k \in job[c].todo :
          LET rest == job[c].todo \ {k}
              there == Exact(k, PathOfBox(job[c].box), row[k].key)
          IN  /\ \/ /\ file' = IF there THEN [file EXCEPT ![k] = NoFile] ELSE file
                    /\ UNCHANGED <<astray, events>>
                 \/ /\ there
                    /\ Event("fs")
                    /\ astray' = astray \union {k}
                    /\ UNCHANGED file
              /\ Goto(c, IF rest = {} THEN "purge" ELSE "unlink",
                      [job[c] EXCEPT !.todo = rest])
    BY <1>2 DEF Unlink
  <2> DEFINE j == [job[c] EXCEPT !.todo = @ \ {k}]
             place == IF job[c].todo \ {k} = {} THEN "purge" ELSE "unlink"
  <2>3. k \in Keys /\ j \in Job /\ place \in {"purge", "unlink"}
    BY <1>l, <2>2 DEF Job
  <2>4. Goto(c, place, j)
    BY <2>2
  <2>5. /\ file' \in [Keys -> File \union {NoFile}] /\ astray' \subseteq Keys
        /\ events' \in 0..MaxEvents
    <3>1. Event("fs") => events' \in 0..MaxEvents
      BY EventType
    <3> QED BY <1>t, <2>2, <2>3, <3>1 DEF TypeOK
  <2> HIDE DEF j, place
  <2> QED BY <1>2, <1>p, <1>t, <2>1, <2>3, <2>4, <2>5, TypedStep
          DEF Unlink, dbVars, TypeOK
<1>3. CASE Purge(c)
  <2>1. mu = c
    BY <1>3, <1>l, <1>p DEF Purge
  <2>2. row' \in [Keys -> Row \union {NoRow}] /\ events' \in 0..MaxEvents
    <3>1. Event("db") => events' \in 0..MaxEvents
      BY EventType
    <3> QED BY <1>3, <1>t, <3>1 DEF Purge, TypeOK
  <2> QED BY <1>3, <1>t, <2>1, <2>2, ReturnStep DEF Purge, fsVars, damageVars, TypeOK
<1> QED BY <1>1, <1>2, <1>3 DEF Expunge

LEMMA ManageTypes ==
  ASSUME Typed, NEW c \in Clients, Manage(c)
  PROVE  Typed'
<1>l. /\ job[c] \in Job /\ job[c].box \in Boxes /\ job[c].old \in Names
      /\ PathOfBox(job[c].box) \in Paths /\ PathOf[job[c].old] \in Paths
      /\ pc[c] \in Locked => mu = c
  BY LocalTypes
<1> DEFINE Here == {"mkdir", "renameDir", "renameBack", "rmdir"}
<1>p. /\ Here \subseteq PCs \intersect Locked
      /\ Here \intersect (WithKey \union WithFile \union OnRow) = {}
  BY DEF PCs, Locked, WithKey, WithFile, OnRow
<1> HIDE DEF Here
<1>h. {"mkdir", "renameDir", "renameBack", "rmdir"} = Here
  BY DEF Here
<1>t. TypeOK
  BY DEF Typed
<1>e. \A kind : Event(kind) => events' \in 0..MaxEvents
  BY EventType
<1>j. \A b \in Boxes, n \in Names : /\ [NoJob EXCEPT !.box = b] \in Job
                                     /\ [NoJob EXCEPT !.box = b, !.old = n] \in Job
  BY NoJobType DEF Job
<1>1. CASE CreateMailbox(c)
  <2>1. PICK b \in Boxes, n \in Names :
          /\ boxes' = boxes \union {b}
          /\ name' = [name EXCEPT ![b] = n]
          /\ uidnext' = [uidnext EXCEPT ![b] = 1]
          /\ Goto(c, "mkdir", [NoJob EXCEPT !.box = b])
    BY <1>1 DEF CreateMailbox
  <2>2. boxes' \subseteq Boxes /\ name' \in [Boxes -> Names] /\ uidnext' \in [Boxes -> Nat]
    BY <1>t, <2>1 DEF TypeOK
  <2>3. mu = NoClient /\ "mkdir" \in Here
    BY <1>1, <1>h DEF CreateMailbox
  <2> QED BY <1>1, <1>j, <1>p, <1>t, <2>1, <2>2, <2>3, TypedStep
          DEF CreateMailbox, fsVars, damageVars, TypeOK
<1>2. CASE Mkdir(c)
  <2>1. mu = c
    BY <1>2, <1>h, <1>l, <1>p DEF Mkdir
  <2>2. boxes' \subseteq Boxes /\ dirs' \subseteq Paths /\ events' \in 0..MaxEvents
    BY <1>2, <1>e, <1>l, <1>t DEF Mkdir, TypeOK
  <2> QED BY <1>2, <1>t, <2>1, <2>2, ReturnStep DEF Mkdir, damageVars, TypeOK
<1>3. CASE RenameMailbox(c)
  <2>1. PICK b \in boxes, n \in Names :
          /\ name' = [name EXCEPT ![b] = n]
          /\ Goto(c, "renameDir", [NoJob EXCEPT !.box = b, !.old = name[b]])
    BY <1>3 DEF RenameMailbox
  <2>2. name' \in [Boxes -> Names] /\ b \in Boxes /\ name[b] \in Names
    BY <1>t, <2>1 DEF TypeOK
  <2>3. mu = NoClient /\ "renameDir" \in Here
    BY <1>3, <1>h DEF RenameMailbox
  <2> QED BY <1>3, <1>j, <1>p, <1>t, <2>1, <2>2, <2>3, TypedStep
          DEF RenameMailbox, fsVars, damageVars, TypeOK
<1>4. CASE RenameDir(c)
  <2> DEFINE from == PathOf[job[c].old]
             to == PathOfBox(job[c].box)
  <2>1. mu = c /\ pc[c] = "renameDir"
    BY <1>4, <1>h, <1>l, <1>p DEF RenameDir
  <2>2. CASE /\ from \in dirs /\ to \notin dirs
             /\ dirs' = (dirs \ {from}) \union {to}
             /\ file' = [k \in Keys |-> IF k \in files /\ file[k].path = from
                                          THEN [file[k] EXCEPT !.path = to] ELSE file[k]]
             /\ Return(c)
             /\ UNCHANGED events
    <3>1. \A k \in files : [file[k] EXCEPT !.path = to] \in File
      BY <1>l, <1>t DEF files, TypeOK, File
    <3>2. file' \in [Keys -> File \union {NoFile}]
      BY <1>t, <2>2, <3>1 DEF TypeOK
    <3>3. dirs' \subseteq Paths
      BY <1>l, <1>t, <2>2 DEF TypeOK
    <3> QED BY <1>4, <1>t, <2>1, <2>2, <3>2, <3>3, ReturnStep
            DEF RenameDir, dbVars, damageVars, TypeOK
  <2>3. CASE Return(c) /\ UNCHANGED <<dirs, file, events>>
    BY <1>4, <1>t, <2>1, <2>3, ReturnStep DEF RenameDir, dbVars, damageVars, TypeOK
  <2>4. CASE Goto(c, "renameBack", job[c]) /\ UNCHANGED <<dirs, file>> /\ events' \in 0..MaxEvents
    <3>1. "renameBack" \in Here
      BY <1>h
    <3> QED BY <1>4, <1>l, <1>p, <1>t, <2>1, <2>4, <3>1, TypedStep
            DEF RenameDir, dbVars, damageVars, TypeOK
  <2> QED BY <1>4, <1>e, <1>t, <2>2, <2>3, <2>4 DEF RenameDir, TypeOK
<1>5. CASE RenameBack(c)
  <2>1. mu = c
    BY <1>5, <1>h, <1>l, <1>p DEF RenameBack
  <2>2. name' \in [Boxes -> Names] /\ torn' \subseteq Boxes
    BY <1>5, <1>l, <1>t DEF RenameBack, TypeOK
  <2> QED BY <1>5, <1>t, <2>1, <2>2, ReturnStep DEF RenameBack, fsVars, TypeOK
<1>6. CASE DeleteMailbox(c)
  <2>1. PICK b \in boxes :
          /\ boxes' = boxes \ {b}
          /\ row' = [k \in Keys |-> IF k \in rows /\ row[k].box = b THEN NoRow ELSE row[k]]
          /\ Goto(c, "rmdir", [NoJob EXCEPT !.box = b])
    BY <1>6 DEF DeleteMailbox
  <2>2. boxes' \subseteq Boxes /\ row' \in [Keys -> Row \union {NoRow}] /\ b \in Boxes
    BY <1>t, <2>1 DEF TypeOK
  <2>3. mu = NoClient /\ "rmdir" \in Here
    BY <1>6, <1>h DEF DeleteMailbox
  <2> QED BY <1>6, <1>j, <1>p, <1>t, <2>1, <2>2, <2>3, TypedStep
          DEF DeleteMailbox, fsVars, damageVars, TypeOK
<1>7. CASE Rmdir(c)
  <2>1. mu = c
    BY <1>7, <1>h, <1>l, <1>p DEF Rmdir
  <2>2. /\ dirs' \subseteq Paths /\ file' \in [Keys -> File \union {NoFile}]
        /\ events' \in 0..MaxEvents
    BY <1>7, <1>e, <1>t DEF Rmdir, TypeOK, fsVars
  <2> QED BY <1>7, <1>t, <2>1, <2>2, ReturnStep DEF Rmdir, dbVars, damageVars, TypeOK
<1> QED BY <1>1, <1>2, <1>3, <1>4, <1>5, <1>6, <1>7 DEF Manage

LEMMA CrashTypes ==
  ASSUME Typed, Crash
  PROVE  Typed'
<1>1. events' \in 0..MaxEvents
  BY EventType DEF Crash
<1>2. "idle" \in PCs /\ "idle" \notin Locked \union WithKey \union WithFile \union OnRow
  BY DEF PCs, Locked, WithKey, WithFile, OnRow
<1>3. Renaming \subseteq Boxes /\ Retagging \subseteq Keys
  <2>1. \A c \in Clients : job[c].box \in Boxes
    BY LocalTypes
  <2>2. \A c \in Clients : pc[c] \in {"rekey", "untag"} => job[c].key \in Keys
    BY DEF Typed, LocalsSet, WithKey
  <2> QED BY <2>1, <2>2 DEF Renaming, Retagging
<1>4. TypeOK'
  BY <1>1, <1>2, <1>3, NoJobType DEF Crash, Typed, TypeOK, dbVars, fsVars
<1>5. MutexHeld' /\ LocalsSet' /\ RowHeld'
  BY <1>2, StoreAssumption DEF Crash, MutexHeld, LocalsSet, RowHeld
<1> QED BY <1>4, <1>5 DEF Typed

LEMMA TypedInit == Init => Typed
<1> SUFFICES ASSUME Init
             PROVE  Typed
  OBVIOUS
<1>1. "idle" \in PCs /\ "idle" \notin Locked \union WithKey \union WithFile \union OnRow
  BY DEF PCs, Locked, WithKey, WithFile, OnRow
<1>2. TypeOK
  BY <1>1, StoreAssumption, NoJobType DEF Init, TypeOK
<1>3. MutexHeld /\ LocalsSet /\ RowHeld
  BY <1>1, StoreAssumption DEF Init, MutexHeld, LocalsSet, RowHeld
<1> QED BY <1>2, <1>3 DEF Typed

LEMMA TypedNext == Typed /\ [Next]_vars => Typed'
<1> SUFFICES ASSUME Typed, [Next]_vars
             PROVE  Typed'
  OBVIOUS
<1>1. CASE UNCHANGED vars
  BY <1>1 DEF vars, dbVars, fsVars, localVars, damageVars, Typed, TypeOK, MutexHeld,
              LocalsSet, RowHeld, rows
<1> QED BY <1>1, AppendTypes, StoreTypes, CopyTypes, ExpungeTypes, ManageTypes, CrashTypes
        DEF Next

LEMMA TypedAlways == Spec => []Typed
BY TypedInit, TypedNext, PTL DEF Spec

(* Every variable of the store keeps its type, through every interleaving of
   clients, failed step and crash.                                           *)
THEOREM StoreTypeCorrect == Spec => []TypeOK
<1>1. Typed => TypeOK
  BY DEF Typed
<1> QED BY <1>1, TypedAlways, PTL

=============================================================================
