------------------------ MODULE MailStoreSafety_proofs ------------------------
(***************************************************************************)
(* A stored message keeps its file, UIDs ascend and an expunge removes the *)
(* file with the row, for any number of clients, messages and mailboxes    *)
(* and any number of failures.                                             *)
(***************************************************************************)
EXTENDS MailStore_proofs

(* Places of AppendMessage before the row is inserted. *)
Writing == {"append", "write", "uid", "insert"}
InRename == {"renameDir", "renameBack"}

(* The stored state, at every step of every client. *)
UidsBelow == \A k \in Keys : issued[k].uid < uidnext[issued[k].box]
BoxesOpened == \A b \in boxes : uidnext[b] # 0
NamesUnique == \A a, b \in boxes : name[a] = name[b] => a = b
RowsIssued ==
  \A k \in rows : k \in numbered /\ issued[k].box = row[k].box /\ row[k].box \in boxes
FilesInDirs == \A k \in files : file[k].path \in dirs

Stored ==
  UidsBelow /\ BoxesOpened /\ NamesUnique /\ RowsIssued /\ FilesInDirs /\ MessageReadable

(* A message that is being stored is nobody else's. *)
Fresh ==
  \A c \in Clients : pc[c] \in Writing =>
    job[c].key \notin numbered /\ \A d \in Clients \ {c} : job[d].key # job[c].key

(* What the holder of the lock can rely on. *)
AppendHolds(c) ==
  /\ pc[c] \in {"write", "uid", "insert"} => job[c].box \in boxes /\ job[c].uid # 0
  /\ pc[c] \in {"write", "uid"} => job[c].uid = uidnext[job[c].box]
  /\ pc[c] = "insert" =>
       /\ job[c].uid < uidnext[job[c].box]
       /\ \A k \in Keys : issued[k].box = job[c].box => issued[k].uid < job[c].uid
  /\ pc[c] \in {"uid", "insert"} =>
       job[c].key \in files /\ file[job[c].key].path = PathOfBox(job[c].box)

RekeyHolds(c) ==
  pc[c] \in {"rekey", "untag"} =>
    job[c].seen.path = PathOfBox(row[job[c].key].box) /\ job[c].seen.path \in dirs

ExpungeHolds(c) == pc[c] = "unlink" => job[c].todo \subseteq doomed

RenameHolds(c) ==
  pc[c] \in InRename =>
    /\ job[c].box \in boxes
    /\ \A a \in boxes \ {job[c].box} : name[a] # job[c].old
    /\ \A k \in rows : row[k].box = job[c].box =>
         \/ k \in doomed \/ job[c].box \in torn
         \/ k \in files /\ file[k].path = PathOf[job[c].old]

ManageHolds(c) ==
  /\ pc[c] = "mkdir" => \A k \in rows : row[k].box # job[c].box
  /\ pc[c] = "rmdir" => \A a \in boxes : name[a] # name[job[c].box]

Holds(c) ==
  AppendHolds(c) /\ RekeyHolds(c) /\ ExpungeHolds(c) /\ RenameHolds(c) /\ ManageHolds(c)

Sound == Typed /\ Stored /\ Fresh /\ \A c \in Clients : Holds(c)

-----------------------------------------------------------------------------
(* Places about which Holds says something. *)
Guarded == {"write", "uid", "insert", "rekey", "untag", "unlink", "mkdir", "rmdir"} \union InRename

LEMMA Unguarded ==
  ASSUME NEW c, pc'[c] \notin Guarded
  PROVE  Holds(c)'
BY DEF Guarded, InRename, Holds, AppendHolds, RekeyHolds, ExpungeHolds, RenameHolds, ManageHolds

LEMMA GotoFrame ==
  ASSUME Typed, NEW c \in Clients, NEW place, NEW j, Goto(c, place, j)
  PROVE  /\ pc'[c] = place /\ job'[c] = j
         /\ \A d \in Clients \ {c} : pc'[d] = pc[d] /\ job'[d] = job[d]
BY DEF Goto, Typed, TypeOK

(* The message of a client's next place: none, a fresh one, one that is stored, or
   the one it had.                                                           *)
KeyOf(c, place, j) ==
  \/ j.key = NoKey
  \/ j.key \in Unused
  \/ place \notin Writing /\ j.key \in numbered
  \/ j.key = job[c].key /\ (place \in Writing => pc[c] \in Writing)

LEMMA FreshStep ==
  ASSUME Sound, NEW c \in Clients, NEW place, NEW j, Goto(c, place, j), KeyOf(c, place, j),
         j \in Job, place \in Writing => j.key \in Keys,
         \/ numbered' = numbered
         \/ /\ pc[c] \in Writing /\ place \notin Writing
            /\ numbered' \subseteq numbered \union {job[c].key}
  PROVE  Fresh'
<1>1. /\ pc'[c] = place /\ job'[c] = j
      /\ \A d \in Clients \ {c} : pc'[d] = pc[d] /\ job'[d] = job[d]
  BY GotoFrame DEF Sound
<1>2. NoKey \notin Keys /\ \A d \in Clients : pc[d] \in Writing => job[d].key \in Keys
  BY StoreAssumption DEF Sound, Typed, LocalsSet, Writing, WithKey
<1>3. \A k \in Unused : k \notin numbered /\ \A d \in Clients : job[d].key # k
  BY DEF Unused
<1>4. Fresh
  BY DEF Sound
<1>5. ASSUME NEW d \in Clients \ {c}, pc[d] \in Writing
      PROVE  job[d].key # j.key /\ job[d].key \notin numbered'
  BY <1>2, <1>3, <1>4, <1>5 DEF Fresh, KeyOf
<1>6. ASSUME place \in Writing
      PROVE  j.key \notin numbered' /\ \A d \in Clients \ {c} : job[d].key # j.key
  BY <1>2, <1>3, <1>4, <1>6 DEF Fresh, KeyOf
<1> QED BY <1>1, <1>4, <1>5, <1>6 DEF Fresh

LEMMA RenamingKept ==
  ASSUME Sound, NEW c \in Clients, NEW place, NEW j, Goto(c, place, j), pc[c] \notin InRename
  PROVE  Renaming \subseteq Renaming'
BY GotoFrame DEF Sound, Renaming, InRename

(* Nobody else is inside the lock. *)
LEMMA Alone ==
  ASSUME Sound, NEW c \in Clients, mu \in {NoClient, c}
  PROVE  \A d \in Clients \ {c} : pc[d] \notin Locked
BY StoreAssumption DEF Sound, Typed, MutexHeld

(* A step with the lock held or taken: the others rely on nothing stored. *)
LEMMA LockedStep ==
  ASSUME Sound, NEW c \in Clients, NEW place, NEW j, Goto(c, place, j), mu \in {NoClient, c},
         Holds(c)'
  PROVE  \A d \in Clients : Holds(d)'
<1>1. Guarded \subseteq Locked
  BY DEF Guarded, InRename, Locked, PCs
<1>2. \A d \in Clients \ {c} : pc'[d] \notin Locked
  BY Alone, GotoFrame DEF Sound
<1> QED BY <1>1, <1>2, Unguarded

(* A step without the lock, which changes nothing stored. *)
LEMMA UnlockedStep ==
  ASSUME Sound, NEW c \in Clients, NEW place, NEW j \in Job, Goto(c, place, j),
         place \notin Locked, pc[c] \notin Locked, KeyOf(c, place, j),
         place \in Writing => j.key \in Keys,
         UNCHANGED <<dbVars, fsVars, damageVars>>
  PROVE  Stored' /\ Fresh' /\ \A d \in Clients : Holds(d)'
<1>1. /\ pc'[c] = place /\ job'[c] = j
      /\ \A d \in Clients \ {c} : pc'[d] = pc[d] /\ job'[d] = job[d]
  BY GotoFrame DEF Sound
<1>u. /\ boxes' = boxes /\ name' = name /\ uidnext' = uidnext /\ row' = row /\ issued' = issued
      /\ dirs' = dirs /\ file' = file /\ doomed' = doomed /\ torn' = torn
      /\ rows' = rows /\ files' = files /\ numbered' = numbered
  BY DEF dbVars, fsVars, damageVars, rows, files, numbered
<1>2. Fresh'
  BY <1>u, FreshStep
<1>3. Stored'
  <2>1. Renaming \subseteq Renaming'
    <3>1. pc[c] \notin InRename
      BY DEF InRename, Locked, PCs
    <3> QED BY <3>1, RenamingKept
  <2> QED BY <1>u, <2>1 DEF Sound, Stored, UidsBelow, BoxesOpened, NamesUnique, RowsIssued,
                         FilesInDirs, MessageReadable, PathOfBox
<1>4. Holds(c)'
  <2>1. pc'[c] \notin Guarded
    BY <1>1 DEF Guarded, InRename, Locked, PCs
  <2> QED BY <2>1, Unguarded
<1>5. ASSUME NEW d \in Clients \ {c}
      PROVE  Holds(d)'
  <2>1. Holds(d) /\ pc'[d] = pc[d] /\ job'[d] = job[d]
    BY <1>1 DEF Sound
  <2> QED BY <1>u, <2>1 DEF Holds, AppendHolds, RekeyHolds, ExpungeHolds, RenameHolds,
                         ManageHolds, PathOfBox
<1> QED BY <1>2, <1>3, <1>4, <1>5

-----------------------------------------------------------------------------
(* One lemma for each command.                                               *)

LEMMA PlaceFacts ==
  /\ {"write", "uid", "insert", "unseen"} \subseteq Locked
  /\ {"retag", "rekey", "untag", "unlink", "purge", "mkdir", "rmdir"} \subseteq Locked
  /\ InRename \subseteq Locked
  /\ {"idle", "set", "open", "scanCur", "scanNew", "append"} \intersect Locked = {}
  /\ Writing \subseteq WithKey
  /\ {"idle", "unseen", "set", "retag", "purge"} \intersect Guarded = {}
  /\ Writing \intersect {"idle", "unseen", "set", "retag", "rekey", "untag", "open", "scanCur",
                         "scanNew", "unlink", "purge", "mkdir", "rmdir"} = {}
  /\ Writing \intersect InRename = {}
BY DEF Locked, PCs, InRename, Writing, WithKey, Guarded

(* A client that holds the lock returns. *)
LEMMA ReturnSound ==
  ASSUME Sound, NEW c \in Clients, Return(c), mu \in {NoClient, c},
         numbered' = numbered, Stored'
  PROVE  Fresh' /\ \A d \in Clients : Holds(d)'
<1>1. NoJob \in Job /\ KeyOf(c, "idle", NoJob) /\ "idle" \notin Writing
  BY NoJobType, PlaceFacts DEF KeyOf
<1>2. Fresh'
  BY <1>1, FreshStep DEF Return
<1>3. Holds(c)'
  <2>1. pc'[c] = "idle"
    BY GotoFrame DEF Return, Sound
  <2> QED BY <2>1, Unguarded, PlaceFacts
<1> QED BY <1>2, <1>3, LockedStep DEF Return

(* A message that is being stored has no row yet. *)
LEMMA NoRowYet ==
  ASSUME Sound, NEW c \in Clients, pc[c] \in Writing
  PROVE  job[c].key \in Keys /\ job[c].key \notin rows /\ job[c].key \notin numbered
<1>1. job[c].key \in Keys
  BY PlaceFacts DEF Sound, Typed, LocalsSet
<1>2. job[c].key \notin numbered
  BY DEF Sound, Fresh
<1> QED BY <1>1, <1>2 DEF Sound, Stored, RowsIssued

LEMMA AppendToSound ==
  ASSUME Sound, NEW c \in Clients, NEW k \in Keys, NEW b \in Boxes, NEW flags \in SUBSET Flags,
         AppendTo(c, k, b, flags), k \in Unused \/ (k = job[c].key /\ pc[c] \in Writing),
         pc[c] \notin InRename, UNCHANGED <<dbVars, fsVars, damageVars>>
  PROVE  Stored' /\ Fresh' /\ \A d \in Clients : Holds(d)'
<1> DEFINE j == [NoJob EXCEPT !.key = k, !.box = b, !.flags = flags, !.uid = uidnext[b]]
<1>1. j \in Job /\ j.key = k /\ j.box = b /\ j.uid = uidnext[b]
  BY NoJobType DEF Job, Sound, Typed, TypeOK
<1>2. Goto(c, "write", j) /\ mu = NoClient /\ b \in boxes
  BY DEF AppendTo
<1> HIDE DEF j
<1>u. /\ boxes' = boxes /\ name' = name /\ uidnext' = uidnext /\ row' = row /\ issued' = issued
      /\ dirs' = dirs /\ file' = file /\ doomed' = doomed /\ torn' = torn
      /\ rows' = rows /\ files' = files /\ numbered' = numbered
  BY DEF dbVars, fsVars, damageVars, rows, files, numbered
<1>3. Stored'
  <2>1. Renaming \subseteq Renaming'
    BY <1>2, RenamingKept
  <2> QED BY <1>u, <2>1 DEF Sound, Stored, UidsBelow, BoxesOpened, NamesUnique, RowsIssued,
                         FilesInDirs, MessageReadable, PathOfBox
<1>4. Fresh'
  <2>1. KeyOf(c, "write", j)
    BY <1>1 DEF KeyOf
  <2> QED BY <1>1, <1>2, <1>u, <2>1, FreshStep
<1>5. Holds(c)'
  <2>1. pc'[c] = "write" /\ job'[c] = j
    BY <1>2, GotoFrame DEF Sound
  <2>2. uidnext[b] # 0
    BY <1>2 DEF Sound, Stored, BoxesOpened
  <2> QED BY <1>1, <1>2, <1>u, <2>1, <2>2
          DEF Holds, AppendHolds, RekeyHolds, ExpungeHolds, RenameHolds, ManageHolds, InRename
<1> QED BY <1>2, <1>3, <1>4, <1>5, LockedStep

LEMMA AppendSound ==
  ASSUME Sound, NEW c \in Clients, Append(c)
  PROVE  Stored' /\ Fresh' /\ \A d \in Clients : Holds(d)'
<1>t. Typed /\ TypeOK
  BY DEF Sound, Typed
<1>l. /\ job[c] \in Job /\ job[c].box \in Boxes /\ job[c].uid \in Nat
      /\ PathOfBox(job[c].box) \in Paths
      /\ pc[c] \in Locked => mu = c
  BY <1>t, LocalTypes
<1>h. Stored /\ Holds(c)
  BY DEF Sound
<1>1. CASE AppendMessage(c)
  <2>1. PICK k \in Unused, b \in boxes, flags \in SUBSET Flags : AppendTo(c, k, b, flags)
    BY <1>1 DEF AppendMessage
  <2>2. k \in Keys /\ b \in Boxes /\ pc[c] \notin InRename
    BY <1>1, <1>t DEF Unused, TypeOK, AppendMessage, InRename
  <2>3. UNCHANGED <<dbVars, fsVars, damageVars>>
    BY <1>1 DEF AppendMessage
  <2> QED BY <2>1, <2>2, <2>3, AppendToSound
<1>2. CASE AppendWrite(c)
  <2> DEFINE k == job[c].key
             path == PathOfBox(job[c].box)
             new == [path |-> path, dir |-> DirFor(job[c].flags), key |-> NameFor(job[c].flags)]
  <2>1. pc[c] = "write" /\ mu = c /\ pc[c] \notin InRename /\ pc[c] \in Writing
    BY <1>2, <1>l, PlaceFacts DEF AppendWrite, Writing, InRename
  <2>2. k \in Keys /\ k \notin rows /\ k \notin numbered
    BY <2>1, NoRowYet
  <2>u. /\ boxes' = boxes /\ name' = name /\ uidnext' = uidnext /\ row' = row
        /\ issued' = issued /\ doomed' = doomed /\ torn' = torn
        /\ rows' = rows /\ numbered' = numbered
    BY <1>2 DEF AppendWrite, dbVars, damageVars, rows, numbered
  <2>s. ASSUME Renaming \subseteq Renaming', dirs \subseteq dirs', path \in dirs' \/ file' = file,
               file' \in {file, [file EXCEPT ![k] = new]}
        PROVE  Stored'
    <3>1. \A m \in files' : (m \in files /\ file'[m] = file[m]) \/ (m = k /\ file'[m].path \in dirs')
      BY <1>t, <2>2, <2>s DEF TypeOK, files
    <3>2. FilesInDirs'
      BY <1>h, <2>s, <3>1 DEF Stored, FilesInDirs
    <3>3. \A m \in rows : m \in files => m \in files' /\ file'[m] = file[m]
      BY <1>t, <2>2, <2>s DEF TypeOK, files
    <3>4. MessageReadable'
      BY <1>h, <2>s, <2>u, <3>3 DEF Stored, MessageReadable, PathOfBox
    <3> QED BY <1>h, <2>u, <3>2, <3>4
            DEF Stored, UidsBelow, BoxesOpened, NamesUnique, RowsIssued
  <2>3. CASE /\ dirs' = dirs \union {path} /\ file' = [file EXCEPT ![k] = new]
             /\ Goto(c, "uid", job[c])
    <3>1. Stored'
      BY <2>1, <2>3, <2>s, RenamingKept
    <3>2. KeyOf(c, "uid", job[c])
      BY <2>1 DEF KeyOf
    <3>3. Fresh'
      BY <1>l, <2>2, <2>3, <2>u, <3>2, FreshStep
    <3>4. pc'[c] = "uid" /\ job'[c] = job[c]
      BY <1>t, <2>3, GotoFrame
    <3>5. k \in files' /\ file'[k].path = path
      <4>1. new \in File
        BY <1>l, NameTypes DEF File
      <4>2. file'[k] = new
        BY <1>t, <2>2, <2>3 DEF TypeOK
      <4> QED BY <2>2, <4>1, <4>2, NullAssumption DEF files
    <3>6. Holds(c)'
      BY <1>h, <2>1, <2>u, <3>4, <3>5
      DEF Holds, AppendHolds, RekeyHolds, ExpungeHolds, RenameHolds, ManageHolds, InRename, PathOfBox
    <3> QED BY <2>1, <2>3, <3>1, <3>3, <3>6, LockedStep
  <2>4. CASE dirs' \in {dirs, dirs \union {path}} /\ Return(c) /\ UNCHANGED file
    <3>1. Stored'
      BY <2>1, <2>4, <2>s, RenamingKept DEF Return
    <3> QED BY <2>1, <2>4, <2>u, <3>1, ReturnSound
  <2> QED BY <1>2, <2>3, <2>4 DEF AppendWrite
<1>f. ASSUME AppendFails(c), pc[c] \in {"uid", "insert"}, UNCHANGED damageVars
      PROVE  Stored' /\ Fresh' /\ \A d \in Clients : Holds(d)'
  <2>1. mu = c /\ pc[c] \notin InRename /\ pc[c] \in Writing
    BY <1>f, <1>l, PlaceFacts DEF Writing, InRename
  <2>2. job[c].key \in Keys /\ job[c].key \notin rows
    BY <2>1, NoRowYet
  <2>u. /\ boxes' = boxes /\ name' = name /\ uidnext' = uidnext /\ row' = row
        /\ issued' = issued /\ doomed' = doomed /\ torn' = torn /\ dirs' = dirs
        /\ rows' = rows /\ numbered' = numbered
    BY <1>f DEF AppendFails, dbVars, damageVars, rows, numbered
  <2>3. Renaming \subseteq Renaming'
    BY <1>f, <2>1, RenamingKept DEF AppendFails, Return
  <2>4. \A m \in files' : m \in files /\ file'[m] = file[m]
    BY <1>f, <1>t DEF AppendFails, TypeOK, files
  <2>5. \A m \in rows : m \in files => m \in files' /\ file'[m] = file[m]
    BY <1>f, <1>t, <2>2 DEF AppendFails, TypeOK, files
  <2>6. Stored'
    BY <1>h, <2>u, <2>3, <2>4, <2>5
    DEF Stored, UidsBelow, BoxesOpened, NamesUnique, RowsIssued, FilesInDirs, MessageReadable, PathOfBox
  <2> QED BY <1>f, <2>1, <2>u, <2>6, ReturnSound DEF AppendFails
<1>3. CASE AppendUid(c)
  <2>1. pc[c] = "uid" /\ mu = c /\ pc[c] \notin InRename /\ pc[c] \in Writing
    BY <1>3, <1>l, PlaceFacts DEF AppendUid, Writing, InRename
  <2>2. CASE /\ uidnext' = [uidnext EXCEPT ![job[c].box] = @ + 1]
             /\ Goto(c, "insert", job[c])
             /\ UNCHANGED <<boxes, name, row, issued, fsVars, events>>
    <3>k. job[c].key \in Keys
      BY <2>1, NoRowYet
    <3>u. /\ boxes' = boxes /\ name' = name /\ row' = row
          /\ issued' = issued /\ doomed' = doomed /\ torn' = torn /\ dirs' = dirs
          /\ rows' = rows /\ numbered' = numbered /\ file' = file /\ files' = files
      BY <1>3, <2>2 DEF AppendUid, fsVars, damageVars, rows, numbered, files
    <3>1. /\ uidnext'[job[c].box] = uidnext[job[c].box] + 1
          /\ \A b \in Boxes : uidnext[b] \in Nat /\ uidnext'[b] \in Nat /\ uidnext[b] <= uidnext'[b]
      BY <1>l, <1>t, <2>2 DEF TypeOK
    <3>2. \A k \in Keys : issued[k].box \in Boxes /\ issued[k].uid \in Nat
      BY <1>t DEF TypeOK
    <3>3. UidsBelow' /\ BoxesOpened'
      BY <1>h, <1>t, <3>u, <3>1, <3>2 DEF Stored, UidsBelow, BoxesOpened, TypeOK
    <3>4. Renaming \subseteq Renaming'
      BY <2>1, <2>2, RenamingKept
    <3>5. Stored'
      BY <1>h, <3>u, <3>3, <3>4
      DEF Stored, NamesUnique, RowsIssued, FilesInDirs, MessageReadable, PathOfBox
    <3>6. KeyOf(c, "insert", job[c])
      BY <2>1 DEF KeyOf
    <3>7. Fresh'
      BY <1>l, <2>2, <3>k, <3>u, <3>6, FreshStep
    <3>8. pc'[c] = "insert" /\ job'[c] = job[c]
      BY <1>t, <2>2, GotoFrame
    <3>9. /\ job[c].uid = uidnext[job[c].box] /\ job[c].box \in boxes /\ job[c].uid # 0
          /\ job[c].key \in files /\ file[job[c].key].path = PathOfBox(job[c].box)
      BY <1>h, <2>1 DEF Holds, AppendHolds
    <3>10. \A k \in Keys : issued[k].box = job[c].box => issued[k].uid < job[c].uid
      BY <1>h, <3>9 DEF Stored, UidsBelow
    <3>11. job[c].uid < uidnext'[job[c].box]
      BY <1>l, <3>1, <3>9
    <3>12. Holds(c)'
      BY <3>u, <3>8, <3>9, <3>10, <3>11
      DEF Holds, AppendHolds, RekeyHolds, ExpungeHolds, RenameHolds, ManageHolds, InRename, PathOfBox
    <3> QED BY <2>1, <2>2, <3>5, <3>7, <3>12, LockedStep
  <2> QED BY <1>3, <1>f, <2>1, <2>2 DEF AppendUid
<1>4. CASE AppendInsert(c)
  <2> DEFINE k == job[c].key
             new == [box |-> job[c].box, uid |-> job[c].uid,
                     key |-> NameFor(job[c].flags), flags |-> job[c].flags]
             j == [NoJob EXCEPT !.box = job[c].box]
  <2>1. pc[c] = "insert" /\ mu = c /\ pc[c] \notin InRename /\ pc[c] \in Writing
    BY <1>4, <1>l, PlaceFacts DEF AppendInsert, Writing, InRename
  <2>2. CASE /\ issued' = [issued EXCEPT ![k] = [box |-> job[c].box, uid |-> job[c].uid]]
             /\ row' = [row EXCEPT ![k] = new]
             /\ Goto(c, "unseen", j)
             /\ UNCHANGED <<boxes, name, uidnext, fsVars, events>>
    <3>k. k \in Keys /\ k \notin numbered
      BY <2>1, NoRowYet
    <3>j. j \in Job /\ j.key = NoKey
      BY <1>l, NoJobType DEF Job
    <3>u. /\ boxes' = boxes /\ name' = name /\ uidnext' = uidnext
          /\ doomed' = doomed /\ torn' = torn /\ dirs' = dirs /\ file' = file /\ files' = files
      BY <1>4, <2>2 DEF AppendInsert, fsVars, damageVars, files
    <3>1. /\ issued'[k].box = job[c].box /\ issued'[k].uid = job[c].uid
          /\ row'[k].box = job[c].box
          /\ \A m \in Keys \ {k} : issued'[m] = issued[m] /\ row'[m] = row[m]
      BY <1>t, <2>2, <3>k DEF TypeOK
    <3>2. rows' \subseteq rows \union {k} /\ numbered' \subseteq numbered \union {k}
      BY <3>1 DEF rows, numbered
    <3>3. /\ job[c].uid < uidnext[job[c].box] /\ job[c].box \in boxes /\ job[c].uid # 0
          /\ k \in files /\ file[k].path = PathOfBox(job[c].box)
      BY <1>h, <2>1 DEF Holds, AppendHolds
    <3>4. \A m \in rows' : m # k => m \in rows
      BY <3>2
    <3>5. UidsBelow'
      BY <1>h, <3>u, <3>1, <3>3 DEF Stored, UidsBelow
    <3>6. RowsIssued'
      <4>1. \A m \in rows' : m \in Keys
        BY DEF rows
      <4> QED BY <1>h, <3>k, <3>u, <3>1, <3>3, <3>4, <4>1 DEF Stored, RowsIssued, numbered
    <3>7. Renaming \subseteq Renaming'
      BY <2>1, <2>2, RenamingKept
    <3>8. MessageReadable'
      <4>1. \A m \in rows' : m \in Keys
        BY DEF rows
      <4> QED BY <1>h, <3>u, <3>1, <3>3, <3>4, <3>7, <4>1 DEF Stored, MessageReadable, PathOfBox
    <3>9. Stored'
      BY <1>h, <3>u, <3>5, <3>6, <3>8 DEF Stored, BoxesOpened, NamesUnique, FilesInDirs
    <3>p. "unseen" \notin Writing /\ "unseen" \notin Guarded
      BY PlaceFacts
    <3>10. Fresh'
      <4>1. KeyOf(c, "unseen", j)
        BY <3>j DEF KeyOf
      <4> HIDE DEF j
      <4> QED BY <2>1, <2>2, <3>j, <3>p, <3>2, <4>1, FreshStep
    <3>11. Holds(c)'
      <4>1. pc'[c] = "unseen"
        BY <1>t, <2>2, GotoFrame
      <4> QED BY <4>1, <3>p, Unguarded
    <3> QED BY <2>1, <2>2, <3>9, <3>10, <3>11, LockedStep
  <2> QED BY <1>4, <1>f, <2>1, <2>2 DEF AppendInsert
<1>5. CASE AppendUnseen(c)
  <2>1. pc[c] = "unseen" /\ mu = c /\ pc[c] \notin InRename
    BY <1>5, <1>l, PlaceFacts DEF AppendUnseen, InRename
  <2>u. /\ boxes' = boxes /\ name' = name /\ uidnext' = uidnext /\ row' = row
        /\ issued' = issued /\ doomed' = doomed /\ torn' = torn /\ dirs' = dirs
        /\ rows' = rows /\ numbered' = numbered
    BY <1>5 DEF AppendUnseen, dbVars, rows, numbered
  <2>s. ASSUME Renaming \subseteq Renaming', files' = files,
               \A m \in files : file'[m].path = file[m].path
        PROVE  Stored'
    BY <1>h, <2>u, <2>s
    DEF Stored, UidsBelow, BoxesOpened, NamesUnique, RowsIssued, FilesInDirs, MessageReadable, PathOfBox
  <2>2. ASSUME NEW k \in files,
               file' = [file EXCEPT ![k].dir = "cur", ![k].key.info = TRUE],
               UNCHANGED localVars
        PROVE  Stored' /\ Fresh' /\ \A d \in Clients : Holds(d)'
    <3>1. k \in Keys /\ file[k] \in File
      BY <1>t DEF files, TypeOK
    <3>2. /\ [file[k] EXCEPT !.dir = "cur", !.key.info = TRUE] \in File
          /\ [file[k] EXCEPT !.dir = "cur", !.key.info = TRUE].path = file[k].path
      BY <3>1 DEF File, FileName
    <3>3. file' = [file EXCEPT ![k] = [file[k] EXCEPT !.dir = "cur", !.key.info = TRUE]]
      BY <1>t, <2>2, <3>1 DEF TypeOK
    <3>4. files' = files /\ \A m \in files : file'[m].path = file[m].path
      BY <1>t, <2>2, <3>1, <3>2, <3>3, NullAssumption DEF TypeOK, files
    <3>5. Renaming' = Renaming /\ pc' = pc /\ job' = job
      BY <2>2 DEF Renaming, localVars
    <3>6. Stored'
      BY <2>s, <3>4, <3>5
    <3>7. Fresh'
      BY <2>u, <3>5 DEF Sound, Fresh
    <3>8. \A d \in Clients : pc'[d] \notin Guarded
      <4>1. \A d \in Clients \ {c} : pc[d] \notin Locked
        BY <2>1, Alone
      <4>2. Guarded \subseteq Locked /\ "unseen" \notin Guarded
        BY DEF Guarded, InRename, Locked, PCs
      <4> QED BY <2>1, <3>5, <4>1, <4>2
    <3> QED BY <3>6, <3>7, <3>8, Unguarded
  <2>3. ASSUME Return(c), UNCHANGED file
        PROVE  Stored' /\ Fresh' /\ \A d \in Clients : Holds(d)'
    <3>1. files' = files /\ \A m \in files : file'[m].path = file[m].path
      BY <2>3 DEF files
    <3>2. Stored'
      BY <2>1, <2>3, <2>s, <3>1, RenamingKept DEF Return
    <3> QED BY <2>1, <2>3, <2>u, <3>2, ReturnSound
  <2> QED BY <1>5, <2>2, <2>3 DEF AppendUnseen
<1> QED BY <1>1, <1>2, <1>3, <1>4, <1>5 DEF Append

LEMMA StoreSound ==
  ASSUME Sound, NEW c \in Clients, Store(c)
  PROVE  Stored' /\ Fresh' /\ \A d \in Clients : Holds(d)'
<1>t. Typed /\ TypeOK
  BY DEF Sound, Typed
<1>l. /\ job[c] \in Job /\ job[c].flags \in SUBSET Flags
      /\ pc[c] \in Locked => mu = c
      /\ pc[c] \in WithKey => job[c].key \in Keys
      /\ pc[c] \in OnRow => job[c].key \in rows /\ row[job[c].key] \in Row
      /\ pc[c] \in WithFile => job[c].seen \in File
  BY <1>t, LocalTypes
<1>h. Stored /\ Holds(c)
  BY DEF Sound
<1>1. CASE UpdateFlags(c) \/ ReplaceFlags(c)
  <2>1. PICK k \in rows, flags \in SUBSET Flags :
               Goto(c, "set", [NoJob EXCEPT !.key = k, !.flags = flags])
    <3>1. CASE ReplaceFlags(c)
      BY <3>1 DEF ReplaceFlags
    <3>2. CASE UpdateFlags(c)
      <4>1. PICK k \in rows, f \in Flags :
              \E flags \in {row[k].flags \union {f}, row[k].flags \ {f}} :
                Goto(c, "set", [NoJob EXCEPT !.key = k, !.flags = flags])
        BY <3>2 DEF UpdateFlags
      <4>2. row[k].flags \in SUBSET Flags
        BY <1>t DEF TypeOK, rows, Row
      <4>3. row[k].flags \union {f} \in SUBSET Flags /\ row[k].flags \ {f} \in SUBSET Flags
        BY <4>2
      <4> QED BY <4>1, <4>3
    <3> QED BY <1>1, <3>1, <3>2
  <2> DEFINE j == [NoJob EXCEPT !.key = k, !.flags = flags]
  <2>2. j \in Job /\ j.key = k
    BY NoJobType DEF Job, rows
  <2>3. UNCHANGED <<dbVars, fsVars, damageVars>> /\ pc[c] \notin Locked /\ "set" \notin Locked
    BY <1>1, PlaceFacts DEF UpdateFlags, ReplaceFlags
  <2>4. Goto(c, "set", j)
    BY <2>1
  <2> HIDE DEF j
  <2>5. KeyOf(c, "set", j) /\ "set" \notin Writing
    BY <1>h, <2>2, PlaceFacts DEF KeyOf, Stored, RowsIssued
  <2> QED BY <2>2, <2>3, <2>4, <2>5, UnlockedStep
<1>k. ASSUME pc[c] \notin InRename, mu \in {NoClient, c},
             NEW place \in {"idle", "retag", "rekey", "untag"}, NEW j \in Job, Goto(c, place, j),
             j.key \in {NoKey, job[c].key},
             UNCHANGED <<boxes, name, uidnext, issued, dirs, doomed, torn>>,
             rows' = rows, \A m \in rows : row'[m].box = row[m].box,
             \A m \in files' : m \in files \/ file'[m].path \in dirs,
             \A m \in files : m \in files' /\ file'[m].path = file[m].path,
             Holds(c)'
      PROVE  Stored' /\ Fresh' /\ \A d \in Clients : Holds(d)'
  <2>1. Renaming \subseteq Renaming' /\ numbered' = numbered
    BY <1>k, RenamingKept DEF numbered
  <2>2. Stored'
    BY <1>h, <1>k, <2>1
    DEF Stored, UidsBelow, BoxesOpened, NamesUnique, RowsIssued, FilesInDirs, MessageReadable, PathOfBox
  <2>3. KeyOf(c, place, j) /\ place \notin Writing
    BY <1>k, PlaceFacts DEF KeyOf
  <2>4. Fresh'
    BY <1>k, <2>1, <2>3, FreshStep
  <2> QED BY <1>k, <2>2, <2>4, LockedStep
<1>i. ASSUME Return(c)
      PROVE  Goto(c, "idle", NoJob) /\ NoJob \in Job /\ NoJob.key = NoKey /\ Holds(c)'
  <2>1. pc'[c] = "idle"
    BY <1>i, <1>t, GotoFrame DEF Return
  <2> QED BY <1>i, <2>1, NoJobType, Unguarded, PlaceFacts DEF Return
<1>2. CASE SetFlags(c)
  <2> DEFINE k == job[c].key
  <2>1. pc[c] = "set" /\ mu = NoClient /\ k \in Keys /\ pc[c] \notin InRename
    BY <1>2, <1>l DEF SetFlags, InRename, WithKey
  <2>u. /\ UNCHANGED <<boxes, name, uidnext, issued, dirs, doomed, torn>>
        /\ file' = file /\ files' = files
    BY <1>2 DEF SetFlags, fsVars, damageVars, files
  <2>f. \A m \in files : file'[m].path = file[m].path
    BY <2>u
  <2>2. CASE k \in rows /\ row' = [row EXCEPT ![k].flags = job[c].flags] /\ Goto(c, "retag", job[c])
    <3>1. row[k] \in Row /\ row' = [row EXCEPT ![k] = [row[k] EXCEPT !.flags = job[c].flags]]
      BY <1>t, <2>1, <2>2 DEF rows, TypeOK
    <3>2. /\ [row[k] EXCEPT !.flags = job[c].flags] \in Row
          /\ [row[k] EXCEPT !.flags = job[c].flags].box = row[k].box
      BY <1>l, <3>1 DEF Row
    <3>3. rows' = rows /\ \A m \in rows : row'[m].box = row[m].box
      BY <1>t, <2>1, <2>2, <3>1, <3>2, NullAssumption DEF rows, TypeOK
    <3>4. Holds(c)'
      <4>1. pc'[c] = "retag"
        BY <1>t, <2>2, GotoFrame
      <4> QED BY <4>1, Unguarded, PlaceFacts
    <3> QED BY <1>k, <1>l, <2>1, <2>u, <2>f, <2>2, <3>3, <3>4
  <2>3. CASE Return(c) /\ UNCHANGED row
    <3>1. rows' = rows
      BY <2>3 DEF rows
    <3> QED BY <1>i, <1>k, <2>1, <2>u, <2>f, <2>3, <3>1
  <2> QED BY <1>2, <2>2, <2>3 DEF SetFlags
<1>3. CASE Retag(c)
  <2> DEFINE k == job[c].key
             path == PathOfBox(row[k].box)
             new == [path |-> path, dir |-> DirFor(job[c].flags), key |-> NameFor(job[c].flags)]
             j == [job[c] EXCEPT !.seen = file[k]]
  <2>1. pc[c] = "retag" /\ mu = c /\ k \in Keys /\ pc[c] \notin InRename
    BY <1>3, <1>l, PlaceFacts DEF Retag, InRename, WithKey
  <2>u. /\ UNCHANGED <<boxes, name, uidnext, issued, dirs, doomed, torn>>
        /\ row' = row /\ rows' = rows
    BY <1>3 DEF Retag, dbVars, damageVars, rows
  <2>2. CASE /\ Exact(k, path, row[k].key) /\ file' = [file EXCEPT ![k] = new]
             /\ Goto(c, "rekey", j)
    <3>1. k \in files /\ file[k].path = path /\ file[k] \in File /\ path \in dirs
      BY <1>h, <1>t, <2>1, <2>2 DEF Exact, files, TypeOK, Stored, FilesInDirs
    <3>2. new \in File /\ new.path = path
      <4>1. path \in Paths
        BY <3>1 DEF File
      <4> QED BY <4>1, NameTypes DEF File
    <3>3. files' = files /\ \A m \in files : file'[m].path = file[m].path
      BY <1>t, <2>1, <2>2, <3>1, <3>2, NullAssumption DEF files, TypeOK
    <3>4. j \in Job /\ j.key = k /\ j.seen = file[k]
      BY <1>l, <3>1 DEF Job
    <3>5. Holds(c)'
      <4>1. pc'[c] = "rekey" /\ job'[c] = j
        BY <1>t, <2>2, GotoFrame
      <4> HIDE DEF j
      <4> QED BY <2>u, <3>1, <3>4, <4>1
          DEF Holds, AppendHolds, RekeyHolds, ExpungeHolds, RenameHolds, ManageHolds, InRename, PathOfBox
    <3> HIDE DEF j
    <3> QED BY <1>k, <2>1, <2>u, <2>2, <3>3, <3>4, <3>5
  <2>3. CASE Return(c) /\ UNCHANGED file
    <3>1. files' = files /\ \A m \in files : file'[m].path = file[m].path
      BY <2>3 DEF files
    <3> QED BY <1>i, <1>k, <2>1, <2>u, <2>3, <3>1
  <2> QED BY <1>3, <2>2, <2>3 DEF Retag
<1>4. CASE Rekey(c)
  <2> DEFINE k == job[c].key
  <2>1. /\ pc[c] = "rekey" /\ mu = c /\ k \in Keys /\ k \in rows /\ row[k] \in Row
        /\ pc[c] \notin InRename
    BY <1>4, <1>l, PlaceFacts DEF Rekey, InRename, WithKey, OnRow
  <2>u. /\ UNCHANGED <<boxes, name, uidnext, issued, dirs, doomed, torn>>
        /\ file' = file /\ files' = files
    BY <1>4 DEF Rekey, fsVars, damageVars, files
  <2>f. \A m \in files : file'[m].path = file[m].path
    BY <2>u
  <2>2. CASE row' = [row EXCEPT ![k].key = NameFor(job[c].flags)] /\ Return(c)
    <3>1. /\ [row[k] EXCEPT !.key = NameFor(job[c].flags)] \in Row
          /\ [row[k] EXCEPT !.key = NameFor(job[c].flags)].box = row[k].box
      BY <2>1, NameTypes DEF Row
    <3>2. row' = [row EXCEPT ![k] = [row[k] EXCEPT !.key = NameFor(job[c].flags)]]
      BY <2>2
    <3>3. rows' = rows /\ \A m \in rows : row'[m].box = row[m].box
      BY <1>t, <2>1, <3>1, <3>2, NullAssumption DEF rows, TypeOK
    <3> QED BY <1>i, <1>k, <2>1, <2>u, <2>f, <2>2, <3>3
  <2>3. CASE Goto(c, "untag", job[c]) /\ UNCHANGED row
    <3>1. rows' = rows
      BY <2>3 DEF rows
    <3>2. Holds(c)'
      <4>1. pc'[c] = "untag" /\ job'[c] = job[c]
        BY <1>t, <2>3, GotoFrame
      <4>2. job[c].seen.path = PathOfBox(row[k].box) /\ job[c].seen.path \in dirs
        BY <1>h, <2>1 DEF Holds, RekeyHolds
      <4> QED BY <2>u, <2>3, <4>1, <4>2
          DEF Holds, AppendHolds, RekeyHolds, ExpungeHolds, RenameHolds, ManageHolds, InRename, PathOfBox
    <3> QED BY <1>k, <1>l, <2>1, <2>u, <2>f, <2>3, <3>1, <3>2
  <2> QED BY <1>4, <2>2, <2>3 DEF Rekey
<1>5. CASE Untag(c)
  <2> DEFINE k == job[c].key
  <2>1. /\ pc[c] = "untag" /\ mu = c /\ k \in Keys /\ k \in rows /\ job[c].seen \in File
        /\ pc[c] \notin InRename
    BY <1>5, <1>l, PlaceFacts DEF Untag, InRename, WithKey, OnRow, WithFile
  <2>2. job[c].seen.path = PathOfBox(row[k].box) /\ job[c].seen.path \in dirs
    BY <1>h, <2>1 DEF Holds, RekeyHolds
  <2>u. /\ UNCHANGED <<boxes, name, uidnext, issued, dirs, doomed, torn>>
        /\ row' = row /\ rows' = rows /\ numbered' = numbered
    BY <1>5 DEF Untag, dbVars, rows, numbered
  <2>3. /\ k \in files' \/ file' = file
        /\ \A m \in files' : (m \in files /\ file'[m] = file[m]) \/ file'[m].path \in dirs
        /\ \A m \in files : m \in files' /\ (m # k => file'[m] = file[m])
        /\ k \in files' => file'[k] = file[k] \/ file'[k].path = PathOfBox(row[k].box)
    BY <1>5, <1>t, <2>1, <2>2, NullAssumption DEF Untag, files, TypeOK
  <2>4. Renaming \subseteq Renaming'
    BY <1>5, <2>1, RenamingKept DEF Untag, Return
  <2>5. FilesInDirs'
    BY <1>h, <2>u, <2>3 DEF Stored, FilesInDirs
  <2>6. MessageReadable'
    BY <1>h, <2>u, <2>3, <2>4 DEF Stored, MessageReadable, PathOfBox
  <2>7. Stored'
    BY <1>h, <2>u, <2>5, <2>6 DEF Stored, UidsBelow, BoxesOpened, NamesUnique, RowsIssued
  <2> QED BY <1>5, <2>1, <2>u, <2>7, ReturnSound DEF Untag
<1> QED BY <1>1, <1>2, <1>3, <1>4, <1>5 DEF Store

LEMMA CopySound ==
  ASSUME Sound, NEW c \in Clients, Copy(c)
  PROVE  Stored' /\ Fresh' /\ \A d \in Clients : Holds(d)'
<1>t. Typed /\ TypeOK
  BY DEF Sound, Typed
<1>l. /\ job[c] \in Job /\ job[c].box \in Boxes /\ job[c].flags \in SUBSET Flags
      /\ pc[c] \in WithKey => job[c].key \in Keys
      /\ pc[c] \in WithFile => job[c].seen \in File
  BY <1>t, LocalTypes
<1>u. UNCHANGED <<dbVars, fsVars, damageVars>> /\ pc[c] \notin Locked
  BY PlaceFacts DEF Copy, CopyMessage, OpenBody, ScanBody, AppendCopy
<1>p. /\ {"idle", "open", "scanCur", "scanNew"} \intersect (Writing \union Locked) = {}
      /\ "append" \in Writing \ Locked
  BY PlaceFacts DEF Writing
<1>r. ASSUME Return(c)
      PROVE  Stored' /\ Fresh' /\ \A d \in Clients : Holds(d)'
  <2>1. NoJob \in Job /\ KeyOf(c, "idle", NoJob)
    BY NoJobType DEF KeyOf
  <2> QED BY <1>p, <1>r, <1>u, <2>1, UnlockedStep DEF Return
<1>f. ASSUME Found(c)
      PROVE  Stored' /\ Fresh' /\ \A d \in Clients : Holds(d)'
  <2>1. ASSUME NEW k \in Unused, Goto(c, "append", [job[c] EXCEPT !.key = k])
        PROVE  Stored' /\ Fresh' /\ \A d \in Clients : Holds(d)'
    <3> DEFINE j == [job[c] EXCEPT !.key = k]
    <3>1. j \in Job /\ j.key \in Keys /\ KeyOf(c, "append", j)
      BY <1>l DEF Job, Unused, KeyOf
    <3>2. Goto(c, "append", j)
      BY <2>1
    <3> HIDE DEF j
    <3> QED BY <1>p, <1>u, <3>1, <3>2, UnlockedStep
  <2> QED BY <1>f, <1>r, <2>1 DEF Found
<1>1. CASE CopyMessage(c)
  <2>1. PICK k \in rows, b \in boxes :
          Goto(c, "open", [NoJob EXCEPT !.key = k, !.box = b, !.flags = row[k].flags,
                                        !.seen = [path |-> PathOfBox(row[k].box), dir |-> "cur",
                                                   key |-> row[k].key]])
    BY <1>1 DEF CopyMessage
  <2> DEFINE seen == [path |-> PathOfBox(row[k].box), dir |-> "cur", key |-> row[k].key]
             j == [NoJob EXCEPT !.key = k, !.box = b, !.flags = row[k].flags, !.seen = seen]
  <2>2. k \in Keys /\ b \in Boxes /\ row[k] \in Row /\ k \in numbered
    BY <1>t DEF rows, TypeOK, Sound, Stored, RowsIssued
  <2>3. seen \in File /\ row[k].flags \in SUBSET Flags
    <3>1. PathOfBox(row[k].box) \in Paths
      BY <1>t, <2>2, StoreAssumption DEF PathOfBox, TypeOK, Row
    <3> QED BY <2>2, <3>1 DEF File, Row
  <2>4. Goto(c, "open", j)
    BY <2>1
  <2> HIDE DEF seen
  <2>5. j \in Job /\ j.key = k
    BY <2>2, <2>3, NoJobType DEF Job
  <2> HIDE DEF j
  <2>6. KeyOf(c, "open", j)
    BY <1>p, <2>2, <2>5 DEF KeyOf
  <2> QED BY <1>p, <1>u, <2>4, <2>5, <2>6, UnlockedStep
<1>2. CASE OpenBody(c)
  <2>1. pc[c] = "open" /\ job[c].seen \in File /\ job[c].key \in Keys
    BY <1>2, <1>l DEF OpenBody, WithKey, WithFile
  <2> DEFINE path == PathOfBox(issued[job[c].key].box)
             j == [job[c] EXCEPT !.seen.path = path]
  <2>2. path \in Paths
    BY <1>t, <2>1, StoreAssumption DEF PathOfBox, TypeOK
  <2> HIDE DEF path
  <2>3. [job[c].seen EXCEPT !.path = path] \in File
    BY <2>1, <2>2 DEF File
  <2>4. j = [job[c] EXCEPT !.seen = [job[c].seen EXCEPT !.path = path]]
    BY <1>l DEF Job
  <2>5. j \in Job /\ j.key = job[c].key
    BY <1>l, <2>1, <2>3, <2>4 DEF Job
  <2>6. ASSUME Goto(c, "scanCur", j)
        PROVE  Stored' /\ Fresh' /\ \A d \in Clients : Holds(d)'
    <3> HIDE DEF j
    <3>1. KeyOf(c, "scanCur", j)
      BY <1>p, <2>5 DEF KeyOf
    <3> QED BY <1>p, <1>u, <2>5, <2>6, <3>1, UnlockedStep
  <2> QED BY <1>2, <1>f, <1>r, <2>6 DEF OpenBody, path
<1>3. CASE ScanBody(c)
  <2>1. ASSUME Goto(c, "scanNew", job[c])
        PROVE  Stored' /\ Fresh' /\ \A d \in Clients : Holds(d)'
    <3>1. KeyOf(c, "scanNew", job[c])
      BY <1>p DEF KeyOf
    <3> QED BY <1>l, <1>p, <1>u, <2>1, <3>1, UnlockedStep
  <2> QED BY <1>3, <1>f, <1>r, <2>1 DEF ScanBody, ScanFor
<1>4. CASE AppendCopy(c)
  <2>1. job[c].key \in Keys /\ pc[c] \in Writing /\ pc[c] \notin InRename
    BY <1>4, <1>l DEF AppendCopy, WithKey, Writing, InRename
  <2> QED BY <1>4, <1>l, <1>r, <1>u, <2>1, AppendToSound DEF AppendCopy
<1> QED BY <1>1, <1>2, <1>3, <1>4 DEF Copy

LEMMA ExpungeSound ==
  ASSUME Sound, NEW c \in Clients, Expunge(c)
  PROVE  Stored' /\ Fresh' /\ \A d \in Clients : Holds(d)'
<1>t. Typed /\ TypeOK
  BY DEF Sound, Typed
<1>l. /\ job[c] \in Job /\ job[c].todo \in SUBSET Keys
      /\ pc[c] \in Locked => mu = c
  BY <1>t, LocalTypes
<1>h. Stored /\ Holds(c)
  BY DEF Sound
<1>m. mu \in {NoClient, c} /\ pc[c] \notin InRename
  BY <1>l, PlaceFacts DEF Expunge, ExpungeMailbox, Unlink, Purge, InRename
<1>p. {"unlink", "purge"} \intersect Writing = {}
  BY PlaceFacts
<1>1. CASE ExpungeMailbox(c)
  <2>1. PICK b \in boxes : /\ Goto(c, "unlink", [NoJob EXCEPT !.box = b, !.todo = Condemned(b)])
                           /\ doomed' = doomed \union Condemned(b)
    BY <1>1 DEF ExpungeMailbox
  <2> DEFINE j == [NoJob EXCEPT !.box = b, !.todo = Condemned(b)]
  <2>2. j \in Job /\ j.key = NoKey /\ j.todo = Condemned(b)
    <3>1. Condemned(b) \subseteq Keys /\ b \in Boxes
      BY <1>t DEF Condemned, rows, TypeOK
    <3> QED BY <3>1, NoJobType DEF Job
  <2>3. Goto(c, "unlink", j)
    BY <2>1
  <2> HIDE DEF j
  <2>u. /\ boxes' = boxes /\ name' = name /\ uidnext' = uidnext /\ row' = row /\ issued' = issued
        /\ dirs' = dirs /\ file' = file /\ torn' = torn
        /\ rows' = rows /\ files' = files /\ numbered' = numbered
    BY <1>1 DEF ExpungeMailbox, dbVars, fsVars, rows, files, numbered
  <2>4. Renaming \subseteq Renaming'
    BY <1>m, <2>3, RenamingKept
  <2>5. Stored'
    BY <1>h, <2>1, <2>u, <2>4
    DEF Stored, UidsBelow, BoxesOpened, NamesUnique, RowsIssued, FilesInDirs, MessageReadable, PathOfBox
  <2>6. Fresh'
    <3>1. KeyOf(c, "unlink", j)
      BY <2>2 DEF KeyOf
    <3> QED BY <1>p, <2>2, <2>3, <2>u, <3>1, FreshStep
  <2>7. Holds(c)'
    <3>1. pc'[c] = "unlink" /\ job'[c] = j
      BY <1>t, <2>3, GotoFrame
    <3> QED BY <2>1, <2>2, <3>1
        DEF Holds, AppendHolds, RekeyHolds, ExpungeHolds, RenameHolds, ManageHolds, InRename
  <2> QED BY <1>m, <2>3, <2>5, <2>6, <2>7, LockedStep
<1>2. CASE Unlink(c)
  <2>1. PICK k \in job[c].todo :
          /\ file' \in {file, [file EXCEPT ![k] = NoFile]}
          /\ Goto(c, IF job[c].todo \ {k} = {} THEN "purge" ELSE "unlink",
                  [job[c] EXCEPT !.todo = job[c].todo \ {k}])
    BY <1>2 DEF Unlink
  <2> DEFINE j == [job[c] EXCEPT !.todo = job[c].todo \ {k}]
             place == IF job[c].todo \ {k} = {} THEN "purge" ELSE "unlink"
  <2>2. j \in Job /\ j.key = job[c].key /\ j.todo \subseteq job[c].todo
    BY <1>l DEF Job
  <2>3. Goto(c, place, j) /\ place \in {"purge", "unlink"}
    BY <2>1
  <2> HIDE DEF j, place
  <2>4. job[c].todo \subseteq doomed
    BY <1>2, <1>h DEF Unlink, Holds, ExpungeHolds
  <2>u. /\ boxes' = boxes /\ name' = name /\ uidnext' = uidnext /\ row' = row /\ issued' = issued
        /\ dirs' = dirs /\ torn' = torn /\ doomed' = doomed
        /\ rows' = rows /\ numbered' = numbered
    BY <1>2 DEF Unlink, dbVars, rows, numbered
  <2>5. /\ \A m \in files' : m \in files /\ file'[m] = file[m]
        /\ \A m \in files : m \in doomed \/ m \in files'
    BY <1>t, <2>1, <2>4 DEF files, TypeOK
  <2>6. Renaming \subseteq Renaming'
    BY <1>m, <2>3, RenamingKept
  <2>7. Stored'
    BY <1>h, <2>u, <2>5, <2>6
    DEF Stored, UidsBelow, BoxesOpened, NamesUnique, RowsIssued, FilesInDirs, MessageReadable, PathOfBox
  <2>8. Fresh'
    <3>1. KeyOf(c, place, j)
      BY <1>p, <2>2, <2>3 DEF KeyOf
    <3> QED BY <1>p, <2>2, <2>3, <2>u, <3>1, FreshStep
  <2>9. Holds(c)'
    <3>1. pc'[c] = place /\ job'[c] = j
      BY <1>t, <2>3, GotoFrame
    <3> QED BY <2>2, <2>3, <2>4, <2>u, <3>1
        DEF Holds, AppendHolds, RekeyHolds, ExpungeHolds, RenameHolds, ManageHolds, InRename
  <2> QED BY <1>m, <2>3, <2>7, <2>8, <2>9, LockedStep
<1>3. CASE Purge(c)
  <2>u. /\ boxes' = boxes /\ name' = name /\ uidnext' = uidnext /\ issued' = issued
        /\ dirs' = dirs /\ torn' = torn /\ doomed' = doomed
        /\ file' = file /\ files' = files /\ numbered' = numbered
    BY <1>3 DEF Purge, fsVars, damageVars, numbered, files
  <2>1. \A k \in rows' : k \in rows /\ row'[k] = row[k]
    BY <1>3, <1>t DEF Purge, rows, TypeOK
  <2>2. Renaming \subseteq Renaming'
    BY <1>3, <1>m, RenamingKept DEF Purge, Return
  <2>3. Stored'
    BY <1>h, <2>u, <2>1, <2>2
    DEF Stored, UidsBelow, BoxesOpened, NamesUnique, RowsIssued, FilesInDirs, MessageReadable, PathOfBox
  <2> QED BY <1>3, <1>m, <2>u, <2>3, ReturnSound DEF Purge
<1> QED BY <1>1, <1>2, <1>3 DEF Expunge

LEMMA ManageSound ==
  ASSUME Sound, NEW c \in Clients, Manage(c)
  PROVE  Stored' /\ Fresh' /\ \A d \in Clients : Holds(d)'
<1>t. Typed /\ TypeOK
  BY DEF Sound, Typed
<1>l. /\ job[c] \in Job /\ job[c].box \in Boxes /\ job[c].old \in Names
      /\ PathOfBox(job[c].box) \in Paths /\ PathOf[job[c].old] \in Paths
      /\ pc[c] \in Locked => mu = c
  BY <1>t, LocalTypes
<1>h. Stored /\ Holds(c)
  BY DEF Sound
<1>m. mu \in {NoClient, c}
  BY <1>l, PlaceFacts
  DEF Manage, CreateMailbox, Mkdir, RenameMailbox, RenameDir, RenameBack, DeleteMailbox, Rmdir, InRename
<1>p. ({"mkdir", "rmdir"} \union InRename) \intersect Writing = {}
  BY PlaceFacts
<1>r. \A k \in rows : /\ k \in Keys /\ row[k].box \in Boxes /\ row[k].box \in boxes
                      /\ uidnext[row[k].box] # 0 /\ name[row[k].box] \in Names
  <2>1. \A k \in rows : k \in Keys /\ row[k].box \in Boxes /\ row[k].box \in boxes
    BY <1>h, <1>t DEF rows, TypeOK, Row, Stored, RowsIssued
  <2> QED BY <1>h, <1>t, <2>1 DEF Stored, BoxesOpened, TypeOK
<1>n. \A m, n \in Names : PathOf[m] = PathOf[n] => m = n
  BY StoreAssumption
(* No other client is renaming. *)
<1>a. /\ pc[c] \in InRename => Renaming = {job[c].box}
      /\ pc[c] \notin InRename => Renaming = {}
  <2>1. \A d \in Clients \ {c} : pc[d] \notin InRename
    BY <1>m, Alone, PlaceFacts
  <2> QED BY <2>1 DEF Renaming, InRename
<1>1. CASE CreateMailbox(c)
  <2>1. PICK b \in Boxes, n \in Names :
          /\ uidnext[b] = 0 /\ ~Taken(n)
          /\ boxes' = boxes \union {b}
          /\ name' = [name EXCEPT ![b] = n]
          /\ uidnext' = [uidnext EXCEPT ![b] = 1]
          /\ Goto(c, "mkdir", [NoJob EXCEPT !.box = b])
    BY <1>1 DEF CreateMailbox
  <2> DEFINE j == [NoJob EXCEPT !.box = b]
  <2>2. j \in Job /\ j.key = NoKey /\ j.box = b /\ Goto(c, "mkdir", j)
    BY <2>1, NoJobType DEF Job
  <2> HIDE DEF j
  <2>u. /\ row' = row /\ issued' = issued /\ dirs' = dirs /\ file' = file
        /\ torn' = torn /\ doomed' = doomed
        /\ rows' = rows /\ files' = files /\ numbered' = numbered
    BY <1>1 DEF CreateMailbox, fsVars, damageVars, rows, files, numbered
  <2>3. /\ name'[b] = n /\ \A a \in Boxes \ {b} : name'[a] = name[a] /\ uidnext'[a] = uidnext[a]
        /\ uidnext'[b] = 1
    BY <1>t, <2>1 DEF TypeOK
  <2>4. b \notin boxes /\ \A k \in rows : row[k].box # b
    BY <1>h, <1>r, <2>1 DEF Stored, BoxesOpened
  <2>5. UidsBelow'
    <3>1. \A k \in Keys : issued[k].box \in Boxes /\ issued[k].uid \in Nat
      BY <1>t DEF TypeOK
    <3>2. \A k \in Keys : issued[k].box # b
      BY <1>h, <2>1, <3>1 DEF Stored, UidsBelow
    <3> QED BY <1>h, <2>u, <2>3, <3>1, <3>2 DEF Stored, UidsBelow
  <2>6. BoxesOpened' /\ NamesUnique'
    <3>1. boxes \subseteq Boxes
      BY <1>t DEF TypeOK
    <3> QED BY <1>h, <2>1, <2>3, <2>4, <3>1 DEF Stored, BoxesOpened, NamesUnique, Taken
  <2>7. pc[c] \notin InRename
    BY <1>1 DEF CreateMailbox, InRename
  <2>8. MessageReadable'
    BY <1>a, <1>h, <1>r, <2>u, <2>3, <2>4, <2>7 DEF Stored, MessageReadable, PathOfBox
  <2>9. Stored'
    BY <1>h, <2>1, <2>u, <2>5, <2>6, <2>8 DEF Stored, RowsIssued, FilesInDirs
  <2>10. Fresh'
    <3>1. KeyOf(c, "mkdir", j)
      BY <2>2 DEF KeyOf
    <3> QED BY <1>p, <2>2, <2>u, <3>1, FreshStep
  <2>11. Holds(c)'
    <3>1. pc'[c] = "mkdir" /\ job'[c] = j
      BY <1>t, <2>2, GotoFrame
    <3> QED BY <2>2, <2>u, <2>4, <3>1
        DEF Holds, AppendHolds, RekeyHolds, ExpungeHolds, RenameHolds, ManageHolds, InRename
  <2> QED BY <1>m, <2>2, <2>9, <2>10, <2>11, LockedStep
<1>2. CASE Mkdir(c)
  <2>1. pc[c] = "mkdir" /\ pc[c] \notin InRename /\ \A k \in rows : row[k].box # job[c].box
    BY <1>2, <1>h DEF Mkdir, InRename, Holds, ManageHolds
  <2>u. /\ name' = name /\ uidnext' = uidnext /\ row' = row /\ issued' = issued /\ file' = file
        /\ torn' = torn /\ doomed' = doomed
        /\ rows' = rows /\ files' = files /\ numbered' = numbered
    BY <1>2 DEF Mkdir, damageVars, rows, files, numbered
  <2>2. boxes' \subseteq boxes /\ dirs \subseteq dirs' /\ \A k \in rows : row[k].box \in boxes'
    BY <1>2, <1>r, <2>1 DEF Mkdir
  <2>3. Stored'
    BY <1>a, <1>h, <2>1, <2>u, <2>2
    DEF Stored, UidsBelow, BoxesOpened, NamesUnique, RowsIssued, FilesInDirs, MessageReadable, PathOfBox
  <2> QED BY <1>2, <1>m, <2>u, <2>3, ReturnSound DEF Mkdir
<1>3. CASE RenameMailbox(c)
  <2>1. PICK b \in boxes, n \in Names :
          /\ ~Taken(n)
          /\ name' = [name EXCEPT ![b] = n]
          /\ Goto(c, "renameDir", [NoJob EXCEPT !.box = b, !.old = name[b]])
    BY <1>3 DEF RenameMailbox
  <2> DEFINE j == [NoJob EXCEPT !.box = b, !.old = name[b]]
  <2>2. /\ j \in Job /\ j.key = NoKey /\ j.box = b /\ j.old = name[b] /\ Goto(c, "renameDir", j)
        /\ b \in Boxes /\ name[b] \in Names
    BY <1>t, <2>1, NoJobType DEF Job, TypeOK
  <2> HIDE DEF j
  <2>u. /\ boxes' = boxes /\ uidnext' = uidnext /\ row' = row /\ issued' = issued /\ dirs' = dirs
        /\ file' = file /\ torn' = torn /\ doomed' = doomed
        /\ rows' = rows /\ files' = files /\ numbered' = numbered
    BY <1>3 DEF RenameMailbox, fsVars, damageVars, rows, files, numbered
  <2>3. name'[b] = n /\ \A a \in Boxes \ {b} : name'[a] = name[a]
    BY <1>t, <2>1, <2>2 DEF TypeOK
  <2>4. pc'[c] = "renameDir" /\ job'[c] = j
    BY <1>t, <2>2, GotoFrame
  <2>5. b \in Renaming' /\ pc[c] \notin InRename
    BY <1>3, <2>2, <2>4 DEF Renaming, RenameMailbox, InRename
  <2>6. NamesUnique'
    <3>1. boxes \subseteq Boxes
      BY <1>t DEF TypeOK
    <3> QED BY <1>h, <2>1, <2>u, <2>3, <3>1 DEF Stored, NamesUnique, Taken
  <2>7. MessageReadable'
    BY <1>a, <1>h, <1>r, <2>u, <2>3, <2>5 DEF Stored, MessageReadable, PathOfBox
  <2>8. Stored'
    BY <1>h, <2>u, <2>6, <2>7 DEF Stored, UidsBelow, BoxesOpened, RowsIssued, FilesInDirs
  <2>9. Fresh'
    <3>1. KeyOf(c, "renameDir", j)
      BY <2>2 DEF KeyOf
    <3> QED BY <1>p, <2>2, <2>u, <3>1, FreshStep DEF InRename
  <2>10. Holds(c)'
    <3>1. \A a \in boxes \ {b} : name'[a] # name[b]
      BY <1>h, <1>t, <2>3 DEF Stored, NamesUnique, TypeOK
    <3>2. \A k \in rows : row[k].box = b =>
            k \in doomed \/ b \in torn \/ (k \in files /\ file[k].path = PathOf[name[b]])
      BY <1>a, <1>h, <2>5 DEF Stored, MessageReadable, PathOfBox
    <3> QED BY <2>2, <2>u, <2>4, <3>1, <3>2
        DEF Holds, AppendHolds, RekeyHolds, ExpungeHolds, RenameHolds, ManageHolds, InRename
  <2> QED BY <1>m, <2>2, <2>8, <2>9, <2>10, LockedStep
<1>4. CASE RenameDir(c)
  <2> DEFINE b == job[c].box
             from == PathOf[job[c].old]
             to == PathOfBox(b)
  <2>1. /\ pc[c] = "renameDir" /\ b \in boxes /\ Renaming = {b}
        /\ \A a \in boxes \ {b} : name[a] # job[c].old
        /\ \A k \in rows : row[k].box = b =>
             k \in doomed \/ b \in torn \/ (k \in files /\ file[k].path = from)
    BY <1>4, <1>a, <1>h DEF RenameDir, InRename, Holds, RenameHolds
  <2>u. /\ boxes' = boxes /\ name' = name /\ uidnext' = uidnext /\ row' = row /\ issued' = issued
        /\ torn' = torn /\ doomed' = doomed /\ rows' = rows /\ numbered' = numbered
    BY <1>4 DEF RenameDir, dbVars, damageVars, rows, numbered
  <2>2. \A k \in rows : row[k].box # b =>
          k \in doomed \/ row[k].box \in torn
            \/ (k \in files /\ file[k].path = PathOfBox(row[k].box) /\ file[k].path # from)
    BY <1>h, <1>l, <1>n, <1>r, <2>1 DEF Stored, MessageReadable, PathOfBox
  <2>3. CASE /\ from \in dirs /\ to \notin dirs
             /\ dirs' = (dirs \ {from}) \union {to}
             /\ file' = [k \in Keys |-> IF k \in files /\ file[k].path = from
                                          THEN [file[k] EXCEPT !.path = to] ELSE file[k]]
             /\ Return(c)
    <3>1. \A k \in files : /\ [file[k] EXCEPT !.path = to] \in File
                           /\ [file[k] EXCEPT !.path = to].path = to
      BY <1>l, <1>t DEF files, TypeOK, File
    <3>2. /\ files' = files
          /\ \A k \in files : IF file[k].path = from THEN file'[k].path = to ELSE file'[k] = file[k]
      BY <2>3, <3>1, NullAssumption DEF files
    <3>3. FilesInDirs'
      BY <1>h, <2>3, <3>2 DEF Stored, FilesInDirs
    <3>4. MessageReadable'
      BY <2>1, <2>2, <2>u, <3>2 DEF MessageReadable, PathOfBox
    <3>5. Stored'
      BY <1>h, <2>u, <3>3, <3>4 DEF Stored, UidsBelow, BoxesOpened, NamesUnique, RowsIssued
    <3> QED BY <1>m, <2>3, <2>u, <3>5, ReturnSound
  <2>4. CASE from \notin dirs /\ Return(c) /\ UNCHANGED <<dirs, file>>
    <3>1. \A k \in files : file[k].path # from
      BY <1>h, <2>4 DEF Stored, FilesInDirs
    <3>2. files' = files
      BY <2>4 DEF files
    <3>3. MessageReadable'
      BY <2>1, <2>2, <2>4, <2>u, <3>1, <3>2 DEF MessageReadable, PathOfBox
    <3>4. Stored'
      BY <1>h, <2>4, <2>u, <3>2, <3>3
      DEF Stored, UidsBelow, BoxesOpened, NamesUnique, RowsIssued, FilesInDirs
    <3> QED BY <1>m, <2>4, <2>u, <3>4, ReturnSound
  <2>5. CASE Goto(c, "renameBack", job[c]) /\ UNCHANGED <<dirs, file>>
    <3>1. pc'[c] = "renameBack" /\ job'[c] = job[c]
      BY <1>t, <2>5, GotoFrame
    <3>2. files' = files
      BY <2>5 DEF files
    <3>3. b \in Renaming'
      BY <3>1 DEF Renaming
    <3>4. Stored'
      BY <1>h, <2>1, <2>5, <2>u, <3>2, <3>3
      DEF Stored, UidsBelow, BoxesOpened, NamesUnique, RowsIssued, FilesInDirs, MessageReadable, PathOfBox
    <3>5. Fresh'
      <4>1. KeyOf(c, "renameBack", job[c]) /\ "renameBack" \notin Writing
        BY <1>p DEF KeyOf, InRename
      <4> QED BY <1>l, <2>5, <2>u, <4>1, FreshStep
    <3>6. Holds(c)'
      BY <2>1, <2>5, <2>u, <3>1, <3>2
      DEF Holds, AppendHolds, RekeyHolds, ExpungeHolds, RenameHolds, ManageHolds, InRename
    <3> QED BY <1>m, <2>5, <3>4, <3>5, <3>6, LockedStep
  <2> QED BY <1>4, <2>3, <2>4, <2>5 DEF RenameDir
<1>5. CASE RenameBack(c)
  <2> DEFINE b == job[c].box
  <2>1. /\ pc[c] = "renameBack" /\ b \in boxes /\ Renaming = {b}
        /\ \A a \in boxes \ {b} : name[a] # job[c].old
        /\ \A k \in rows : row[k].box = b =>
             k \in doomed \/ b \in torn \/ (k \in files /\ file[k].path = PathOf[job[c].old])
    BY <1>5, <1>a, <1>h DEF RenameBack, InRename, Holds, RenameHolds
  <2>u. /\ boxes' = boxes /\ uidnext' = uidnext /\ row' = row /\ issued' = issued /\ dirs' = dirs
        /\ file' = file /\ doomed' = doomed
        /\ rows' = rows /\ files' = files /\ numbered' = numbered
    BY <1>5 DEF RenameBack, fsVars, rows, files, numbered
  <2>2. CASE name' = [name EXCEPT ![b] = job[c].old] /\ UNCHANGED torn
    <3>1. name'[b] = job[c].old /\ \A a \in Boxes \ {b} : name'[a] = name[a]
      BY <1>l, <1>t, <2>2 DEF TypeOK
    <3>2. NamesUnique'
      BY <1>h, <1>t, <2>1, <2>u, <3>1 DEF Stored, NamesUnique, TypeOK
    <3>3. MessageReadable'
      BY <1>h, <1>r, <2>1, <2>2, <2>u, <3>1 DEF Stored, MessageReadable, PathOfBox
    <3> QED BY <1>5, <1>h, <1>m, <2>u, <3>2, <3>3, ReturnSound
            DEF RenameBack, Stored, UidsBelow, BoxesOpened, RowsIssued, FilesInDirs
  <2>3. CASE torn' = torn \union {b} /\ UNCHANGED name
    <3>1. MessageReadable'
      BY <1>h, <2>1, <2>3, <2>u DEF Stored, MessageReadable, PathOfBox
    <3> QED BY <1>5, <1>h, <1>m, <2>3, <2>u, <3>1, ReturnSound
            DEF RenameBack, Stored, UidsBelow, BoxesOpened, NamesUnique, RowsIssued, FilesInDirs
  <2> QED BY <1>5, <2>2, <2>3 DEF RenameBack
<1>6. CASE DeleteMailbox(c)
  <2>1. PICK b \in boxes :
          /\ boxes' = boxes \ {b}
          /\ row' = [k \in Keys |-> IF k \in rows /\ row[k].box = b THEN NoRow ELSE row[k]]
          /\ Goto(c, "rmdir", [NoJob EXCEPT !.box = b])
    BY <1>6 DEF DeleteMailbox
  <2> DEFINE j == [NoJob EXCEPT !.box = b]
  <2>2. j \in Job /\ j.key = NoKey /\ j.box = b /\ Goto(c, "rmdir", j)
    BY <1>t, <2>1, NoJobType DEF Job, TypeOK
  <2> HIDE DEF j
  <2>u. /\ name' = name /\ uidnext' = uidnext /\ issued' = issued /\ dirs' = dirs
        /\ file' = file /\ torn' = torn /\ doomed' = doomed /\ files' = files
        /\ numbered' = numbered
    BY <1>6 DEF DeleteMailbox, fsVars, damageVars, files, numbered
  <2>3. \A k \in rows' : k \in rows /\ row'[k] = row[k] /\ row[k].box # b
    BY <2>1 DEF rows
  <2>4. pc[c] \notin InRename
    BY <1>6 DEF DeleteMailbox, InRename
  <2>5. Stored'
    <3>1. UidsBelow' /\ BoxesOpened' /\ NamesUnique' /\ FilesInDirs'
      BY <1>h, <2>1, <2>u DEF Stored, UidsBelow, BoxesOpened, NamesUnique, FilesInDirs
    <3>2. RowsIssued'
      BY <1>h, <2>1, <2>u, <2>3 DEF Stored, RowsIssued
    <3>3. MessageReadable'
      BY <1>a, <1>h, <2>u, <2>3, <2>4 DEF Stored, MessageReadable, PathOfBox
    <3> QED BY <3>1, <3>2, <3>3 DEF Stored
  <2>6. Fresh'
    <3>1. KeyOf(c, "rmdir", j)
      BY <2>2 DEF KeyOf
    <3> QED BY <1>p, <2>2, <2>u, <3>1, FreshStep
  <2>7. Holds(c)'
    <3>1. pc'[c] = "rmdir" /\ job'[c] = j
      BY <1>t, <2>2, GotoFrame
    <3>2. \A a \in boxes' : name'[a] # name'[b]
      BY <1>h, <2>1, <2>u DEF Stored, NamesUnique
    <3> QED BY <2>2, <3>1, <3>2
        DEF Holds, AppendHolds, RekeyHolds, ExpungeHolds, RenameHolds, ManageHolds, InRename
  <2> QED BY <1>m, <2>2, <2>5, <2>6, <2>7, LockedStep
<1>7. CASE Rmdir(c)
  <2> DEFINE b == job[c].box
  <2>1. pc[c] = "rmdir" /\ pc[c] \notin InRename /\ \A a \in boxes : name[a] # name[b]
    BY <1>7, <1>h DEF Rmdir, InRename, Holds, ManageHolds
  <2>u. /\ boxes' = boxes /\ name' = name /\ uidnext' = uidnext /\ row' = row /\ issued' = issued
        /\ torn' = torn /\ doomed' = doomed /\ rows' = rows /\ numbered' = numbered
    BY <1>7 DEF Rmdir, dbVars, damageVars, rows, numbered
  <2>2. /\ \A k \in files' : /\ k \in files /\ file'[k] = file[k]
                             /\ file[k].path \in dirs => file[k].path \in dirs'
        /\ \A k \in files : file[k].path # PathOfBox(b) => k \in files' /\ file'[k] = file[k]
    BY <1>7, <1>t DEF Rmdir, files, fsVars, TypeOK
  <2>3. \A k \in rows : PathOfBox(row[k].box) # PathOfBox(b)
    BY <1>l, <1>n, <1>r, <1>t, <2>1 DEF PathOfBox, TypeOK
  <2>4. FilesInDirs'
    BY <1>h, <2>2 DEF Stored, FilesInDirs
  <2>5. MessageReadable'
    BY <1>a, <1>h, <2>1, <2>2, <2>3, <2>u DEF Stored, MessageReadable, PathOfBox
  <2>6. Stored'
    BY <1>h, <2>u, <2>4, <2>5 DEF Stored, UidsBelow, BoxesOpened, NamesUnique, RowsIssued
  <2> QED BY <1>7, <1>m, <2>u, <2>6, ReturnSound DEF Rmdir
<1> QED BY <1>1, <1>2, <1>3, <1>4, <1>5, <1>6, <1>7 DEF Manage

LEMMA CrashSound ==
  ASSUME Sound, Crash
  PROVE  Stored' /\ Fresh' /\ \A d \in Clients : Holds(d)'
<1>1. \A d \in Clients : pc'[d] = "idle"
  BY DEF Crash
<1>u. /\ boxes' = boxes /\ name' = name /\ uidnext' = uidnext /\ row' = row /\ issued' = issued
      /\ dirs' = dirs /\ file' = file /\ doomed' = doomed /\ torn' = torn \union Renaming
      /\ rows' = rows /\ files' = files
  BY DEF Crash, dbVars, fsVars, rows, files
<1>2. Stored'
  BY <1>u DEF Sound, Stored, UidsBelow, BoxesOpened, NamesUnique, RowsIssued, FilesInDirs,
              MessageReadable, PathOfBox, numbered
<1>3. Fresh'
  BY <1>1, PlaceFacts DEF Fresh
<1> QED BY <1>1, <1>2, <1>3, Unguarded, PlaceFacts

-----------------------------------------------------------------------------
LEMMA SoundInit == Init => Sound
<1> SUFFICES ASSUME Init
             PROVE  Sound
  OBVIOUS
<1>1. Typed
  BY TypedInit
<1>2. rows = {} /\ files = {} /\ boxes = {Inbox} /\ uidnext[Inbox] = 1
  BY StoreAssumption DEF Init, rows, files
<1>3. UidsBelow
  BY <1>2 DEF Init, UidsBelow
<1>4. Stored
  BY <1>2, <1>3
  DEF Stored, BoxesOpened, NamesUnique, RowsIssued, FilesInDirs, MessageReadable
<1>5. \A c \in Clients : pc[c] = "idle"
  BY DEF Init
<1>6. Fresh /\ \A c \in Clients : Holds(c)
  BY <1>5, PlaceFacts
  DEF Fresh, Holds, AppendHolds, RekeyHolds, ExpungeHolds, RenameHolds, ManageHolds, InRename
<1> QED BY <1>1, <1>4, <1>6 DEF Sound

LEMMA SoundNext == Sound /\ [Next]_vars => Sound'
<1> SUFFICES ASSUME Sound, [Next]_vars
             PROVE  Sound'
  OBVIOUS
<1>1. Typed'
  BY TypedNext DEF Sound
<1>2. CASE UNCHANGED vars
  <2>1. Stored' /\ Fresh'
    BY <1>2 DEF vars, dbVars, fsVars, localVars, damageVars, Sound, Stored, UidsBelow, BoxesOpened,
                NamesUnique, RowsIssued, FilesInDirs, MessageReadable, PathOfBox, Renaming, rows,
                files, numbered, Fresh
  <2>2. ASSUME NEW c \in Clients
        PROVE  Holds(c)'
    BY <1>2 DEF vars, dbVars, fsVars, localVars, damageVars, Sound, Holds, AppendHolds, RekeyHolds,
                ExpungeHolds, RenameHolds, ManageHolds, PathOfBox, rows, files
  <2> QED BY <1>1, <2>1, <2>2 DEF Sound
<1>3. CASE Next
  <2>1. Stored' /\ Fresh' /\ \A d \in Clients : Holds(d)'
    BY <1>3, AppendSound, StoreSound, CopySound, ExpungeSound, ManageSound, CrashSound DEF Next
  <2> QED BY <1>1, <2>1 DEF Sound
<1> QED BY <1>2, <1>3

LEMMA SoundAlways == Spec => []Sound
BY SoundInit, SoundNext, PTL DEF Spec

(* A message with a row has its file in its mailbox's directory, through every
   interleaving of append, store, copy, expunge, create, rename and delete, every
   failed step and every crash, outside the two exceptions that MessageReadable
   names.                                                                    *)
THEOREM MessagesReadable == Spec => []MessageReadable
<1>1. Sound => MessageReadable
  BY DEF Sound, Stored
<1> QED BY <1>1, SoundAlways, PTL

(* Only the insert of AppendMessage makes a row. *)
LEMMA RowsOnlyInserted ==
  ASSUME Sound, [Next]_vars, NEW k \in rows', k \notin rows
  PROVE  \E c \in Clients :
           /\ pc[c] = "insert" /\ job[c].key = k
           /\ row'[k].box = job[c].box /\ row'[k].uid = job[c].uid
<1>t. Typed /\ TypeOK
  BY DEF Sound, Typed
<1>r. k \in Keys /\ row'[k] # row[k]
  BY DEF rows
<1>1. CASE UNCHANGED row
  BY <1>r, <1>1
<1>2. ASSUME NEW c \in Clients, SetFlags(c) \/ Rekey(c)
      PROVE  FALSE
  <2>1. job[c].key \in Keys /\ (UNCHANGED row \/ job[c].key \in rows)
    BY <1>2, <1>t, LocalTypes DEF SetFlags, Rekey, WithKey, OnRow
  <2>2. \A m \in Keys : m # job[c].key => row'[m] = row[m]
    BY <1>2, <1>t, <2>1 DEF SetFlags, Rekey, TypeOK
  <2> QED BY <1>r, <2>1, <2>2
<1>3. ASSUME NEW c \in Clients, Purge(c) \/ DeleteMailbox(c)
      PROVE  FALSE
  BY <1>3, <1>r DEF Purge, DeleteMailbox, rows
<1>4. ASSUME NEW c \in Clients, AppendInsert(c), row' # row
      PROVE  /\ pc[c] = "insert" /\ job[c].key = k
             /\ row'[k].box = job[c].box /\ row'[k].uid = job[c].uid
  <2>1. job[c].key \in Keys
    BY <1>4, <1>t, LocalTypes DEF AppendInsert, WithKey
  <2> QED BY <1>4, <1>r, <1>t, <2>1 DEF AppendInsert, AppendFails, dbVars, TypeOK
<1>5. ASSUME row' # row
      PROVE  \E c \in Clients : \/ SetFlags(c) \/ Rekey(c) \/ Purge(c) \/ DeleteMailbox(c)
                                \/ AppendInsert(c)
  <2>1. ~Crash /\ ~UNCHANGED vars
    BY <1>5 DEF Crash, vars, dbVars
  <2>2. ASSUME NEW c \in Clients, Append(c)
        PROVE  AppendInsert(c)
    BY <1>5, <2>2
    DEF Append, AppendMessage, AppendWrite, AppendUid, AppendUnseen, AppendFails, dbVars
  <2>3. ASSUME NEW c \in Clients, Store(c)
        PROVE  SetFlags(c) \/ Rekey(c)
    BY <1>5, <2>3 DEF Store, UpdateFlags, ReplaceFlags, Retag, Untag, dbVars
  <2>4. ASSUME NEW c \in Clients, Copy(c)
        PROVE  FALSE
    BY <1>5, <2>4 DEF Copy, CopyMessage, OpenBody, ScanBody, AppendCopy, dbVars
  <2>5. ASSUME NEW c \in Clients, Expunge(c)
        PROVE  Purge(c)
    BY <1>5, <2>5 DEF Expunge, ExpungeMailbox, Unlink, dbVars
  <2>6. ASSUME NEW c \in Clients, Manage(c)
        PROVE  DeleteMailbox(c)
    BY <1>5, <2>6 DEF Manage, CreateMailbox, Mkdir, RenameMailbox, RenameDir, RenameBack, Rmdir, dbVars
  <2> QED BY <2>1, <2>2, <2>3, <2>4, <2>5, <2>6 DEF Next
<1> QED BY <1>1, <1>2, <1>3, <1>4, <1>5

(* AppendMessage gives a message a higher UID than every message its mailbox has
   ever held: the lock covers the read of uidnext, its update and the insert, and
   a crash or an error between them only skips a number.                     *)
THEOREM UidsAscend == Spec => AscendingUids
<1>1. ASSUME Sound, [Next]_vars
      PROVE  \A k \in rows' \ rows, j \in numbered :
               issued[j].box = row'[k].box => issued[j].uid < row'[k].uid
  <2> SUFFICES ASSUME NEW k \in rows', k \notin rows, NEW j \in numbered,
                      issued[j].box = row'[k].box
               PROVE  issued[j].uid < row'[k].uid
    OBVIOUS
  <2>1. PICK c \in Clients : /\ pc[c] = "insert"
                             /\ row'[k].box = job[c].box /\ row'[k].uid = job[c].uid
    BY <1>1, RowsOnlyInserted
  <2>2. \A m \in Keys : issued[m].box = job[c].box => issued[m].uid < job[c].uid
    BY <1>1, <2>1 DEF Sound, Holds, AppendHolds
  <2> QED BY <2>1, <2>2 DEF numbered
<1>2. Sound /\ [Next]_vars =>
        [\A k \in rows' \ rows, j \in numbered :
           issued[j].box = row'[k].box => issued[j].uid < row'[k].uid]_vars
  BY <1>1
<1> QED BY <1>2, SoundAlways, PTL DEF Spec, AscendingUids

-----------------------------------------------------------------------------
(* Expunged messages.  A file that is there has the name and the directory that
   its row says, outside the exceptions ExpungedIsGone names, so that
   ExpungeMailbox finds it; and what it has left behind it left for a reason. *)
DoomedNumbered == doomed \subseteq numbered
KeysAgree ==
  \A k \in rows \intersect files : k \in astray \/ k \in Retagging \/ file[k].key = row[k].key
PathsAgree ==
  \A k \in rows \intersect files :
    row[k].box \in torn \/ row[k].box \in Renaming \/ file[k].path = PathOfBox(row[k].box)

Agreed == DoomedNumbered /\ KeysAgree /\ PathsAgree /\ ExpungedIsGone

(* What the holder of the lock knows of the names between two steps. *)
InRetag == {"rekey", "untag"}
Informed == {"uid", "insert", "unlink", "purge"} \union InRetag \union InRename

AppendKnows(c) ==
  pc[c] \in {"uid", "insert"} /\ job[c].key \in files => file[job[c].key].key = NameFor(job[c].flags)
RetagKnows(c) ==
  pc[c] \in InRetag =>
    /\ job[c].seen.key = row[job[c].key].key
    /\ job[c].key \in files => file[job[c].key].key = NameFor(job[c].flags)
RenameKnows(c) ==
  pc[c] \in InRename =>
    \A k \in rows \intersect files : row[k].box = job[c].box =>
      job[c].box \in torn \/ file[k].path = PathOf[job[c].old]
LeftBehind(k, b) == k \notin files \/ k \in astray \/ b \in torn
ExpungeKnows(c) ==
  /\ pc[c] = "unlink" =>
       /\ job[c].todo \subseteq Condemned(job[c].box)
       /\ \A k \in Condemned(job[c].box) \ job[c].todo : LeftBehind(k, job[c].box)
  /\ pc[c] = "purge" => \A k \in Condemned(job[c].box) : LeftBehind(k, job[c].box)

Knows(c) == AppendKnows(c) /\ RetagKnows(c) /\ RenameKnows(c) /\ ExpungeKnows(c)

Clean == Agreed /\ \A c \in Clients : Knows(c)

LEMMA Uninformed ==
  ASSUME NEW c, pc'[c] \notin Informed
  PROVE  Knows(c)'
BY DEF Informed, InRetag, InRename, Knows, AppendKnows, RetagKnows, RenameKnows, ExpungeKnows

LEMMA InformedFacts ==
  /\ Informed \subseteq Locked /\ InRename \subseteq Informed /\ InRetag \subseteq Informed
  /\ {"idle", "set", "open", "scanCur", "scanNew", "append", "write", "unseen", "retag", "mkdir", "rmdir"}
       \intersect Informed = {}
  /\ InRename \intersect InRetag = {}
  /\ {"uid", "insert", "unlink", "purge"} \intersect (InRename \union InRetag) = {}
BY DEF Informed, InRetag, InRename, Locked, PCs

(* A step with the lock held or taken: nobody else is between two steps. *)
LEMMA HolderStep ==
  ASSUME Sound, NEW c \in Clients, NEW place, NEW j, Goto(c, place, j), mu \in {NoClient, c}
  PROVE  /\ pc'[c] = place /\ job'[c] = j
         /\ Renaming = IF pc[c] \in InRename THEN {job[c].box} ELSE {}
         /\ Retagging = IF pc[c] \in InRetag THEN {job[c].key} ELSE {}
         /\ Renaming' = IF place \in InRename THEN {j.box} ELSE {}
         /\ Retagging' = IF place \in InRetag THEN {j.key} ELSE {}
         /\ Knows(c)' => \A d \in Clients : Knows(d)'
<1>1. /\ pc'[c] = place /\ job'[c] = j
      /\ \A d \in Clients \ {c} : pc'[d] = pc[d] /\ job'[d] = job[d] /\ pc[d] \notin Locked
  BY Alone, GotoFrame DEF Sound
<1>2. \A d \in Clients \ {c} : /\ pc[d] \notin InRename /\ pc[d] \notin InRetag
                               /\ pc'[d] \notin InRename /\ pc'[d] \notin InRetag /\ pc'[d] \notin Informed
  BY <1>1, InformedFacts
<1>3. /\ Renaming = IF pc[c] \in InRename THEN {job[c].box} ELSE {}
      /\ Retagging = IF pc[c] \in InRetag THEN {job[c].key} ELSE {}
  BY <1>2 DEF Renaming, Retagging, InRename, InRetag
<1>4. /\ Renaming' = IF place \in InRename THEN {j.box} ELSE {}
      /\ Retagging' = IF place \in InRetag THEN {j.key} ELSE {}
  BY <1>1, <1>2 DEF Renaming, Retagging, InRename, InRetag
<1>5. Knows(c)' => \A d \in Clients : Knows(d)'
  BY <1>2, Uninformed
<1> QED BY <1>1, <1>3, <1>4, <1>5

(* A step that gives no row and no file another name. *)
LEMMA NamesKept ==
  ASSUME KeysAgree, PathsAgree,
         \A k \in rows' : k \in rows /\ row'[k].box = row[k].box /\ row'[k].key = row[k].key,
         \A k \in rows' \intersect files' :
           k \in files /\ file'[k].key = file[k].key /\ file'[k].path = file[k].path,
         \A k \in rows' : name'[row[k].box] = name[row[k].box],
         torn \subseteq torn', astray \subseteq astray',
         Renaming \subseteq Renaming' \union torn', Retagging \subseteq Retagging' \union astray'
  PROVE  KeysAgree' /\ PathsAgree'
<1>1. KeysAgree'
  BY DEF KeysAgree
<1>2. PathsAgree'
  BY DEF PathsAgree, PathOfBox
<1> QED BY <1>1, <1>2

(* A step that takes a row away only with a reason for the file it leaves. *)
LEMMA GoneKept ==
  ASSUME Sound, DoomedNumbered, ExpungedIsGone,
         numbered \subseteq numbered', \A k \in numbered : issued'[k] = issued[k],
         doomed' \subseteq doomed \union rows, torn \subseteq torn', astray \subseteq astray',
         \A k \in doomed' \intersect files' : k \in doomed \intersect files \/ k \in rows',
         \A k \in (rows \ rows') \intersect files' : k \in astray' \/ row[k].box \notin boxes' \/ row[k].box \in torn',
         \A k \in numbered : issued[k].box \in boxes' => issued[k].box \in boxes
  PROVE  DoomedNumbered' /\ ExpungedIsGone'
<1>1. \A k \in rows : k \in numbered /\ issued[k].box = row[k].box
  BY DEF Sound, Stored, RowsIssued
<1>2. DoomedNumbered'
  BY <1>1 DEF DoomedNumbered
<1>3. ASSUME NEW k \in doomed' \intersect files', k \notin rows'
      PROVE  k \in astray' \/ issued'[k].box \notin boxes' \/ issued'[k].box \in torn'
  <2>1. k \in doomed \intersect files /\ k \in numbered /\ issued'[k] = issued[k]
    BY <1>3 DEF DoomedNumbered
  <2>2. CASE k \in rows
    BY <1>1, <1>3, <2>1, <2>2
  <2>3. CASE k \notin rows
    BY <2>1, <2>3 DEF ExpungedIsGone
  <2> QED BY <2>2, <2>3
<1>4. ExpungedIsGone'
  BY <1>3 DEF ExpungedIsGone
<1> QED BY <1>2, <1>4

(* A step that changes nothing stored and starts at no place in between. *)
LEMMA QuietClean ==
  ASSUME Sound, Clean, NEW c \in Clients, NEW place, NEW j, Goto(c, place, j),
         pc[c] \notin Informed, place \notin Informed,
         UNCHANGED <<dbVars, fsVars, damageVars>>
  PROVE  Clean'
<1>1. /\ pc'[c] = place /\ job'[c] = j
      /\ \A d \in Clients \ {c} : pc'[d] = pc[d] /\ job'[d] = job[d]
  BY GotoFrame DEF Sound
<1>u. /\ boxes' = boxes /\ name' = name /\ row' = row /\ issued' = issued
      /\ file' = file /\ doomed' = doomed /\ torn' = torn /\ astray' = astray
      /\ rows' = rows /\ files' = files /\ numbered' = numbered
  BY DEF dbVars, fsVars, damageVars, rows, files, numbered
<1>2. Renaming \subseteq Renaming' /\ Retagging \subseteq Retagging'
  <2>1. pc[c] \notin InRename /\ pc[c] \notin InRetag
    BY InformedFacts
  <2> QED BY <1>1, <2>1 DEF Renaming, Retagging, InRename, InRetag
<1>3. KeysAgree' /\ PathsAgree'
  BY <1>u, <1>2, NamesKept DEF Clean, Agreed
<1>4. DoomedNumbered' /\ ExpungedIsGone'
  BY <1>u DEF Clean, Agreed, DoomedNumbered, ExpungedIsGone
<1>5. ASSUME NEW d \in Clients \ {c}
      PROVE  Knows(d)'
  <2>1. Knows(d) /\ pc'[d] = pc[d] /\ job'[d] = job[d]
    BY <1>1 DEF Clean
  <2> QED BY <1>u, <2>1 DEF Knows, AppendKnows, RetagKnows, RenameKnows, ExpungeKnows, LeftBehind, Condemned
<1>6. Knows(c)'
  BY <1>1, Uninformed
<1> QED BY <1>3, <1>4, <1>5, <1>6 DEF Clean, Agreed

(* One lemma for each command. *)

LEMMA AppendClean ==
  ASSUME Sound, Clean, NEW c \in Clients, Append(c)
  PROVE  Clean'
<1>t. Typed /\ TypeOK
  BY DEF Sound, Typed
<1>l. /\ job[c] \in Job /\ job[c].box \in Boxes /\ PathOfBox(job[c].box) \in Paths
      /\ pc[c] \in Locked => mu = c
  BY <1>t, LocalTypes
<1>a. KeysAgree /\ PathsAgree /\ DoomedNumbered /\ ExpungedIsGone /\ Knows(c)
  BY DEF Clean, Agreed
<1>p. {"write", "uid", "insert", "unseen", "idle"} \intersect (InRename \union InRetag) = {}
  BY DEF InRename, InRetag
<1>1. CASE AppendMessage(c)
  <2>1. PICK k \in Unused, b \in boxes, flags \in SUBSET Flags : AppendTo(c, k, b, flags)
    BY <1>1 DEF AppendMessage
  <2>2. pc[c] \notin Informed /\ "write" \notin Informed /\ UNCHANGED <<dbVars, fsVars, damageVars>>
    BY <1>1, InformedFacts DEF AppendMessage
  <2> QED BY <2>1, <2>2, QuietClean DEF AppendTo
(* The steps before the insert only touch a file without a row. *)
<1>f. ASSUME NEW place \in {"idle", "uid", "insert"}, NEW j, Goto(c, place, j), mu = c,
             pc[c] \in {"write", "uid"} \/ (pc[c] = "insert" /\ place = "idle"),
             UNCHANGED <<boxes, name, row, issued, damageVars>>,
             \A m \in files' : (m \in files /\ file'[m] = file[m]) \/ m = job[c].key,
             place \in {"uid", "insert"} => AppendKnows(c)'
      PROVE  Clean'
  <2>1. pc[c] \in Writing /\ pc[c] \in Locked
    BY <1>f, PlaceFacts DEF Writing
  <2>2. job[c].key \notin rows /\ job[c].key \notin numbered
    BY <2>1, NoRowYet
  <2>u. /\ boxes' = boxes /\ name' = name /\ row' = row /\ issued' = issued /\ doomed' = doomed
        /\ torn' = torn /\ astray' = astray /\ rows' = rows /\ numbered' = numbered
    BY <1>f DEF damageVars, rows, numbered
  <2>3. /\ pc'[c] = place /\ Renaming = {} /\ Retagging = {}
        /\ Knows(c)' => \A d \in Clients : Knows(d)'
    BY <1>f, <1>p, HolderStep
  <2>4. KeysAgree' /\ PathsAgree'
    BY <1>a, <1>f, <2>2, <2>3, <2>u, NamesKept
  <2>5. DoomedNumbered' /\ ExpungedIsGone'
    BY <1>a, <1>f, <2>2, <2>u, GoneKept DEF DoomedNumbered
  <2>6. Knows(c)'
    BY <1>f, <2>3 DEF Knows, AppendKnows, RetagKnows, RenameKnows, ExpungeKnows, InRename, InRetag
  <2> QED BY <2>3, <2>4, <2>5, <2>6 DEF Clean, Agreed
<1>2. CASE AppendWrite(c)
  <2> DEFINE k == job[c].key
             path == PathOfBox(job[c].box)
             new == [path |-> path, dir |-> DirFor(job[c].flags), key |-> NameFor(job[c].flags)]
  <2>1. pc[c] = "write" /\ mu = c /\ pc[c] \in Writing
    BY <1>2, <1>l, PlaceFacts DEF AppendWrite, Writing
  <2>2. k \in Keys
    BY <2>1, NoRowYet
  <2>u. UNCHANGED <<boxes, name, row, issued, damageVars>>
    BY <1>2 DEF AppendWrite, dbVars
  <2>3. CASE file' = [file EXCEPT ![k] = new] /\ Goto(c, "uid", job[c])
    <3>1. pc'[c] = "uid" /\ job'[c] = job[c]
      BY <1>t, <2>3, GotoFrame
    <3>2. file'[k] = new /\ \A m \in Keys \ {k} : file'[m] = file[m]
      BY <1>t, <2>2, <2>3 DEF TypeOK
    <3>3. \A m \in files' : (m \in files /\ file'[m] = file[m]) \/ m = k
      BY <3>2 DEF files
    <3>4. AppendKnows(c)'
      BY <3>1, <3>2 DEF AppendKnows
    <3> QED BY <1>f, <2>1, <2>u, <2>3, <3>3, <3>4
  <2>4. CASE Return(c) /\ UNCHANGED file
    <3>1. \A m \in files' : m \in files /\ file'[m] = file[m]
      BY <2>4 DEF files
    <3> QED BY <1>f, <2>1, <2>u, <2>4, <3>1 DEF Return
  <2> QED BY <1>2, <2>3, <2>4 DEF AppendWrite
<1>e. ASSUME AppendFails(c), pc[c] \in {"uid", "insert"}, UNCHANGED damageVars
      PROVE  Clean'
  <2>1. mu = c /\ UNCHANGED <<boxes, name, row, issued>>
    BY <1>e, <1>l, PlaceFacts DEF AppendFails, dbVars
  <2>2. \A m \in files' : m \in files /\ file'[m] = file[m]
    BY <1>e, <1>t DEF AppendFails, TypeOK, files
  <2> QED BY <1>e, <1>f, <2>1, <2>2 DEF AppendFails, Return
<1>3. CASE AppendUid(c)
  <2>1. pc[c] = "uid" /\ mu = c /\ UNCHANGED damageVars
    BY <1>3, <1>l, PlaceFacts DEF AppendUid
  <2>2. CASE Goto(c, "insert", job[c]) /\ UNCHANGED <<boxes, name, row, issued, fsVars, events>>
    <3>1. pc'[c] = "insert" /\ job'[c] = job[c]
      BY <1>t, <2>2, GotoFrame
    <3>2. file' = file /\ files' = files
      BY <2>2 DEF fsVars, files
    <3>3. AppendKnows(c)'
      BY <1>a, <2>1, <3>1, <3>2 DEF Knows, AppendKnows
    <3> QED BY <1>f, <2>1, <2>2, <3>2, <3>3
  <2> QED BY <1>3, <1>e, <2>1, <2>2 DEF AppendUid
(* The row gets the name that the file has. *)
<1>4. CASE AppendInsert(c)
  <2> DEFINE k == job[c].key
             new == [box |-> job[c].box, uid |-> job[c].uid,
                     key |-> NameFor(job[c].flags), flags |-> job[c].flags]
             j == [NoJob EXCEPT !.box = job[c].box]
  <2>1. pc[c] = "insert" /\ mu = c /\ pc[c] \in Writing /\ UNCHANGED damageVars
    BY <1>4, <1>l, PlaceFacts DEF AppendInsert, Writing
  <2>2. CASE /\ issued' = [issued EXCEPT ![k] = [box |-> job[c].box, uid |-> job[c].uid]]
             /\ row' = [row EXCEPT ![k] = new]
             /\ Goto(c, "unseen", j)
             /\ UNCHANGED <<boxes, name, uidnext, fsVars, events>>
    <3>k. k \in Keys /\ k \notin numbered /\ k \notin rows
      BY <2>1, NoRowYet
    <3>u. /\ boxes' = boxes /\ name' = name /\ doomed' = doomed /\ torn' = torn /\ astray' = astray
          /\ file' = file /\ files' = files
      BY <2>1, <2>2 DEF fsVars, damageVars, files
    <3>1. /\ issued'[k].uid = job[c].uid /\ row'[k].box = job[c].box /\ row'[k].key = NameFor(job[c].flags)
          /\ \A m \in Keys \ {k} : issued'[m] = issued[m] /\ row'[m] = row[m]
      BY <1>t, <2>2, <3>k DEF TypeOK
    <3>2. /\ \A m \in rows' : m \in Keys /\ (m # k => m \in rows)
          /\ \A m \in rows : m \in rows' /\ m # k
          /\ \A m \in numbered : m \in numbered' /\ m # k /\ m \in Keys
      BY <3>k, <3>1 DEF rows, numbered
    <3>3. k \in files /\ file[k].path = PathOfBox(job[c].box) /\ file[k].key = NameFor(job[c].flags)
      BY <1>a, <2>1 DEF Sound, Holds, AppendHolds, Knows, AppendKnows
    <3> HIDE DEF j, new
    <3>4. /\ pc'[c] = "unseen" /\ Renaming = {} /\ Retagging = {}
          /\ Knows(c)' => \A d \in Clients : Knows(d)'
      BY <1>p, <2>1, <2>2, HolderStep
    <3>5. KeysAgree' /\ PathsAgree'
      BY <1>a, <3>u, <3>1, <3>2, <3>3, <3>4 DEF KeysAgree, PathsAgree, PathOfBox
    <3>6. DoomedNumbered' /\ ExpungedIsGone'
      BY <1>a, <3>u, <3>1, <3>2, GoneKept
    <3>7. Knows(c)'
      BY <3>4, Uninformed, InformedFacts
    <3> QED BY <3>4, <3>5, <3>6, <3>7 DEF Clean, Agreed
  <2> QED BY <1>4, <1>e, <2>1, <2>2 DEF AppendInsert
(* Unseen gives a file another name only where that is recorded. *)
<1>5. CASE AppendUnseen(c)
  <2>1. pc[c] = "unseen" /\ mu = c /\ pc[c] \notin Informed
    BY <1>5, <1>l, PlaceFacts, InformedFacts DEF AppendUnseen
  <2>u. /\ boxes' = boxes /\ name' = name /\ row' = row /\ issued' = issued /\ doomed' = doomed
        /\ torn' = torn /\ rows' = rows /\ numbered' = numbered
    BY <1>5 DEF AppendUnseen, dbVars, rows, numbered
  <2>2. ASSUME NEW k \in files,
               file' = [file EXCEPT ![k].dir = "cur", ![k].key.info = TRUE],
               astray' = IF file[k].key.info THEN astray ELSE astray \union {k},
               UNCHANGED localVars
        PROVE  Clean'
    <3> DEFINE new == [file[k] EXCEPT !.dir = "cur", !.key.info = TRUE]
    <3>1. k \in Keys /\ file[k] \in File /\ file[k].key \in FileName
      BY <1>t DEF files, TypeOK, File
    <3>2. new \in File /\ new.path = file[k].path /\ new.key = [file[k].key EXCEPT !.info = TRUE]
      BY <3>1 DEF File, FileName
    <3>3. file[k].key.info = TRUE => new.key = file[k].key
      <4>1. ASSUME NEW x \in FileName, x.info = TRUE
            PROVE  [x EXCEPT !.info = TRUE] = x
        BY <4>1 DEF FileName
      <4> QED BY <3>1, <3>2, <4>1
    <3>4. file' = [file EXCEPT ![k] = new]
      BY <1>t, <2>2, <3>1 DEF TypeOK
    <3> HIDE DEF new
    <3>5. files' = files /\ file'[k] = new /\ \A m \in Keys \ {k} : file'[m] = file[m]
      BY <1>t, <3>1, <3>2, <3>4, NullAssumption DEF TypeOK, files
    <3>6. astray \subseteq astray' /\ (k \in astray' \/ file[k].key.info = TRUE)
      <4>1. file[k].key.info \in BOOLEAN
        BY <3>1 DEF FileName
      <4> QED BY <2>2, <4>1
    <3>7. pc' = pc /\ job' = job /\ Renaming' = Renaming /\ Retagging' = Retagging
      BY <2>2 DEF localVars, Renaming, Retagging
    <3>8. \A m \in files : m \in Keys /\ file'[m].path = file[m].path /\ (m \in astray' \/ file'[m].key = file[m].key)
      <4>1. \A m \in files : m \in Keys
        BY DEF files
      <4> QED BY <3>2, <3>3, <3>5, <3>6, <4>1
    <3>9. KeysAgree' /\ PathsAgree'
      BY <1>a, <2>u, <3>5, <3>6, <3>7, <3>8 DEF KeysAgree, PathsAgree, PathOfBox
    <3>10. DoomedNumbered' /\ ExpungedIsGone'
      BY <1>a, <2>u, <3>5, <3>6 DEF DoomedNumbered, ExpungedIsGone
    <3>11. \A d \in Clients : pc'[d] \notin Informed
      BY <2>1, <3>7, Alone, InformedFacts
    <3> QED BY <3>9, <3>10, <3>11, Uninformed DEF Clean, Agreed
  <2>3. ASSUME Return(c), UNCHANGED <<file, astray>>
        PROVE  Clean'
    <3>1. UNCHANGED <<dbVars, fsVars, damageVars>>
      BY <1>5, <2>3 DEF AppendUnseen, fsVars, damageVars
    <3> QED BY <2>1, <2>3, <3>1, QuietClean, InformedFacts DEF Return
  <2> QED BY <1>5, <2>2, <2>3 DEF AppendUnseen
<1> QED BY <1>1, <1>2, <1>3, <1>4, <1>5 DEF Append

LEMMA StoreClean ==
  ASSUME Sound, Clean, NEW c \in Clients, Store(c)
  PROVE  Clean'
<1>t. Typed /\ TypeOK
  BY DEF Sound, Typed
<1>l. /\ job[c] \in Job /\ job[c].flags \in SUBSET Flags
      /\ pc[c] \in Locked => mu = c
      /\ pc[c] \in WithKey => job[c].key \in Keys
      /\ pc[c] \in OnRow => job[c].key \in rows /\ row[job[c].key] \in Row
      /\ pc[c] \in WithFile => job[c].seen \in File
  BY <1>t, LocalTypes
<1>a. KeysAgree /\ PathsAgree /\ DoomedNumbered /\ ExpungedIsGone /\ Knows(c)
  BY DEF Clean, Agreed
<1>p. {"set", "retag", "idle"} \intersect (InRename \union InRetag \union Informed) = {}
  BY DEF InRename, InRetag, Informed
<1>1. CASE UpdateFlags(c) \/ ReplaceFlags(c)
  <2>1. PICK j : Goto(c, "set", j)
    BY <1>1 DEF UpdateFlags, ReplaceFlags
  <2>2. pc[c] \notin Informed /\ UNCHANGED <<dbVars, fsVars, damageVars>>
    BY <1>1, <1>p DEF UpdateFlags, ReplaceFlags
  <2> QED BY <1>p, <2>1, <2>2, QuietClean
<1>i. ASSUME Return(c), pc[c] \in {"set", "retag"}, UNCHANGED <<dbVars, fsVars, damageVars>>
      PROVE  Clean'
  BY <1>i, <1>p, QuietClean DEF Return
(* Of the rows and files only those of the message at hand change, and no row or
   file comes or goes but a file taken back. *)
<1>k. ASSUME NEW place, NEW j, Goto(c, place, j), mu \in {NoClient, c}, job[c].key \in rows,
             UNCHANGED <<boxes, name, issued, doomed, torn>>, astray \subseteq astray', rows' = rows,
             \A m \in files' : m \in files \/ m = job[c].key,
             KeysAgree', PathsAgree', Knows(c)'
      PROVE  Clean'
  <2>1. numbered' = numbered
    BY <1>k DEF numbered
  <2>2. DoomedNumbered' /\ ExpungedIsGone'
    BY <1>a, <1>k, <2>1, GoneKept
  <2>3. \A d \in Clients : Knows(d)'
    BY <1>k, HolderStep
  <2> QED BY <1>k, <2>2, <2>3 DEF Clean, Agreed
<1>2. CASE SetFlags(c)
  <2> DEFINE k == job[c].key
  <2>1. pc[c] = "set" /\ mu = NoClient /\ k \in Keys
    BY <1>2, <1>l DEF SetFlags, WithKey
  <2>u. /\ UNCHANGED <<boxes, name, issued, doomed, torn, astray>>
        /\ file' = file /\ files' = files
    BY <1>2 DEF SetFlags, fsVars, damageVars, files
  <2>2. CASE k \in rows /\ row' = [row EXCEPT ![k].flags = job[c].flags] /\ Goto(c, "retag", job[c])
    <3>1. row[k] \in Row /\ row' = [row EXCEPT ![k] = [row[k] EXCEPT !.flags = job[c].flags]]
      BY <1>t, <2>1, <2>2 DEF rows, TypeOK
    <3>2. /\ [row[k] EXCEPT !.flags = job[c].flags] \in Row
          /\ [row[k] EXCEPT !.flags = job[c].flags].box = row[k].box
          /\ [row[k] EXCEPT !.flags = job[c].flags].key = row[k].key
      BY <1>l, <3>1 DEF Row
    <3>3. rows' = rows /\ \A m \in rows : row'[m].box = row[m].box /\ row'[m].key = row[m].key
      BY <1>t, <2>1, <2>2, <3>1, <3>2, NullAssumption DEF rows, TypeOK
    <3>4. pc'[c] = "retag" /\ Renaming = {} /\ Retagging = {}
      BY <1>p, <2>1, <2>2, HolderStep
    <3>5. KeysAgree' /\ PathsAgree'
      BY <1>a, <2>u, <3>3, <3>4, NamesKept
    <3>6. Knows(c)'
      BY <1>p, <3>4, Uninformed
    <3> QED BY <1>k, <2>1, <2>2, <2>u, <3>3, <3>5, <3>6
  <2>3. CASE Return(c) /\ UNCHANGED row
    <3>1. UNCHANGED <<dbVars, fsVars, damageVars>>
      BY <1>2, <2>3 DEF SetFlags, dbVars
    <3> QED BY <1>i, <2>1, <2>3, <3>1
  <2> QED BY <1>2, <2>2, <2>3 DEF SetFlags
(* The file is renamed, and the row is behind until rekey. *)
<1>3. CASE Retag(c)
  <2> DEFINE k == job[c].key
             path == PathOfBox(row[k].box)
             new == [path |-> path, dir |-> DirFor(job[c].flags), key |-> NameFor(job[c].flags)]
             j == [job[c] EXCEPT !.seen = file[k]]
  <2>1. pc[c] = "retag" /\ mu = c /\ k \in Keys /\ k \in rows
    BY <1>3, <1>l, PlaceFacts DEF Retag, WithKey, OnRow
  <2>u. UNCHANGED <<boxes, name, issued, doomed, torn, astray>> /\ row' = row /\ rows' = rows
    BY <1>3 DEF Retag, dbVars, damageVars, rows
  <2>2. CASE /\ Exact(k, path, row[k].key) /\ file' = [file EXCEPT ![k] = new]
             /\ Goto(c, "rekey", j)
    <3>1. k \in files /\ file[k].path = path /\ file[k].key = row[k].key /\ file[k] \in File
      BY <1>t, <2>1, <2>2 DEF Exact, files, TypeOK
    <3>2. new \in File /\ new.path = path /\ new.key = NameFor(job[c].flags)
      <4>1. path \in Paths
        BY <3>1 DEF File
      <4> QED BY <4>1, NameTypes DEF File
    <3>3. j \in Job /\ j.key = k /\ j.seen = file[k] /\ j.flags = job[c].flags
      BY <1>l, <3>1 DEF Job
    <3> HIDE DEF j, new
    <3>4. files' = files /\ file'[k] = new /\ \A m \in files \ {k} : file'[m] = file[m]
      BY <1>t, <2>1, <2>2, <3>1, <3>2, NullAssumption DEF files, TypeOK
    <3>5. /\ pc'[c] = "rekey" /\ job'[c] = j /\ Renaming = {} /\ Retagging = {} /\ k \in Retagging'
      BY <1>p, <2>1, <2>2, <3>3, HolderStep DEF InRetag
    <3>6. KeysAgree' /\ PathsAgree'
      BY <1>a, <2>u, <3>2, <3>4, <3>5 DEF KeysAgree, PathsAgree, PathOfBox
    <3>7. Knows(c)'
      BY <2>u, <3>1, <3>2, <3>3, <3>4, <3>5
      DEF Knows, AppendKnows, RetagKnows, RenameKnows, ExpungeKnows, InRename, InRetag
    <3> QED BY <1>k, <2>1, <2>2, <2>u, <3>4, <3>6, <3>7
  <2>3. CASE Return(c) /\ UNCHANGED file
    <3>1. UNCHANGED <<dbVars, fsVars, damageVars>>
      BY <1>3, <2>3 DEF Retag, fsVars
    <3> QED BY <1>i, <2>1, <2>3, <3>1
  <2> QED BY <1>3, <2>2, <2>3 DEF Retag
<1>r. pc[c] \in InRetag => /\ Renaming = {} /\ Retagging = {job[c].key}
                           /\ job[c].key \in Keys /\ job[c].key \in rows /\ row[job[c].key] \in Row
                           /\ job[c].seen \in File /\ mu = c
                           /\ job[c].seen.key = row[job[c].key].key
                           /\ job[c].seen.path = PathOfBox(row[job[c].key].box)
                           /\ job[c].key \in files => file[job[c].key].key = NameFor(job[c].flags)
  <2> SUFFICES ASSUME pc[c] \in InRetag
               PROVE  /\ Renaming = {} /\ Retagging = {job[c].key}
                      /\ job[c].key \in Keys /\ job[c].key \in rows /\ row[job[c].key] \in Row
                      /\ job[c].seen \in File /\ mu = c
                      /\ job[c].seen.key = row[job[c].key].key
                      /\ job[c].seen.path = PathOfBox(row[job[c].key].box)
                      /\ job[c].key \in files => file[job[c].key].key = NameFor(job[c].flags)
    OBVIOUS
  <2>1. /\ job[c].key \in Keys /\ job[c].key \in rows /\ row[job[c].key] \in Row
        /\ job[c].seen \in File /\ mu = c
    BY <1>l, PlaceFacts DEF InRetag, WithKey, OnRow, WithFile
  <2>2. \A d \in Clients \ {c} : pc[d] \notin Locked
    BY <2>1, Alone
  <2>3. Renaming = {} /\ Retagging = {job[c].key}
    BY <2>2, InformedFacts DEF Renaming, Retagging, InRename, InRetag
  <2>4. /\ job[c].seen.key = row[job[c].key].key
        /\ job[c].key \in files => file[job[c].key].key = NameFor(job[c].flags)
    BY <1>a DEF Knows, RetagKnows
  <2>5. job[c].seen.path = PathOfBox(row[job[c].key].box)
    BY DEF Sound, Holds, RekeyHolds, InRetag
  <2> QED BY <2>1, <2>3, <2>4, <2>5
<1>4. CASE Rekey(c)
  <2> DEFINE k == job[c].key
  <2>1. pc[c] = "rekey" /\ pc[c] \in InRetag /\ "untag" \in InRetag
    BY <1>4 DEF Rekey, InRetag
  <2>u. UNCHANGED <<boxes, name, issued, doomed, torn, astray>> /\ file' = file /\ files' = files
    BY <1>4 DEF Rekey, fsVars, damageVars, files
  <2>2. CASE row' = [row EXCEPT ![k].key = NameFor(job[c].flags)] /\ Return(c)
    <3> DEFINE new == [row[k] EXCEPT !.key = NameFor(job[c].flags)]
    <3>1. new \in Row /\ new.box = row[k].box /\ new.key = NameFor(job[c].flags)
      BY <1>r, <2>1, NameTypes DEF Row
    <3>2. row' = [row EXCEPT ![k] = new]
      BY <2>2
    <3> HIDE DEF new
    <3>3. rows' = rows /\ row'[k] = new /\ \A m \in rows \ {k} : row'[m] = row[m]
      BY <1>r, <1>t, <2>1, <3>1, <3>2, NullAssumption DEF rows, TypeOK
    <3>4. pc'[c] = "idle" /\ Goto(c, "idle", NoJob)
      BY <1>t, <2>2, GotoFrame DEF Return
    <3>5. KeysAgree' /\ PathsAgree'
      BY <1>a, <1>r, <2>1, <2>u, <3>1, <3>3 DEF KeysAgree, PathsAgree, PathOfBox
    <3>6. Knows(c)'
      BY <1>p, <3>4, Uninformed
    <3> QED BY <1>k, <1>r, <2>1, <2>u, <3>3, <3>4, <3>5, <3>6
  <2>3. CASE Goto(c, "untag", job[c]) /\ UNCHANGED row
    <3>1. rows' = rows
      BY <2>3 DEF rows
    <3>2. pc'[c] = "untag" /\ job'[c] = job[c] /\ Retagging' = {k}
      BY <1>r, <2>1, <2>3, HolderStep
    <3>3. KeysAgree' /\ PathsAgree'
      BY <1>a, <1>r, <2>1, <2>u, <2>3, <3>1, <3>2, NamesKept
    <3>4. Knows(c)'
      BY <1>r, <2>1, <2>u, <2>3, <3>2
      DEF Knows, AppendKnows, RetagKnows, RenameKnows, ExpungeKnows, InRename, InRetag
    <3> QED BY <1>k, <1>r, <2>1, <2>u, <2>3, <3>1, <3>3, <3>4
  <2> QED BY <1>4, <2>2, <2>3 DEF Rekey
<1>5. CASE Untag(c)
  <2> DEFINE k == job[c].key
  <2>1. pc[c] = "untag" /\ pc[c] \in InRetag
    BY <1>5 DEF Untag, InRetag
  <2>u. UNCHANGED <<boxes, name, issued, doomed, torn>> /\ row' = row /\ rows' = rows
    BY <1>5 DEF Untag, dbVars, rows
  <2>2. pc'[c] = "idle" /\ Goto(c, "idle", NoJob)
    BY <1>5, <1>t, GotoFrame DEF Untag, Return
  <2>3. Knows(c)'
    BY <1>p, <2>2, Uninformed
  <2>4. CASE file' = [file EXCEPT ![k] = job[c].seen] /\ UNCHANGED astray
    <3>1. /\ file'[k] = job[c].seen /\ \A m \in Keys \ {k} : file'[m] = file[m]
      BY <1>r, <1>t, <2>1, <2>4 DEF TypeOK
    <3>2. \A m \in files' : m # k => m \in files /\ file'[m] = file[m]
      BY <3>1 DEF files
    <3>3. KeysAgree' /\ PathsAgree'
      BY <1>a, <1>r, <2>1, <2>4, <2>u, <3>1, <3>2 DEF KeysAgree, PathsAgree, PathOfBox
    <3> QED BY <1>k, <1>r, <2>1, <2>2, <2>3, <2>4, <2>u, <3>2, <3>3
  <2>5. CASE astray' = astray \union {k} /\ UNCHANGED file
    <3>1. files' = files
      BY <2>5 DEF files
    <3>2. KeysAgree' /\ PathsAgree'
      BY <1>a, <1>r, <2>1, <2>5, <2>u, <3>1, NamesKept
    <3> QED BY <1>k, <1>r, <2>1, <2>2, <2>3, <2>5, <2>u, <3>1, <3>2
  <2> QED BY <1>5, <2>4, <2>5 DEF Untag
<1> QED BY <1>1, <1>2, <1>3, <1>4, <1>5 DEF Store

LEMMA CopyClean ==
  ASSUME Sound, Clean, NEW c \in Clients, Copy(c)
  PROVE  Clean'
<1>1. UNCHANGED <<dbVars, fsVars, damageVars>> /\ pc[c] \notin Informed
  BY InformedFacts DEF Copy, CopyMessage, OpenBody, ScanBody, AppendCopy
<1>2. \E place \in {"idle", "open", "scanCur", "scanNew", "append", "write"} : \E j : Goto(c, place, j)
  BY DEF Copy, CopyMessage, OpenBody, ScanBody, ScanFor, Found, AppendCopy, AppendTo, Return
<1> QED BY <1>1, <1>2, QuietClean, InformedFacts

LEMMA ExpungeClean ==
  ASSUME Sound, Clean, NEW c \in Clients, Expunge(c)
  PROVE  Clean'
<1>t. Typed /\ TypeOK
  BY DEF Sound, Typed
<1>l. job[c] \in Job /\ job[c].todo \in SUBSET Keys /\ (pc[c] \in Locked => mu = c)
  BY <1>t, LocalTypes
<1>a. KeysAgree /\ PathsAgree /\ DoomedNumbered /\ ExpungedIsGone /\ Knows(c)
  BY DEF Clean, Agreed
<1>p. {"idle", "unlink", "purge"} \intersect (InRename \union InRetag) = {}
  BY DEF InRename, InRetag
<1>m. mu \in {NoClient, c} /\ pc[c] \in {"idle", "unlink", "purge"}
  BY <1>l, PlaceFacts DEF Expunge, ExpungeMailbox, Unlink, Purge
<1>g. ASSUME NEW place, NEW j, Goto(c, place, j)
      PROVE  /\ pc'[c] = place /\ job'[c] = j /\ Renaming = {} /\ Retagging = {}
             /\ Knows(c)' => \A d \in Clients : Knows(d)'
  BY <1>g, <1>m, <1>p, HolderStep
<1>1. CASE ExpungeMailbox(c)
  <2>1. PICK b \in boxes : /\ Goto(c, "unlink", [NoJob EXCEPT !.box = b, !.todo = Condemned(b)])
                           /\ doomed' = doomed \union Condemned(b)
    BY <1>1 DEF ExpungeMailbox
  <2> DEFINE j == [NoJob EXCEPT !.box = b, !.todo = Condemned(b)]
  <2>2. j.box = b /\ j.todo = Condemned(b)
    BY NoJobType DEF Job
  <2>3. Goto(c, "unlink", j)
    BY <2>1
  <2> HIDE DEF j
  <2>u. /\ boxes' = boxes /\ name' = name /\ row' = row /\ issued' = issued
        /\ file' = file /\ torn' = torn /\ astray' = astray
        /\ rows' = rows /\ files' = files /\ numbered' = numbered
    BY <1>1 DEF ExpungeMailbox, dbVars, fsVars, rows, files, numbered
  <2>4. /\ pc'[c] = "unlink" /\ job'[c] = j /\ Renaming = {} /\ Retagging = {}
        /\ Knows(c)' => \A d \in Clients : Knows(d)'
    BY <1>g, <2>3
  <2>5. KeysAgree' /\ PathsAgree'
    BY <1>a, <2>u, <2>4, NamesKept
  <2>6. DoomedNumbered' /\ ExpungedIsGone'
    <3>1. Condemned(b) \subseteq rows
      BY DEF Condemned
    <3> QED BY <1>a, <2>1, <2>u, <3>1, GoneKept
  <2>7. Knows(c)'
    <3>1. Condemned(b)' = Condemned(b)
      BY <2>u DEF Condemned
    <3> QED BY <2>2, <2>4, <3>1
        DEF Knows, AppendKnows, RetagKnows, RenameKnows, ExpungeKnows, InRename, InRetag
  <2> QED BY <2>4, <2>5, <2>6, <2>7 DEF Clean, Agreed
(* Under the lock the file of a row has the row's name, or a reason not to. *)
<1>2. CASE Unlink(c)
  <2>b. PICK b : b = job[c].box
    OBVIOUS
  <2>1. PICK k \in job[c].todo :
          /\ \/ /\ file' = IF Exact(k, PathOfBox(b), row[k].key) THEN [file EXCEPT ![k] = NoFile] ELSE file
                /\ UNCHANGED astray
             \/ astray' = astray \union {k} /\ UNCHANGED file
          /\ Goto(c, IF job[c].todo \ {k} = {} THEN "purge" ELSE "unlink",
                  [job[c] EXCEPT !.todo = job[c].todo \ {k}])
    BY <1>2, <2>b DEF Unlink
  <2>r. PICK rest : rest = job[c].todo \ {k}
    OBVIOUS
  <2> DEFINE j == [job[c] EXCEPT !.todo = rest]
             place == IF rest = {} THEN "purge" ELSE "unlink"
  <2>2. j.todo = rest /\ j.box = b
    BY <1>l, <2>b, <2>r DEF Job
  <2>3. Goto(c, place, j) /\ place \in {"purge", "unlink"} /\ (place = "purge" => rest = {})
    BY <2>1, <2>r
  <2> HIDE DEF j, place
  <2>u. /\ boxes' = boxes /\ name' = name /\ row' = row /\ issued' = issued
        /\ torn' = torn /\ doomed' = doomed /\ rows' = rows /\ numbered' = numbered
        /\ Condemned(b)' = Condemned(b)
    BY <1>2 DEF Unlink, dbVars, rows, numbered, Condemned
  <2>4. /\ pc'[c] = place /\ job'[c] = j /\ Renaming = {} /\ Retagging = {}
        /\ Knows(c)' => \A d \in Clients : Knows(d)'
    BY <1>g, <2>3
  <2>5. /\ pc[c] = "unlink" /\ job[c].todo \subseteq Condemned(b)
        /\ \A m \in Condemned(b) \ job[c].todo : LeftBehind(m, b)
    BY <1>2, <1>a, <2>b DEF Unlink, Knows, ExpungeKnows
  <2>6. k \in rows /\ row[k].box = b /\ k \in Keys
    BY <2>5 DEF Condemned, rows
  <2>7. /\ \A m \in files' : m \in files /\ file'[m] = file[m]
        /\ astray \subseteq astray'
    BY <1>t, <2>1 DEF files, TypeOK
  <2>8. k \notin files' \/ k \in astray' \/ b \in torn
    <3>1. CASE astray' = astray \union {k}
      BY <3>1
    <3>2. CASE Exact(k, PathOfBox(b), row[k].key) /\ file' = [file EXCEPT ![k] = NoFile]
      BY <1>t, <2>6, <3>2 DEF files, TypeOK
    <3>3. CASE ~Exact(k, PathOfBox(b), row[k].key) /\ UNCHANGED <<file, astray>>
      BY <1>a, <2>4, <2>6, <2>7, <3>3 DEF Exact, KeysAgree, PathsAgree
    <3> QED BY <2>1, <3>1, <3>2, <3>3
  <2>9. KeysAgree' /\ PathsAgree'
    BY <1>a, <2>u, <2>4, <2>7, NamesKept
  <2>10. DoomedNumbered' /\ ExpungedIsGone'
    BY <1>a, <2>u, <2>7, GoneKept
  <2>11. \A m \in Condemned(b) \ rest : LeftBehind(m, b)'
    BY <2>5, <2>7, <2>8, <2>r, <2>u DEF LeftBehind
  <2>12. Knows(c)'
    <3>1. rest \subseteq Condemned(b)'
      BY <2>5, <2>r, <2>u
    <3>2. pc'[c] \in {"unlink", "purge"} /\ job'[c].box = b /\ job'[c].todo = rest
      BY <2>2, <2>3, <2>4
    <3>3. AppendKnows(c)' /\ RetagKnows(c)' /\ RenameKnows(c)'
      BY <1>p, <3>2 DEF AppendKnows, RetagKnows, RenameKnows
    <3>4. ExpungeKnows(c)'
      BY <2>3, <2>4, <2>11, <2>u, <3>1, <3>2 DEF ExpungeKnows
    <3> QED BY <3>3, <3>4 DEF Knows
  <2> QED BY <2>4, <2>9, <2>10, <2>12 DEF Clean, Agreed
<1>3. CASE Purge(c)
  <2>1. pc[c] = "purge" /\ Goto(c, "idle", NoJob)
    BY <1>3 DEF Purge, Return
  <2>u. /\ boxes' = boxes /\ name' = name /\ issued' = issued /\ torn' = torn /\ doomed' = doomed
        /\ astray' = astray /\ file' = file /\ files' = files /\ numbered' = numbered
    BY <1>3 DEF Purge, fsVars, damageVars, numbered, files
  <2>2. /\ \A k \in rows' : k \in rows /\ row'[k] = row[k]
        /\ \A k \in rows \ rows' : k \in Condemned(job[c].box)
    BY <1>3, <1>t DEF Purge, rows, TypeOK
  <2>3. \A k \in Condemned(job[c].box) : row[k].box = job[c].box /\ LeftBehind(k, job[c].box)
    BY <1>a, <2>1 DEF Knows, ExpungeKnows, Condemned
  <2>4. /\ pc'[c] = "idle" /\ Renaming = {} /\ Retagging = {}
        /\ Knows(c)' => \A d \in Clients : Knows(d)'
    BY <1>g, <2>1
  <2>5. KeysAgree' /\ PathsAgree'
    BY <1>a, <2>u, <2>2, <2>4, NamesKept
  <2>6. DoomedNumbered' /\ ExpungedIsGone'
    <3>1. \A k \in (rows \ rows') \intersect files' : k \in astray' \/ row[k].box \in torn'
      BY <2>u, <2>2, <2>3 DEF LeftBehind
    <3> QED BY <1>a, <2>u, <3>1, GoneKept
  <2>7. Knows(c)'
    BY <2>4, Uninformed, InformedFacts
  <2> QED BY <2>4, <2>5, <2>6, <2>7 DEF Clean, Agreed
<1> QED BY <1>1, <1>2, <1>3 DEF Expunge

LEMMA ManageClean ==
  ASSUME Sound, Clean, NEW c \in Clients, Manage(c)
  PROVE  Clean'
<1>t. Typed /\ TypeOK
  BY DEF Sound, Typed
<1>l. /\ job[c] \in Job /\ job[c].box \in Boxes /\ job[c].old \in Names
      /\ PathOfBox(job[c].box) \in Paths /\ (pc[c] \in Locked => mu = c)
  BY <1>t, LocalTypes
<1>h. Stored /\ Holds(c)
  BY DEF Sound
<1>a. KeysAgree /\ PathsAgree /\ DoomedNumbered /\ ExpungedIsGone /\ Knows(c)
  BY DEF Clean, Agreed
<1>p. /\ {"idle", "mkdir", "rmdir"} \intersect (InRename \union InRetag \union Informed) = {}
      /\ InRename \intersect InRetag = {}
  BY DEF InRename, InRetag, Informed
<1>m. mu \in {NoClient, c} /\ pc[c] \in {"idle", "mkdir", "rmdir"} \union InRename
  BY <1>l, PlaceFacts
  DEF Manage, CreateMailbox, Mkdir, RenameMailbox, RenameDir, RenameBack, DeleteMailbox, Rmdir, InRename
<1>r. \A k \in rows : /\ k \in Keys /\ row[k].box \in Boxes /\ row[k].box \in boxes
                      /\ k \in numbered /\ issued[k].box = row[k].box
                      /\ uidnext[row[k].box] # 0 /\ name[row[k].box] \in Names
  <2>1. \A k \in rows : /\ k \in Keys /\ row[k].box \in Boxes /\ row[k].box \in boxes
                        /\ k \in numbered /\ issued[k].box = row[k].box
    BY <1>h, <1>t DEF rows, TypeOK, Row, Stored, RowsIssued
  <2> QED BY <1>h, <1>t, <2>1 DEF Stored, BoxesOpened, TypeOK
<1>n. \A m, n \in Names : PathOf[m] = PathOf[n] => m = n
  BY StoreAssumption
<1>g. ASSUME NEW place, NEW j, Goto(c, place, j)
      PROVE  /\ pc'[c] = place /\ job'[c] = j /\ Retagging = {}
             /\ Renaming = IF pc[c] \in InRename THEN {job[c].box} ELSE {}
             /\ Renaming' = IF place \in InRename THEN {j.box} ELSE {}
             /\ place \notin Informed \/ Knows(c)' => \A d \in Clients : Knows(d)'
  <2>1. pc[c] \notin InRetag
    BY <1>m, <1>p
  <2> QED BY <1>g, <1>m, <2>1, HolderStep, Uninformed
<1>1. CASE CreateMailbox(c)
  <2>1. PICK b \in Boxes, n \in Names :
          /\ uidnext[b] = 0
          /\ boxes' = boxes \union {b}
          /\ name' = [name EXCEPT ![b] = n]
          /\ Goto(c, "mkdir", [NoJob EXCEPT !.box = b])
    BY <1>1 DEF CreateMailbox
  <2>u. /\ row' = row /\ issued' = issued /\ file' = file
        /\ torn' = torn /\ doomed' = doomed /\ astray' = astray
        /\ rows' = rows /\ files' = files /\ numbered' = numbered
    BY <1>1 DEF CreateMailbox, fsVars, damageVars, rows, files, numbered
  <2>2. \A a \in Boxes \ {b} : name'[a] = name[a]
    BY <1>t, <2>1 DEF TypeOK
  <2>3. \A k \in rows : row[k].box # b
    BY <1>r, <2>1
  (* The id is new: no message was ever issued under it. *)
  <2>4. \A k \in numbered : issued[k].box # b
    <3>1. \A k \in Keys : issued[k].uid \in Nat
      BY <1>t DEF TypeOK
    <3> QED BY <1>h, <2>1, <3>1 DEF Stored, UidsBelow, numbered
  <2>5. Renaming = {} /\ Retagging = {} /\ \A d \in Clients : Knows(d)'
    <3>1. pc[c] \notin InRename /\ "mkdir" \notin Informed
      BY <1>1, <1>p DEF CreateMailbox
    <3> QED BY <1>g, <2>1, <3>1
  <2>6. KeysAgree' /\ PathsAgree'
    BY <1>a, <1>r, <2>2, <2>3, <2>5, <2>u, NamesKept
  <2>7. DoomedNumbered' /\ ExpungedIsGone'
    BY <1>a, <2>1, <2>4, <2>u, GoneKept
  <2> QED BY <2>5, <2>6, <2>7 DEF Clean, Agreed
<1>2. CASE Mkdir(c)
  <2>u. /\ name' = name /\ row' = row /\ issued' = issued /\ file' = file
        /\ torn' = torn /\ doomed' = doomed /\ astray' = astray
        /\ rows' = rows /\ files' = files /\ numbered' = numbered /\ boxes' \subseteq boxes
    BY <1>2 DEF Mkdir, damageVars, rows, files, numbered
  <2>1. Renaming = {} /\ Retagging = {} /\ \A d \in Clients : Knows(d)'
    BY <1>2, <1>g, <1>p DEF Mkdir, Return
  <2>2. KeysAgree' /\ PathsAgree'
    BY <1>a, <2>1, <2>u, NamesKept
  <2>3. DoomedNumbered' /\ ExpungedIsGone'
    BY <1>a, <2>u, GoneKept
  <2> QED BY <2>1, <2>2, <2>3 DEF Clean, Agreed
(* The name changes in the database first. *)
<1>3. CASE RenameMailbox(c)
  <2>1. PICK b \in boxes, n \in Names :
          /\ name' = [name EXCEPT ![b] = n]
          /\ Goto(c, "renameDir", [NoJob EXCEPT !.box = b, !.old = name[b]])
    BY <1>3 DEF RenameMailbox
  <2> DEFINE j == [NoJob EXCEPT !.box = b, !.old = name[b]]
  <2>2. j.box = b /\ j.old = name[b] /\ Goto(c, "renameDir", j) /\ b \in Boxes
    BY <1>t, <2>1, NoJobType DEF Job, TypeOK
  <2> HIDE DEF j
  <2>u. /\ boxes' = boxes /\ row' = row /\ issued' = issued /\ file' = file
        /\ torn' = torn /\ doomed' = doomed /\ astray' = astray
        /\ rows' = rows /\ files' = files /\ numbered' = numbered
    BY <1>3 DEF RenameMailbox, fsVars, damageVars, rows, files, numbered
  <2>3. \A a \in Boxes \ {b} : name'[a] = name[a]
    BY <1>t, <2>1 DEF TypeOK
  <2>4. /\ pc'[c] = "renameDir" /\ job'[c] = j /\ Renaming = {} /\ Retagging = {} /\ Renaming' = {b}
        /\ Knows(c)' => \A d \in Clients : Knows(d)'
    <3>1. pc[c] \notin InRename /\ "renameDir" \in InRename
      BY <1>3, <1>p DEF RenameMailbox, InRename
    <3> QED BY <1>g, <2>2, <3>1
  <2>5. KeysAgree' /\ PathsAgree'
    BY <1>a, <1>r, <2>3, <2>4, <2>u DEF KeysAgree, PathsAgree, PathOfBox
  <2>6. DoomedNumbered' /\ ExpungedIsGone'
    BY <1>a, <2>u, GoneKept
  <2>7. Knows(c)'
    <3>1. \A k \in rows \intersect files : row[k].box = b => b \in torn \/ file[k].path = PathOf[name[b]]
      BY <1>a, <2>4 DEF PathsAgree, PathOfBox
    <3> QED BY <2>2, <2>4, <2>u, <3>1
        DEF Knows, AppendKnows, RetagKnows, RenameKnows, ExpungeKnows, InRename, InRetag
  <2> QED BY <2>4, <2>5, <2>6, <2>7 DEF Clean, Agreed
<1>4. CASE RenameDir(c)
  <2>b. PICK b, from, to : b = job[c].box /\ from = PathOf[job[c].old] /\ to = PathOfBox(job[c].box)
    OBVIOUS
  <2>1. /\ pc[c] = "renameDir" /\ pc[c] \in InRename /\ "renameBack" \in InRename /\ b \in boxes
        /\ \A a \in boxes \ {b} : name[a] # job[c].old
        /\ \A k \in rows \intersect files : row[k].box = b => b \in torn \/ file[k].path = from
    BY <1>4, <1>a, <1>h, <2>b DEF RenameDir, InRename, Holds, RenameHolds, Knows, RenameKnows
  <2>u. /\ boxes' = boxes /\ name' = name /\ row' = row /\ issued' = issued /\ astray' = astray
        /\ torn' = torn /\ doomed' = doomed /\ rows' = rows /\ numbered' = numbered
    BY <1>4 DEF RenameDir, dbVars, damageVars, rows, numbered
  <2>r. Retagging = {} /\ Renaming = {b}
    <3>1. PICK place, j : Goto(c, place, j)
      BY <1>4 DEF RenameDir, Return
    <3> QED BY <1>g, <2>1, <2>b, <3>1
  <2>2. \A k \in rows \intersect files : row[k].box # b =>
          row[k].box \in torn \/ (file[k].path = PathOfBox(row[k].box) /\ file[k].path # from)
    BY <1>a, <1>l, <1>n, <1>r, <2>1, <2>b, <2>r DEF PathsAgree, PathOfBox
  <2>g. ASSUME files' = files, KeysAgree', PathsAgree', \A d \in Clients : Knows(d)'
        PROVE  Clean'
    <3>1. DoomedNumbered' /\ ExpungedIsGone'
      BY <1>a, <2>g, <2>u, GoneKept
    <3> QED BY <2>g, <3>1 DEF Clean, Agreed
  <2>3. CASE /\ file' = [k \in Keys |-> IF k \in files /\ file[k].path = from
                                          THEN [file[k] EXCEPT !.path = to] ELSE file[k]]
             /\ Return(c)
    <3>1. \A k \in files : /\ [file[k] EXCEPT !.path = to] \in File
                           /\ [file[k] EXCEPT !.path = to].path = to
                           /\ [file[k] EXCEPT !.path = to].key = file[k].key
      BY <1>l, <1>t, <2>b DEF files, TypeOK, File
    <3>2. /\ files' = files
          /\ \A k \in files : /\ file[k].path = from => file'[k].path = to
                              /\ file[k].path # from => file'[k] = file[k]
                              /\ file'[k].key = file[k].key
      BY <2>3, <3>1, NullAssumption DEF files
    <3>3. KeysAgree'
      BY <1>a, <2>r, <2>u, <3>2 DEF KeysAgree
    <3>4. PathsAgree'
      <4>1. PathOfBox(b) = to
        BY <2>b
      <4> QED BY <2>1, <2>2, <2>u, <3>2, <4>1 DEF PathsAgree, PathOfBox
    <3>5. \A d \in Clients : Knows(d)'
      BY <1>g, <1>p, <2>3 DEF Return
    <3> QED BY <2>g, <3>2, <3>3, <3>4, <3>5
  <2>4. CASE from \notin dirs /\ Return(c) /\ UNCHANGED file
    <3>1. \A k \in files : file[k].path # from
      BY <1>h, <2>4 DEF Stored, FilesInDirs
    <3>2. files' = files
      BY <2>4 DEF files
    <3>3. KeysAgree'
      BY <1>a, <2>4, <2>r, <2>u, <3>2 DEF KeysAgree
    <3>4. PathsAgree'
      BY <2>1, <2>2, <2>4, <2>u, <3>1, <3>2 DEF PathsAgree, PathOfBox
    <3>5. \A d \in Clients : Knows(d)'
      BY <1>g, <1>p, <2>4 DEF Return
    <3> QED BY <2>g, <3>2, <3>3, <3>4, <3>5
  <2>5. CASE Goto(c, "renameBack", job[c]) /\ UNCHANGED file
    <3>1. /\ pc'[c] = "renameBack" /\ job'[c] = job[c] /\ Renaming' = {b}
          /\ Knows(c)' => \A d \in Clients : Knows(d)'
      BY <1>g, <2>1, <2>5, <2>b
    <3>2. files' = files
      BY <2>5 DEF files
    <3>3. KeysAgree' /\ PathsAgree'
      BY <1>a, <2>5, <2>r, <2>u, <3>1, <3>2, NamesKept
    <3>4. Knows(c)'
      BY <2>1, <2>5, <2>b, <2>u, <3>1, <3>2
      DEF Knows, AppendKnows, RetagKnows, RenameKnows, ExpungeKnows, InRename, InRetag
    <3> QED BY <2>g, <3>1, <3>2, <3>3, <3>4
  <2> QED BY <1>4, <2>3, <2>4, <2>5, <2>b DEF RenameDir
<1>5. CASE RenameBack(c)
  <2>b. PICK b : b = job[c].box
    OBVIOUS
  <2>1. /\ pc[c] = "renameBack" /\ pc[c] \in InRename /\ Goto(c, "idle", NoJob) /\ b \in Boxes
        /\ \A k \in rows \intersect files : row[k].box = b => b \in torn \/ file[k].path = PathOf[job[c].old]
    BY <1>5, <1>a, <1>l, <2>b DEF RenameBack, Return, InRename, Knows, RenameKnows
  <2>u. /\ boxes' = boxes /\ row' = row /\ issued' = issued /\ file' = file /\ doomed' = doomed
        /\ astray' = astray /\ rows' = rows /\ files' = files /\ numbered' = numbered
        /\ torn \subseteq torn'
    BY <1>5 DEF RenameBack, fsVars, rows, files, numbered
  <2>r. Retagging = {} /\ Renaming = {b} /\ \A d \in Clients : Knows(d)'
    BY <1>g, <1>p, <2>1, <2>b
  <2>2. KeysAgree'
    BY <1>a, <2>r, <2>u DEF KeysAgree
  <2>3. PathsAgree'
    <3>1. CASE name' = [name EXCEPT ![b] = job[c].old] /\ UNCHANGED torn
      <4>1. name'[b] = job[c].old /\ \A a \in Boxes \ {b} : name'[a] = name[a]
        BY <1>t, <2>1, <3>1 DEF TypeOK
      <4> QED BY <1>a, <1>r, <2>1, <2>r, <2>u, <3>1, <4>1 DEF PathsAgree, PathOfBox
    <3>2. CASE torn' = torn \union {b} /\ UNCHANGED name
      BY <1>a, <2>r, <2>u, <3>2 DEF PathsAgree, PathOfBox
    <3> QED BY <1>5, <2>b, <3>1, <3>2 DEF RenameBack
  <2>4. DoomedNumbered' /\ ExpungedIsGone'
    BY <1>a, <2>u, GoneKept
  <2> QED BY <2>2, <2>3, <2>4, <2>r DEF Clean, Agreed
(* The rows go with their mailbox, whose id is not used again. *)
<1>6. CASE DeleteMailbox(c)
  <2>1. PICK b \in boxes :
          /\ boxes' = boxes \ {b}
          /\ row' = [k \in Keys |-> IF k \in rows /\ row[k].box = b THEN NoRow ELSE row[k]]
          /\ \E j : Goto(c, "rmdir", j)
    BY <1>6 DEF DeleteMailbox
  <2>u. /\ name' = name /\ issued' = issued /\ file' = file /\ torn' = torn /\ doomed' = doomed
        /\ astray' = astray /\ files' = files /\ numbered' = numbered
    BY <1>6 DEF DeleteMailbox, fsVars, damageVars, files, numbered
  <2>2. /\ \A k \in rows' : k \in rows /\ row'[k] = row[k]
        /\ \A k \in rows \ rows' : row[k].box = b
    BY <2>1 DEF rows
  <2>r. Renaming = {} /\ Retagging = {} /\ \A d \in Clients : Knows(d)'
    <3>1. pc[c] \notin InRename
      BY <1>6, <1>p DEF DeleteMailbox
    <3> QED BY <1>g, <1>p, <2>1, <3>1
  <2>3. KeysAgree' /\ PathsAgree'
    BY <1>a, <2>2, <2>r, <2>u, NamesKept
  <2>4. DoomedNumbered' /\ ExpungedIsGone'
    <3>1. \A k \in (rows \ rows') \intersect files' : row[k].box \notin boxes'
      BY <2>1, <2>2
    <3> QED BY <1>a, <2>1, <2>u, <3>1, GoneKept
  <2> QED BY <2>3, <2>4, <2>r DEF Clean, Agreed
<1>7. CASE Rmdir(c)
  <2>u. /\ boxes' = boxes /\ name' = name /\ row' = row /\ issued' = issued /\ astray' = astray
        /\ torn' = torn /\ doomed' = doomed /\ rows' = rows /\ numbered' = numbered
    BY <1>7 DEF Rmdir, dbVars, damageVars, rows, numbered
  <2>1. \A k \in files' : k \in files /\ file'[k] = file[k]
    BY <1>7, <1>t DEF Rmdir, files, fsVars, TypeOK
  <2>r. Renaming = {} /\ Retagging = {} /\ \A d \in Clients : Knows(d)'
    BY <1>7, <1>g, <1>p DEF Rmdir, Return
  <2>2. KeysAgree' /\ PathsAgree'
    BY <1>a, <2>1, <2>r, <2>u, NamesKept
  <2>3. DoomedNumbered' /\ ExpungedIsGone'
    BY <1>a, <2>1, <2>u, GoneKept
  <2> QED BY <2>2, <2>3, <2>r DEF Clean, Agreed
<1> QED BY <1>1, <1>2, <1>3, <1>4, <1>5, <1>6, <1>7 DEF Manage

LEMMA CrashClean ==
  ASSUME Sound, Clean, Crash
  PROVE  Clean'
<1>1. \A d \in Clients : pc'[d] = "idle"
  BY DEF Crash
<1>u. /\ boxes' = boxes /\ name' = name /\ row' = row /\ issued' = issued /\ file' = file
      /\ doomed' = doomed /\ torn' = torn \union Renaming /\ astray' = astray \union Retagging
      /\ rows' = rows /\ files' = files /\ numbered' = numbered
  BY DEF Crash, dbVars, fsVars, rows, files, numbered
<1>2. KeysAgree' /\ PathsAgree'
  BY <1>u, NamesKept DEF Clean, Agreed
<1>3. DoomedNumbered' /\ ExpungedIsGone'
  BY <1>u, GoneKept DEF Clean, Agreed
<1> QED BY <1>1, <1>2, <1>3, Uninformed, InformedFacts DEF Clean, Agreed

LEMMA CleanInit == Init => Clean
<1> SUFFICES ASSUME Init
             PROVE  Clean
  OBVIOUS
<1>1. rows = {} /\ files = {} /\ doomed = {} /\ \A c \in Clients : pc[c] = "idle"
  BY DEF Init, rows, files
<1>2. Agreed
  BY <1>1 DEF Agreed, DoomedNumbered, KeysAgree, PathsAgree, ExpungedIsGone
<1>3. \A c \in Clients : Knows(c)
  BY <1>1 DEF Knows, AppendKnows, RetagKnows, RenameKnows, ExpungeKnows, InRename, InRetag
<1> QED BY <1>2, <1>3 DEF Clean

LEMMA CleanNext == Sound /\ Clean /\ [Next]_vars => Clean'
<1> SUFFICES ASSUME Sound, Clean, [Next]_vars
             PROVE  Clean'
  OBVIOUS
<1>1. CASE UNCHANGED vars
  <2>1. Agreed'
    BY <1>1 DEF vars, dbVars, fsVars, localVars, damageVars, Clean, Agreed, DoomedNumbered, KeysAgree,
                PathsAgree, ExpungedIsGone, PathOfBox, Renaming, Retagging, rows, files, numbered
  <2>2. ASSUME NEW c \in Clients
        PROVE  Knows(c)'
    BY <1>1 DEF vars, dbVars, fsVars, localVars, damageVars, Clean, Knows, AppendKnows, RetagKnows,
                RenameKnows, ExpungeKnows, LeftBehind, Condemned, rows, files
  <2> QED BY <2>1, <2>2 DEF Clean
<1>2. CASE Next
  BY <1>2, AppendClean, StoreClean, CopyClean, ExpungeClean, ManageClean, CrashClean DEF Next
<1> QED BY <1>1, <1>2

(* ExpungeMailbox leaves a file behind only for one of the reasons ExpungedIsGone
   names, whatever the clients do between its steps and wherever it is cut.   *)
THEOREM ExpungedGo == Spec => []ExpungedIsGone
<1>1. Clean => ExpungedIsGone
  BY DEF Clean, Agreed
<1> QED BY <1>1, CleanInit, CleanNext, SoundInit, SoundNext, PTL DEF Spec

-----------------------------------------------------------------------------
(* The store implements Mailbox: every step is one of Mailbox's or changes nothing
   that a client sees.                                                       *)

(* INBOX stays and keeps its name; what is created or renamed is another one. *)
InManage == {"mkdir"} \union InRename
InboxSafe ==
  /\ Inbox \in boxes /\ name[Inbox] = InboxName
  /\ \A c \in Clients : pc[c] \in InManage => job[c].box # Inbox

LEMMA InboxStep ==
  ASSUME Sound, InboxSafe, NEW c \in Clients, NEW place, NEW j, Goto(c, place, j),
         place \in InManage => j.box # Inbox, Inbox \in boxes', name'[Inbox] = InboxName
  PROVE  InboxSafe'
BY GotoFrame DEF Sound, InboxSafe

LEMMA InboxNext == Sound /\ InboxSafe /\ [Next]_vars => InboxSafe'
<1> SUFFICES ASSUME Sound, InboxSafe, [Next]_vars
             PROVE  InboxSafe'
  OBVIOUS
<1>t. Typed /\ TypeOK /\ Inbox \in Boxes
  BY StoreAssumption DEF Sound, Typed
<1>p. InManage = {"mkdir", "renameDir", "renameBack"}
  BY DEF InManage, InRename
<1>i. \A d \in Clients : pc[d] \in InManage => job[d].box # Inbox /\ job[d].box \in Boxes
  BY <1>t, LocalTypes DEF InboxSafe
<1>r. ASSUME NEW c \in Clients, Return(c), Inbox \in boxes', name'[Inbox] = InboxName
      PROVE  InboxSafe'
  BY <1>p, <1>r, InboxStep DEF Return
(* The commands that leave the mailboxes alone. *)
<1>q. ASSUME NEW c \in Clients, UNCHANGED <<boxes, name>>, NEW place, NEW j,
             Goto(c, place, j), place \notin InManage
      PROVE  InboxSafe'
  BY <1>q, InboxStep DEF InboxSafe
<1>u. ASSUME UNCHANGED <<boxes, name, pc, job>>
      PROVE  InboxSafe'
  BY <1>u DEF InboxSafe
<1>1. ASSUME NEW c \in Clients, Append(c)
      PROVE  InboxSafe'
  <2>1. UNCHANGED <<boxes, name>>
    BY <1>1 DEF Append, AppendMessage, AppendWrite, AppendUid, AppendInsert, AppendUnseen,
                AppendFails, dbVars
  <2>2. \/ UNCHANGED <<pc, job>>
        \/ \E place \in {"write", "uid", "insert", "unseen", "idle"} : \E j : Goto(c, place, j)
    BY <1>1 DEF Append, AppendMessage, AppendTo, AppendWrite, AppendUid, AppendInsert, AppendUnseen,
                AppendFails, Return, localVars
  <2> QED BY <1>p, <1>q, <1>u, <2>1, <2>2
<1>2. ASSUME NEW c \in Clients, Store(c)
      PROVE  InboxSafe'
  <2>1. UNCHANGED <<boxes, name>>
    BY <1>2 DEF Store, UpdateFlags, ReplaceFlags, SetFlags, Retag, Rekey, Untag, dbVars
  <2>2. \E place \in {"set", "retag", "rekey", "untag", "idle"} : \E j : Goto(c, place, j)
    BY <1>2 DEF Store, UpdateFlags, ReplaceFlags, SetFlags, Retag, Rekey, Untag, Return
  <2> QED BY <1>p, <1>q, <2>1, <2>2
<1>3. ASSUME NEW c \in Clients, Copy(c)
      PROVE  InboxSafe'
  <2>1. UNCHANGED <<boxes, name>>
    BY <1>3 DEF Copy, CopyMessage, OpenBody, ScanBody, AppendCopy, dbVars
  <2>2. \E place \in {"open", "scanCur", "scanNew", "append", "write", "idle"} : \E j : Goto(c, place, j)
    BY <1>3 DEF Copy, CopyMessage, OpenBody, ScanBody, ScanFor, Found, AppendCopy, AppendTo, Return
  <2> QED BY <1>p, <1>q, <2>1, <2>2
<1>4. ASSUME NEW c \in Clients, Expunge(c)
      PROVE  InboxSafe'
  <2>1. UNCHANGED <<boxes, name>>
    BY <1>4 DEF Expunge, ExpungeMailbox, Unlink, Purge, dbVars
  <2>2. \E place \in {"unlink", "purge", "idle"} : \E j : Goto(c, place, j)
    BY <1>4 DEF Expunge, ExpungeMailbox, Unlink, Purge, Return
  <2> QED BY <1>p, <1>q, <2>1, <2>2
<1>5. ASSUME NEW c \in Clients, CreateMailbox(c)
      PROVE  InboxSafe'
  <2>1. PICK b \in Boxes, n \in Names :
          /\ uidnext[b] = 0 /\ boxes' = boxes \union {b} /\ name' = [name EXCEPT ![b] = n]
          /\ Goto(c, "mkdir", [NoJob EXCEPT !.box = b])
    BY <1>5 DEF CreateMailbox
  <2>2. b # Inbox
    BY <2>1 DEF InboxSafe, Sound, Stored, BoxesOpened
  <2>3. [NoJob EXCEPT !.box = b].box = b
    BY DEF NoJob
  <2>4. Inbox \in boxes' /\ name'[Inbox] = InboxName
    BY <1>t, <2>1, <2>2 DEF InboxSafe, TypeOK
  <2> QED BY <2>1, <2>2, <2>3, <2>4, InboxStep
<1>6. ASSUME NEW c \in Clients, Mkdir(c)
      PROVE  InboxSafe'
  <2>1. Inbox \in boxes' /\ name'[Inbox] = InboxName
    BY <1>6, <1>i, <1>p DEF Mkdir, InboxSafe
  <2> QED BY <1>6, <1>r, <2>1 DEF Mkdir
<1>7. ASSUME NEW c \in Clients, RenameMailbox(c)
      PROVE  InboxSafe'
  <2>1. PICK b \in boxes, n \in Names :
          /\ name[b] # InboxName /\ name' = [name EXCEPT ![b] = n]
          /\ Goto(c, "renameDir", [NoJob EXCEPT !.box = b, !.old = name[b]])
    BY <1>7 DEF RenameMailbox
  <2>2. b # Inbox /\ [NoJob EXCEPT !.box = b, !.old = name[b]].box = b
    BY <2>1 DEF InboxSafe, NoJob
  <2>3. Inbox \in boxes' /\ name'[Inbox] = InboxName
    BY <1>7, <1>t, <2>1, <2>2 DEF RenameMailbox, InboxSafe, TypeOK
  <2> QED BY <2>1, <2>2, <2>3, InboxStep
<1>8. ASSUME NEW c \in Clients, RenameDir(c)
      PROVE  InboxSafe'
  <2>1. UNCHANGED <<boxes, name>>
    BY <1>8 DEF RenameDir, dbVars
  <2>2. Return(c) \/ Goto(c, "renameBack", job[c])
    BY <1>8 DEF RenameDir
  <2>3. job[c].box # Inbox
    BY <1>8, <1>i, <1>p DEF RenameDir
  <2> QED BY <1>r, <2>1, <2>2, <2>3, InboxStep DEF InboxSafe
<1>9. ASSUME NEW c \in Clients, RenameBack(c)
      PROVE  InboxSafe'
  <2>1. job[c].box # Inbox
    BY <1>9, <1>i, <1>p DEF RenameBack
  <2>2. Inbox \in boxes' /\ name'[Inbox] = InboxName
    BY <1>9, <1>t, <2>1 DEF RenameBack, InboxSafe, TypeOK
  <2> QED BY <1>9, <1>r, <2>2 DEF RenameBack
<1>10. ASSUME NEW c \in Clients, DeleteMailbox(c)
       PROVE  InboxSafe'
  <2>1. Inbox \in boxes' /\ name'[Inbox] = InboxName
    BY <1>10 DEF DeleteMailbox, InboxSafe
  <2>2. \E b : Goto(c, "rmdir", [NoJob EXCEPT !.box = b])
    BY <1>10 DEF DeleteMailbox
  <2> QED BY <1>p, <2>1, <2>2, InboxStep
<1>11. ASSUME NEW c \in Clients, Rmdir(c)
       PROVE  InboxSafe'
  BY <1>11, <1>r DEF Rmdir, dbVars, InboxSafe
<1>12. CASE Crash
  BY <1>12, <1>p DEF Crash, dbVars, InboxSafe
<1>13. CASE UNCHANGED vars
  BY <1>13, <1>u DEF vars, dbVars, localVars
<1> QED BY <1>1, <1>2, <1>3, <1>4, <1>5, <1>6, <1>7, <1>8, <1>9, <1>10, <1>11, <1>12, <1>13
        DEF Next, Manage

(* A step that changes no row but in the name of the file. *)
LEMMA OnlyFileName ==
  ASSUME rows' = rows, \A k \in rows : /\ row'[k].box = row[k].box /\ row'[k].uid = row[k].uid
                                       /\ row'[k].flags = row[k].flags
  PROVE  message' = message
BY DEF message

LEMMA DbKept ==
  ASSUME UNCHANGED dbVars
  PROVE  UNCHANGED Client!vars
BY DEF dbVars, Client!vars, message, rows

(* Rows go, and the others stay. *)
LEMMA RowsGo ==
  ASSUME NEW gone \in SUBSET Keys, row' = [k \in Keys |-> IF k \in gone THEN NoRow ELSE row[k]]
  PROVE  message' = Client!Without(gone)
<1>1. rows' = rows \ gone /\ \A k \in rows' : row'[k] = row[k]
  BY DEF rows
<1> QED BY <1>1 DEF message, Client!Without, Client!present

LEMMA AppendClient ==
  ASSUME Sound, NEW c \in Clients, Append(c)
  PROVE  Client!Next \/ UNCHANGED Client!vars
<1>t. Typed /\ TypeOK
  BY DEF Sound, Typed
<1>l. job[c].box \in Boxes /\ job[c].uid \in Nat /\ job[c].flags \in SUBSET Flags
  BY <1>t, LocalTypes
<1>1. CASE UNCHANGED dbVars
  BY <1>1, DbKept
<1>2. CASE AppendUid(c) /\ ~UNCHANGED dbVars
  <2>1. /\ pc[c] = "uid" /\ uidnext' = [uidnext EXCEPT ![job[c].box] = @ + 1]
        /\ UNCHANGED <<boxes, row, issued>>
    BY <1>2 DEF AppendUid, AppendFails
  <2>2. job[c].box \in boxes
    BY <2>1 DEF Sound, Holds, AppendHolds
  <2>3. message' = message
    BY <2>1 DEF message, rows
  <2>4. Client!TakeUid(job[c].box)
    BY <2>1, <2>2, <2>3 DEF Client!TakeUid
  <2> QED BY <1>l, <2>4 DEF Client!Next
<1>3. CASE AppendInsert(c) /\ ~UNCHANGED dbVars
  <2> DEFINE k == job[c].key
             r == [box |-> job[c].box, uid |-> job[c].uid,
                   key |-> NameFor(job[c].flags), flags |-> job[c].flags]
  <2>1. /\ pc[c] = "insert" /\ UNCHANGED <<boxes, uidnext>>
        /\ issued' = [issued EXCEPT ![k] = [box |-> job[c].box, uid |-> job[c].uid]]
        /\ row' = [row EXCEPT ![k] = r]
    BY <1>3 DEF AppendInsert, AppendFails
  <2>2. /\ job[c].box \in boxes /\ job[c].uid # 0 /\ job[c].uid < uidnext[job[c].box]
        /\ \A j \in Keys : issued[j].box = job[c].box => issued[j].uid < job[c].uid
    BY <2>1 DEF Sound, Holds, AppendHolds
  <2>3. k \in Keys /\ k \notin rows /\ issued[k].uid = 0
    BY <2>1, NoRowYet DEF Writing, numbered
  <2>4. r \in Row /\ r # NoRow
    BY <1>l, NameTypes, NullAssumption DEF Row
  <2>5. rows' = rows \union {k} /\ row'[k] = r /\ \A j \in rows : row'[j] = row[j]
    BY <1>t, <2>1, <2>3, <2>4 DEF rows, TypeOK
  <2>6. r.box = job[c].box /\ r.uid = job[c].uid /\ r.flags = job[c].flags
    OBVIOUS
  <2> HIDE DEF r
  <2>7. message' = Client!With(k, [box |-> job[c].box, uid |-> job[c].uid, flags |-> job[c].flags])
    BY <2>3, <2>5, <2>6 DEF message, Client!With, Client!present
  <2>8. Client!Add(k, job[c].box, job[c].uid, job[c].flags)
    BY <2>1, <2>2, <2>3, <2>7 DEF Client!Add
  <2>9. job[c].uid \in 1..uidnext[job[c].box]
    BY <1>l, <1>t, <2>2 DEF TypeOK
  <2> QED BY <1>l, <2>3, <2>8, <2>9 DEF Client!Next
<1>4. Append(c) => UNCHANGED dbVars \/ AppendUid(c) \/ AppendInsert(c)
  BY DEF Append, AppendMessage, AppendWrite, AppendUnseen
<1> QED BY <1>1, <1>2, <1>3, <1>4

LEMMA StoreClient ==
  ASSUME Sound, NEW c \in Clients, Store(c)
  PROVE  Client!Next \/ UNCHANGED Client!vars
<1>t. Typed /\ TypeOK
  BY DEF Sound, Typed
<1> DEFINE k == job[c].key
<1>l. job[c].flags \in SUBSET Flags /\ (pc[c] = "rekey" => k \in rows)
  BY <1>t, LocalTypes DEF OnRow
<1>1. CASE UNCHANGED dbVars
  BY <1>1, DbKept
<1>2. CASE SetFlags(c) /\ ~UNCHANGED dbVars
  <2>1. /\ k \in rows /\ row' = [row EXCEPT ![k].flags = job[c].flags]
        /\ UNCHANGED <<boxes, name, uidnext, issued>>
    BY <1>2 DEF SetFlags, dbVars
  <2>2. k \in Keys /\ row[k] \in Row
    BY <1>t, <2>1 DEF rows, TypeOK
  <2>3. /\ [row[k] EXCEPT !.flags = job[c].flags] \in Row
        /\ row'[k] = [row[k] EXCEPT !.flags = job[c].flags]
        /\ \A j \in Keys : j # k => row'[j] = row[j]
    BY <1>l, <1>t, <2>1, <2>2 DEF Row, TypeOK
  <2>4. rows' = rows
    BY <2>1, <2>2, <2>3, NullAssumption DEF rows
  <2>5. row'[k].box = row[k].box /\ row'[k].uid = row[k].uid /\ row'[k].flags = job[c].flags
    BY <2>2, <2>3 DEF Row
  <2>6. message' = [message EXCEPT ![k].flags = job[c].flags]
    <3>1. message[k] = [box |-> row[k].box, uid |-> row[k].uid, flags |-> row[k].flags]
      BY <2>1 DEF message
    <3>2. [message[k] EXCEPT !.flags = job[c].flags] =
            [box |-> row[k].box, uid |-> row[k].uid, flags |-> job[c].flags]
      BY <3>1
    <3>3. message' = [j \in rows |-> IF j = k THEN [message[k] EXCEPT !.flags = job[c].flags]
                                              ELSE message[j]]
      BY <2>3, <2>4, <2>5, <3>2 DEF message, rows
    <3> QED BY <3>3 DEF message
  <2>7. Client!SetFlags(k, job[c].flags)
    BY <2>1, <2>6 DEF Client!SetFlags, Client!present, message
  <2> QED BY <1>l, <2>2, <2>7 DEF Client!Next
<1>3. CASE Rekey(c) /\ ~UNCHANGED dbVars
  <2>1. /\ k \in rows /\ row' = [row EXCEPT ![k].key = NameFor(job[c].flags)]
        /\ UNCHANGED <<boxes, name, uidnext, issued>>
    BY <1>3, <1>l DEF Rekey, dbVars
  <2>2. k \in Keys /\ row[k] \in Row
    BY <1>t, <2>1 DEF rows, TypeOK
  <2>3. /\ [row[k] EXCEPT !.key = NameFor(job[c].flags)] \in Row
        /\ row'[k] = [row[k] EXCEPT !.key = NameFor(job[c].flags)]
        /\ \A j \in Keys : j # k => row'[j] = row[j]
    BY <1>t, <2>1, <2>2, NameTypes DEF Row, TypeOK
  <2>4. rows' = rows
    BY <2>1, <2>2, <2>3, NullAssumption DEF rows
  <2>5. row'[k].box = row[k].box /\ row'[k].uid = row[k].uid /\ row'[k].flags = row[k].flags
    BY <2>2, <2>3 DEF Row
  <2>6. message' = message
    BY <2>3, <2>4, <2>5, OnlyFileName DEF rows
  <2> QED BY <2>1, <2>6 DEF Client!vars
<1>4. Store(c) => UNCHANGED dbVars \/ SetFlags(c) \/ Rekey(c)
  BY DEF Store, UpdateFlags, ReplaceFlags, Retag, Untag
<1> QED BY <1>1, <1>2, <1>3, <1>4

LEMMA ExpungeClient ==
  ASSUME Sound, NEW c \in Clients, Expunge(c)
  PROVE  Client!Next \/ UNCHANGED Client!vars
<1> DEFINE b == job[c].box
<1>l. b \in Boxes /\ Condemned(b) \subseteq rows /\ rows \subseteq Keys
  BY LocalTypes DEF Sound, Condemned, rows
<1>1. CASE UNCHANGED dbVars
  BY <1>1, DbKept
<1>2. CASE Purge(c) /\ ~UNCHANGED dbVars
  <2>1. /\ row' = [k \in Keys |-> IF k \in Condemned(b) THEN NoRow ELSE row[k]]
        /\ UNCHANGED <<boxes, name, uidnext, issued>>
    BY <1>2 DEF Purge, dbVars
  <2>2. message' = Client!Without(Condemned(b))
    BY <1>l, <2>1, RowsGo
  <2>3. Condemned(b) = {k \in Client!present : message[k].box = b /\ "Deleted" \in message[k].flags}
    BY DEF Condemned, Client!present, message
  <2>4. CASE b \in boxes
    <3>1. Client!Expunge(b)
      BY <2>1, <2>2, <2>3, <2>4 DEF Client!Expunge
    <3> QED BY <1>l, <3>1 DEF Client!Next
  <2>5. CASE b \notin boxes
    <3>1. Condemned(b) = {}
      BY <1>l, <2>5 DEF Sound, Stored, RowsIssued, Condemned
    <3>2. message' = message
      BY <2>2, <3>1 DEF Client!Without, Client!present, message
    <3> QED BY <2>1, <3>2 DEF Client!vars
  <2> QED BY <2>4, <2>5
<1>3. Expunge(c) => UNCHANGED dbVars \/ Purge(c)
  BY DEF Expunge, ExpungeMailbox, Unlink
<1> QED BY <1>1, <1>2, <1>3

LEMMA ManageClient ==
  ASSUME Sound, InboxSafe, NEW c \in Clients, Manage(c)
  PROVE  Client!Next \/ UNCHANGED Client!vars
<1>t. Typed /\ TypeOK
  BY DEF Sound, Typed
<1>1. CASE UNCHANGED <<boxes, uidnext, row, issued>>
  BY <1>1 DEF Client!vars, message, rows
<1>2. CASE CreateMailbox(c)
  <2>1. PICK b \in Boxes :
          /\ uidnext[b] = 0 /\ boxes' = boxes \union {b}
          /\ uidnext' = [uidnext EXCEPT ![b] = 1]
    BY <1>2 DEF CreateMailbox
  <2>2. UNCHANGED issued /\ message' = message
    BY <1>2 DEF CreateMailbox, message, rows
  <2>3. Client!Create(b)
    BY <2>1, <2>2 DEF Client!Create
  <2> QED BY <2>3 DEF Client!Next
(* A mailbox goes, and its messages with it. *)
<1>d. ASSUME NEW b \in boxes \ {Inbox}, boxes' = boxes \ {b}, UNCHANGED <<uidnext, issued>>,
             row' = [k \in Keys |-> IF k \in {j \in rows : row[j].box = b} THEN NoRow ELSE row[k]]
      PROVE  Client!Next
  <2>1. message' = Client!Without({j \in rows : row[j].box = b})
    BY <1>d, RowsGo DEF rows
  <2>2. {j \in rows : row[j].box = b} = {k \in Client!present : message[k].box = b}
    BY DEF Client!present, message
  <2>3. Client!Delete(b)
    BY <1>d, <2>1, <2>2 DEF Client!Delete
  <2> QED BY <1>t, <2>3 DEF Client!Next, TypeOK
<1>3. CASE Mkdir(c) /\ ~UNCHANGED <<boxes, uidnext, row, issued>>
  <2> DEFINE b == job[c].box
  <2>1. /\ pc[c] = "mkdir" /\ boxes' = boxes \ {b} /\ UNCHANGED <<uidnext, row, issued>>
        /\ b \in boxes
    BY <1>3 DEF Mkdir
  <2>2. b # Inbox /\ \A k \in rows : row[k].box # b
    BY <2>1 DEF InboxSafe, InManage, Sound, Holds, ManageHolds
  <2>3. row' = [k \in Keys |-> IF k \in {j \in rows : row[j].box = b} THEN NoRow ELSE row[k]]
    BY <1>t, <2>1, <2>2 DEF TypeOK
  <2> QED BY <1>d, <2>1, <2>2, <2>3
<1>4. CASE DeleteMailbox(c)
  <2>1. PICK b \in boxes :
          /\ name[b] # InboxName /\ boxes' = boxes \ {b}
          /\ row' = [k \in Keys |-> IF k \in rows /\ row[k].box = b THEN NoRow ELSE row[k]]
    BY <1>4 DEF DeleteMailbox
  <2>2. b # Inbox
    BY <2>1 DEF InboxSafe
  <2>3. UNCHANGED <<uidnext, issued>>
    BY <1>4 DEF DeleteMailbox
  <2>4. row' = [k \in Keys |-> IF k \in {j \in rows : row[j].box = b} THEN NoRow ELSE row[k]]
    BY <2>1
  <2> QED BY <1>d, <2>1, <2>2, <2>3, <2>4
<1>5. Manage(c) => \/ UNCHANGED <<boxes, uidnext, row, issued>>
                   \/ CreateMailbox(c) \/ Mkdir(c) \/ DeleteMailbox(c)
  BY DEF Manage, RenameMailbox, RenameDir, RenameBack, Rmdir, dbVars
<1> QED BY <1>1, <1>2, <1>3, <1>4, <1>5

LEMMA StepClient == Sound /\ InboxSafe /\ [Next]_vars => [Client!Next]_(Client!vars)
<1> SUFFICES ASSUME Sound, InboxSafe, [Next]_vars
             PROVE  Client!Next \/ UNCHANGED Client!vars
  OBVIOUS
<1>1. ASSUME NEW c \in Clients, Copy(c)
      PROVE  UNCHANGED dbVars
  BY <1>1 DEF Copy, CopyMessage, OpenBody, ScanBody, AppendCopy
<1>2. Crash \/ UNCHANGED vars => UNCHANGED dbVars
  BY DEF Crash, vars
<1> QED BY <1>1, <1>2, DbKept, AppendClient, StoreClient, ExpungeClient, ManageClient DEF Next

(* The mailbox store implements Mailbox: an append that is cut by an error or a
   crash has given the message to nobody, an expunge takes all marked messages
   of its mailbox or none, a message keeps mailbox and UID, and neither a failed
   create that takes its mailbox back nor a delete takes INBOX or a message of
   another mailbox.                                                          *)
THEOREM ImplementsMailbox == Spec => ClientSpec
<1>1. Init => InboxSafe
  BY StoreAssumption DEF Init, InboxSafe, InManage, InRename
<1>2. Init => Client!Init
  <2> SUFFICES ASSUME Init PROVE Client!Init
    OBVIOUS
  <2>1. rows = {}
    BY DEF Init, rows
  <2>2. message = [k \in {} |-> {}]
    BY <2>1 DEF message
  <2> QED BY <2>2 DEF Init, Client!Init
<1> QED BY <1>1, <1>2, SoundInit, SoundNext, InboxNext, StepClient, PTL
        DEF Spec, ClientSpec, Client!Spec
=============================================================================
