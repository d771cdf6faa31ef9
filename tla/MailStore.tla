------------------------------ MODULE MailStore ------------------------------
(***************************************************************************)
(* internal/storage/maildir/maildir.go: one user's mailboxes.  A message   *)
(* is a file in the directory of its mailbox and a row of the table        *)
(* messages; no transaction spans the two.  The operations that write hold *)
(* Store.mu from their first step to their last, but UpdateFlags and       *)
(* CopyMessage read before they take it, and a crash respects no lock.     *)
(*                                                                         *)
(* A message is named by the base of its file name (generateMaildirKey),   *)
(* which is unique.  The rest of the name, ":2," and one letter per flag,  *)
(* changes with the flags; the row keeps a copy of it.                     *)
(***************************************************************************)
EXTENDS Naturals, FiniteSets

CONSTANTS
  Clients,     \* goroutines: IMAP sessions and SMTP deliveries
  Keys,        \* messages; bound: how many are ever stored
  Boxes,       \* mailbox ids; bound: how many mailboxes are ever created
  Names,       \* mailbox names
  Paths,       \* directories
  PathOf,      \* getUserMaildirPath: the directory of a name
  Inbox,       \* the id of the mailbox INBOX ...
  InboxName,   \* ... and its name
  Flags,       \* the flags clients use
  NoKey, NoRow, NoFile,
  NoClient,
  EventKinds,  \* bound: which failures happen
  MaxEvents    \* bound: how many, all kinds together

(* Two names with one directory, as "a/b" and "a.b", are left out. *)
ASSUME StoreAssumption ==
  /\ Inbox \in Boxes
  /\ InboxName \in Names
  /\ PathOf \in [Names -> Paths]
  /\ \A m, n \in Names : PathOf[m] = PathOf[n] => m = n
  /\ NoKey \notin Keys
  /\ NoClient \notin Clients
  /\ EventKinds \subseteq {"db", "fs", "crash"}
  /\ MaxEvents \in Nat

VARIABLES
  boxes,     \* table mailboxes: the ids present
  name,      \* its column name
  uidnext,   \* its column uidnext; 0 for an id that was never given out
  row,       \* table messages: the row of each message, or NoRow
  dirs,      \* directories that exist
  file,      \* the file of each message in new or cur, or NoFile
  mu,        \* the holder of Store.mu
  pc, job,   \* where each client is, and its local variables
  issued,    \* history: the mailbox and UID that a message was given
  doomed,    \* history: messages that ExpungeMailbox has selected
  torn,      \* history: mailboxes whose rename was left half done
  astray,    \* history: messages whose file no longer goes with their row
  events

dbVars == <<boxes, name, uidnext, row, issued>>
fsVars == <<dirs, file>>
localVars == <<mu, pc, job>>
damageVars == <<doomed, torn, astray>>
vars == <<dbVars, fsVars, localVars, damageVars, events>>

MaildirFlags == {"Seen", "Answered", "Flagged", "Deleted", "Draft"}

FileName == [info: BOOLEAN, flags: SUBSET MaildirFlags]
Row == [box: Boxes, uid: Nat, key: FileName, flags: SUBSET Flags]
File == [path: Paths, dir: {"new", "cur"}, key: FileName]

ASSUME NullAssumption == NoRow \notin Row /\ NoFile \notin File

(* buildMaildirFlags: the suffix of the file name, absent without flags. *)
NameFor(flags) ==
  [info |-> flags \intersect MaildirFlags # {}, flags |-> flags \intersect MaildirFlags]
(* Fault: the message stays in tmp. *)
DirForTmp(flags) == IF "Seen" \in flags THEN "cur" ELSE "tmp"
DirFor(flags) == IF "Seen" \in flags THEN "cur" ELSE "new"

Job == [key: Keys \union {NoKey}, box: Boxes, flags: SUBSET Flags,
        uid: Nat, seen: File \union {NoFile}, todo: SUBSET Keys, old: Names]

NoJob == [key |-> NoKey, box |-> Inbox, flags |-> {}, uid |-> 0,
          seen |-> NoFile, todo |-> {}, old |-> InboxName]

PCs == {"idle", "write", "uid", "insert", "unseen", "set", "retag", "rekey",
        "untag", "open", "scanCur", "scanNew", "append", "unlink", "purge", "mkdir",
        "renameDir", "renameBack", "rmdir"}

(* Steps that are taken with Store.mu held. *)
Locked == PCs \ {"idle", "set", "open", "scanCur", "scanNew", "append"}

TypeOK ==
  /\ boxes \subseteq Boxes
  /\ name \in [Boxes -> Names]
  /\ uidnext \in [Boxes -> Nat]
  /\ row \in [Keys -> Row \union {NoRow}]
  /\ issued \in [Keys -> [box: Boxes, uid: Nat]]
  /\ dirs \subseteq Paths
  /\ file \in [Keys -> File \union {NoFile}]
  /\ mu \in Clients \union {NoClient}
  /\ pc \in [Clients -> PCs]
  /\ job \in [Clients -> Job]
  /\ doomed \subseteq Keys
  /\ torn \subseteq Boxes
  /\ astray \subseteq Keys
  /\ events \in 0..MaxEvents

(* After InitializeUserMailboxes. *)
Init ==
  /\ boxes = {Inbox}
  /\ name = [b \in Boxes |-> InboxName]
  /\ uidnext = [b \in Boxes |-> IF b = Inbox THEN 1 ELSE 0]
  /\ row = [k \in Keys |-> NoRow]
  /\ issued = [k \in Keys |-> [box |-> Inbox, uid |-> 0]]
  /\ dirs = {PathOf[InboxName]}
  /\ file = [k \in Keys |-> NoFile]
  /\ mu = NoClient
  /\ pc = [c \in Clients |-> "idle"]
  /\ job = [c \in Clients |-> NoJob]
  /\ doomed = {}
  /\ torn = {}
  /\ astray = {}
  /\ events = 0

-----------------------------------------------------------------------------
rows == {k \in Keys : row[k] # NoRow}
files == {k \in Keys : file[k] # NoFile}
numbered == {k \in Keys : issued[k].uid # 0}

PathOfBox(b) == PathOf[name[b]]

(* The file of k exists under this very name, in cur or new. *)
Exact(k, path, key) == k \in files /\ file[k].path = path /\ file[k].key = key

Goto(c, place, j) ==
  /\ pc' = [pc EXCEPT ![c] = place]
  /\ job' = [job EXCEPT ![c] = j]
  /\ mu' = IF place \in Locked THEN c ELSE IF mu = c THEN NoClient ELSE mu

Return(c) == Goto(c, "idle", NoJob)

Event(kind) ==
  /\ kind \in EventKinds
  /\ events < MaxEvents
  /\ events' = events + 1

(* Messages that do not exist yet. *)
Unused == {k \in Keys : k \notin numbered \union files /\ \A c \in Clients : job[c].key # k}

-----------------------------------------------------------------------------
(* AppendMessage, of a new message with some flags, called by Session.Append and
   by the SMTP server's local delivery.                                      *)

(* Fault: the UID is one more than the number of messages. *)
AppendToCounts(c, k, b, flags) ==
  /\ mu = NoClient
  /\ b \in boxes
  /\ Goto(c, "write", [NoJob EXCEPT !.key = k, !.box = b, !.flags = flags,
                                    !.uid = 1 + Cardinality({m \in rows : row[m].box = b})])

(* The lock is taken and the mailbox read, uidnext with it. *)
AppendTo(c, k, b, flags) ==
  /\ mu = NoClient
  /\ b \in boxes
  /\ Goto(c, "write", [NoJob EXCEPT !.key = k, !.box = b, !.flags = flags, !.uid = uidnext[b]])

AppendMessage(c) ==
  /\ pc[c] = "idle"
  /\ \E k \in Unused, b \in boxes, flags \in SUBSET Flags : AppendTo(c, k, b, flags)
  /\ UNCHANGED <<dbVars, fsVars, damageVars, events>>

(* The file is written in tmp and renamed. *)
AppendWrite(c) ==
  /\ pc[c] = "write"
  /\ LET k == job[c].key
         path == PathOfBox(job[c].box)
     IN  \/ /\ dirs' = dirs \union {path}
            /\ file' = [file EXCEPT ![k] = [path |-> path, dir |-> DirFor(job[c].flags),
                                            key |-> NameFor(job[c].flags)]]
            /\ Goto(c, "uid", job[c])
            /\ UNCHANGED events
         \/ /\ Event("fs")
            /\ dirs' \in {dirs, dirs \union {path}}
            /\ Return(c)
            /\ UNCHANGED file
  /\ UNCHANGED <<dbVars, damageVars>>

(* A database error removes the file again, if it can. *)
AppendFails(c) ==
  /\ Event("db")
  /\ file' \in {file, [file EXCEPT ![job[c].key] = NoFile]}
  /\ Return(c)
  /\ UNCHANGED <<dbVars, dirs>>

AppendUid(c) ==
  /\ pc[c] = "uid"
  /\ \/ /\ uidnext' = [uidnext EXCEPT ![job[c].box] = @ + 1]
        /\ Goto(c, "insert", job[c])
        /\ UNCHANGED <<boxes, name, row, issued, fsVars, events>>
     \/ AppendFails(c)
  /\ UNCHANGED damageVars

(* The row; UNIQUE(mailbox_id, uid) is never violated (AscendingUids). *)
AppendInsert(c) ==
  /\ pc[c] = "insert"
  /\ LET k == job[c].key
     IN  \/ /\ issued' = [issued EXCEPT ![k] = [box |-> job[c].box, uid |-> job[c].uid]]
            /\ row' = [row EXCEPT ![k] = [box |-> job[c].box, uid |-> job[c].uid,
                                          key |-> NameFor(job[c].flags), flags |-> job[c].flags]]
            /\ Goto(c, "unseen", [NoJob EXCEPT !.box = job[c].box])
            /\ UNCHANGED <<boxes, name, uidnext, fsVars, events>>
         \/ AppendFails(c)
  /\ UNCHANGED damageVars

(* dir.Unseen() of go-maildir: every file in new moves to cur, under a name with
   ":2,", whether or not the row says so.  Its errors are ignored.           *)
AppendUnseen(c) ==
  /\ pc[c] = "unseen"
  /\ LET new == {k \in files : file[k].path = PathOfBox(job[c].box) /\ file[k].dir = "new"}
     IN  \/ /\ \E k \in new :
                 /\ file' = [file EXCEPT ![k].dir = "cur", ![k].key.info = TRUE]
                 /\ astray' = IF file[k].key.info THEN astray ELSE astray \union {k}
            /\ UNCHANGED <<localVars, events>>
         \/ /\ new = {}
            /\ Return(c)
            /\ UNCHANGED <<file, astray, events>>
         \/ /\ new # {}
            /\ Event("fs")
            /\ Return(c)
            /\ UNCHANGED <<file, astray>>
  /\ UNCHANGED <<dbVars, dirs, doomed, torn>>

-----------------------------------------------------------------------------
(* Session.Store: UpdateFlags and SetFlags.                                  *)

(* UpdateFlags reads the flags without the lock and computes the new ones. *)
UpdateFlags(c) ==
  /\ pc[c] = "idle"
  /\ \E k \in rows, f \in Flags :
       \E flags \in {row[k].flags \union {f}, row[k].flags \ {f}} :
         Goto(c, "set", [NoJob EXCEPT !.key = k, !.flags = flags])
  /\ UNCHANGED <<dbVars, fsVars, damageVars, events>>

(* STORE FLAGS: SetFlags with exactly the given flags. *)
ReplaceFlags(c) ==
  /\ pc[c] = "idle"
  /\ \E k \in rows, flags \in SUBSET Flags :
       Goto(c, "set", [NoJob EXCEPT !.key = k, !.flags = flags])
  /\ UNCHANGED <<dbVars, fsVars, damageVars, events>>

(* SetFlags: the lock, the row, and the flags in the row. *)
SetFlags(c) ==
  /\ pc[c] = "set"
  /\ mu = NoClient
  /\ \/ /\ job[c].key \in rows
        /\ row' = [row EXCEPT ![job[c].key].flags = job[c].flags]
        /\ Goto(c, "retag", job[c])
        /\ UNCHANGED events
     \/ /\ job[c].key \notin rows
        /\ Return(c)
        /\ UNCHANGED <<row, events>>
     \/ /\ Event("db")
        /\ Return(c)
        /\ UNCHANGED row
  /\ UNCHANGED <<boxes, name, uidnext, issued, fsVars, damageVars>>

(* The file, when it has the name that the row says, is renamed.  The letters of
   the flags have no order here; a rename that only permutes them is left out.  *)
Retag(c) ==
  /\ pc[c] = "retag"
  /\ LET k == job[c].key
         path == PathOfBox(row[k].box)
         new == [path |-> path, dir |-> DirFor(job[c].flags), key |-> NameFor(job[c].flags)]
         rename == Exact(k, path, row[k].key) /\ file[k] # new
     IN  \/ /\ rename
            /\ file' = [file EXCEPT ![k] = new]
            /\ Goto(c, "rekey", [job[c] EXCEPT !.seen = file[k]])
            /\ UNCHANGED events
         \/ /\ ~rename
            /\ Return(c)
            /\ UNCHANGED <<file, events>>
         \/ /\ rename
            /\ Event("db") \/ Event("fs")
            /\ Return(c)
            /\ UNCHANGED file
  /\ UNCHANGED <<dbVars, dirs, damageVars>>

(* Fault: the row keeps the old name. *)
RekeyForgets(c) ==
  /\ pc[c] = "rekey"
  /\ Return(c)
  /\ UNCHANGED <<dbVars, fsVars, damageVars, events>>

(* Then the name in the row; an error takes the rename back, which may fail too. *)
Rekey(c) ==
  /\ pc[c] = "rekey"
  /\ \/ /\ row' = [row EXCEPT ![job[c].key].key = NameFor(job[c].flags)]
        /\ Return(c)
        /\ UNCHANGED events
     \/ /\ Event("db")
        /\ Goto(c, "untag", job[c])
        /\ UNCHANGED row
  /\ UNCHANGED <<boxes, name, uidnext, issued, fsVars, damageVars>>

(* Fault: the rollback removes the renamed file. *)
UntagRemoves(c) ==
  /\ pc[c] = "untag"
  /\ file' = [file EXCEPT ![job[c].key] = NoFile]
  /\ Return(c)
  /\ UNCHANGED <<dbVars, dirs, damageVars, events>>

Untag(c) ==
  /\ pc[c] = "untag"
  /\ \/ /\ file' = [file EXCEPT ![job[c].key] = job[c].seen]
        /\ UNCHANGED astray
     \/ /\ astray' = astray \union {job[c].key}
        /\ UNCHANGED file
  /\ Return(c)
  /\ UNCHANGED <<dbVars, dirs, doomed, torn, events>>

-----------------------------------------------------------------------------
(* Session.Copy: CopyMessage.                                                *)

(* The row is read without the lock: its flags and the name of the file. *)
CopyMessage(c) ==
  /\ pc[c] = "idle"
  /\ \E k \in rows, b \in boxes :
       Goto(c, "open", [NoJob EXCEPT !.key = k, !.box = b, !.flags = row[k].flags,
                                     !.seen = [path |-> PathOfBox(row[k].box), dir |-> "cur",
                                                key |-> row[k].key]])
  /\ UNCHANGED <<dbVars, fsVars, damageVars, events>>

(* The file is open: its content can be appended, whatever becomes of the name. *)
Found(c) ==
  \/ \E k \in Unused : Goto(c, "append", [job[c] EXCEPT !.key = k])
  \/ Unused = {} /\ Return(c)

(* GetMessageBody: the mailbox, then the name in the row, then the bare name. *)
OpenBody(c) ==
  /\ pc[c] = "open"
  /\ LET k == job[c].key
         b == issued[k].box
         path == PathOfBox(b)
         there == \E key \in {job[c].seen.key, NameFor({})} : Exact(k, path, key)
     IN  \/ b \in boxes /\ there /\ Found(c)
         \/ b \in boxes /\ ~there /\ Goto(c, "scanCur", [job[c] EXCEPT !.seen.path = path])
         \/ b \notin boxes /\ Return(c)
  /\ UNCHANGED <<dbVars, fsVars, damageVars, events>>

(* Then any name with the same base, in cur and after that in new. *)
ScanFor(c, dir, otherwise) ==
  LET k == job[c].key
      there == k \in files /\ file[k].path = job[c].seen.path /\ file[k].dir = dir
  IN  \/ there /\ Found(c)
      \/ ~there /\ otherwise

ScanBody(c) ==
  /\ \/ pc[c] = "scanCur" /\ ScanFor(c, "cur", Goto(c, "scanNew", job[c]))
     \/ pc[c] = "scanNew" /\ ScanFor(c, "new", Return(c))
  /\ UNCHANGED <<dbVars, fsVars, damageVars, events>>

AppendCopy(c) ==
  /\ pc[c] = "append"
  /\ \/ AppendTo(c, job[c].key, job[c].box, job[c].flags)
     \/ mu = NoClient /\ job[c].box \notin boxes /\ Return(c)
  /\ UNCHANGED <<dbVars, fsVars, damageVars, events>>

-----------------------------------------------------------------------------
(* Session.Expunge: ExpungeMailbox.                                          *)

(* Fault: marked or not. *)
CondemnedAll(b) == {k \in rows : row[k].box = b}
Condemned(b) == {k \in rows : row[k].box = b /\ "Deleted" \in row[k].flags}

ExpungeMailbox(c) ==
  /\ pc[c] = "idle"
  /\ mu = NoClient
  /\ \E b \in boxes :
       /\ Condemned(b) # {}
       /\ Goto(c, "unlink", [NoJob EXCEPT !.box = b, !.todo = Condemned(b)])
       /\ doomed' = doomed \union Condemned(b)
  /\ UNCHANGED <<dbVars, fsVars, torn, astray, events>>

(* The files go one by one, by the names in the rows; errors are ignored. *)
Unlink(c) ==
  /\ pc[c] = "unlink"
  /\ \E k \in job[c].todo :
       LET rest == job[c].todo \ {k}
           there == Exact(k, PathOfBox(job[c].box), row[k].key)
       IN  /\ \/ /\ file' = IF there THEN [file EXCEPT ![k] = NoFile] ELSE file
                 /\ UNCHANGED <<astray, events>>
              \/ /\ there
                 /\ Event("fs")
                 /\ astray' = astray \union {k}
                 /\ UNCHANGED file
           /\ Goto(c, IF rest = {} THEN "purge" ELSE "unlink", [job[c] EXCEPT !.todo = rest])
  /\ UNCHANGED <<dbVars, dirs, doomed, torn>>

(* Then the rows, all at once. *)
Purge(c) ==
  /\ pc[c] = "purge"
  /\ \/ /\ row' = [k \in Keys |-> IF k \in Condemned(job[c].box) THEN NoRow ELSE row[k]]
        /\ UNCHANGED events
     \/ Event("db") /\ UNCHANGED row
  /\ Return(c)
  /\ UNCHANGED <<boxes, name, uidnext, issued, fsVars, damageVars>>

-----------------------------------------------------------------------------
(* Session.Create, Rename and Delete.                                        *)

Taken(n) == \E b \in boxes : name[b] = n

CreateMailbox(c) ==
  /\ pc[c] = "idle"
  /\ mu = NoClient
  /\ \E b \in Boxes, n \in Names :
       /\ uidnext[b] = 0
       /\ ~Taken(n)
       /\ boxes' = boxes \union {b}
       /\ name' = [name EXCEPT ![b] = n]
       /\ uidnext' = [uidnext EXCEPT ![b] = 1]
       /\ Goto(c, "mkdir", [NoJob EXCEPT !.box = b])
  /\ UNCHANGED <<row, issued, fsVars, damageVars, events>>

(* An error takes the row back, which may fail too. *)
Mkdir(c) ==
  /\ pc[c] = "mkdir"
  /\ \/ dirs' = dirs \union {PathOfBox(job[c].box)} /\ UNCHANGED <<boxes, events>>
     \/ /\ Event("fs")
        /\ boxes' \in {boxes, boxes \ {job[c].box}}
        /\ dirs' \in {dirs, dirs \union {PathOfBox(job[c].box)}}
  /\ Return(c)
  /\ UNCHANGED <<name, uidnext, row, issued, file, damageVars>>

(* Session.Rename refuses INBOX. *)
RenameMailbox(c) ==
  /\ pc[c] = "idle"
  /\ mu = NoClient
  /\ \E b \in boxes, n \in Names :
       /\ name[b] # InboxName
       /\ ~Taken(n)
       /\ name' = [name EXCEPT ![b] = n]
       /\ Goto(c, "renameDir", [NoJob EXCEPT !.box = b, !.old = name[b]])
  /\ UNCHANGED <<boxes, uidnext, row, issued, fsVars, damageVars, events>>

(* The directory; one that does not exist is no error, a target that exists is. *)
RenameDir(c) ==
  /\ pc[c] = "renameDir"
  /\ LET from == PathOf[job[c].old]
         to == PathOfBox(job[c].box)
     IN  \/ /\ from \in dirs /\ to \notin dirs
            /\ dirs' = (dirs \ {from}) \union {to}
            /\ file' = [k \in Keys |-> IF k \in files /\ file[k].path = from
                                         THEN [file[k] EXCEPT !.path = to] ELSE file[k]]
            /\ Return(c)
            /\ UNCHANGED events
         \/ /\ from \notin dirs
            /\ Return(c)
            /\ UNCHANGED <<dirs, file, events>>
         \/ /\ \/ from \in dirs /\ to \in dirs /\ UNCHANGED events
               \/ Event("fs")
            /\ Goto(c, "renameBack", job[c])
            /\ UNCHANGED <<dirs, file>>
  /\ UNCHANGED <<dbVars, damageVars>>

(* The row's name is restored; an error here goes unnoticed. *)
RenameBack(c) ==
  /\ pc[c] = "renameBack"
  /\ \/ /\ name' = [name EXCEPT ![job[c].box] = job[c].old]
        /\ UNCHANGED torn
     \/ /\ torn' = torn \union {job[c].box}
        /\ UNCHANGED name
  /\ Return(c)
  /\ UNCHANGED <<boxes, uidnext, row, issued, fsVars, doomed, astray, events>>

(* Session.Delete refuses INBOX; the rows of the messages go by the cascade. *)
DeleteMailbox(c) ==
  /\ pc[c] = "idle"
  /\ mu = NoClient
  /\ \E b \in boxes :
       /\ name[b] # InboxName
       /\ boxes' = boxes \ {b}
       /\ row' = [k \in Keys |-> IF k \in rows /\ row[k].box = b THEN NoRow ELSE row[k]]
       /\ Goto(c, "rmdir", [NoJob EXCEPT !.box = b])
  /\ UNCHANGED <<name, uidnext, issued, fsVars, damageVars, events>>

Rmdir(c) ==
  /\ pc[c] = "rmdir"
  /\ \/ /\ dirs' = dirs \ {PathOfBox(job[c].box)}
        /\ file' = [k \in Keys |-> IF k \in files /\ file[k].path = PathOfBox(job[c].box)
                                     THEN NoFile ELSE file[k]]
        /\ UNCHANGED events
     \/ Event("fs") /\ UNCHANGED fsVars
  /\ Return(c)
  /\ UNCHANGED <<dbVars, damageVars>>

-----------------------------------------------------------------------------
(* Mailboxes and messages whose name in the database and on disk may differ. *)
Renaming == {job[c].box : c \in {d \in Clients : pc[d] \in {"renameDir", "renameBack"}}}
Retagging == {job[c].key : c \in {d \in Clients : pc[d] \in {"rekey", "untag"}}}

(* The server dies and is started again: database and directories are left. *)
Crash ==
  /\ Event("crash")
  /\ torn' = torn \union Renaming
  /\ astray' = astray \union Retagging
  /\ mu' = NoClient
  /\ pc' = [c \in Clients |-> "idle"]
  /\ job' = [c \in Clients |-> NoJob]
  /\ UNCHANGED <<dbVars, fsVars, doomed>>

Append(c) ==
  AppendMessage(c) \/ AppendWrite(c) \/ AppendUid(c) \/ AppendInsert(c) \/ AppendUnseen(c)
Store(c) == UpdateFlags(c) \/ ReplaceFlags(c) \/ SetFlags(c) \/ Retag(c) \/ Rekey(c) \/ Untag(c)
Copy(c) == CopyMessage(c) \/ OpenBody(c) \/ ScanBody(c) \/ AppendCopy(c)
Expunge(c) == ExpungeMailbox(c) \/ Unlink(c) \/ Purge(c)
Manage(c) ==
  \/ CreateMailbox(c) \/ Mkdir(c)
  \/ RenameMailbox(c) \/ RenameDir(c) \/ RenameBack(c)
  \/ DeleteMailbox(c) \/ Rmdir(c)

Next ==
  \/ \E c \in Clients : Append(c) \/ Store(c) \/ Copy(c) \/ Expunge(c) \/ Manage(c)
  \/ Crash

Spec == Init /\ [][Next]_vars

-----------------------------------------------------------------------------
(* Properties.                                                               *)

(* A message with a row has its file in its mailbox's directory, where
   GetMessageBody finds it, wherever the server dies and whatever step fails,
   unless an expunge has selected it or the rename of its mailbox was cut
   between database and directory.                                           *)
MessageReadable ==
  \A k \in rows :
    \/ k \in doomed
    \/ row[k].box \in torn \union Renaming
    \/ k \in files /\ file[k].path = PathOfBox(row[k].box)

(* Expunge leaves the file of an expunged message behind only where an error or
   Unseen has separated the file from its row: a removal failed, SetFlags was cut
   between the two, or the file got the name that Unseen gives it.           *)
ExpungedIsGone ==
  \A k \in doomed \intersect files :
    \/ k \in rows \union astray
    \/ issued[k].box \notin boxes
    \/ issued[k].box \in torn

(* What ExpungeMailbox's comment says: it "permanently removes messages marked
   \Deleted".  Refuted without any failure: AppendMessage calls Unseen, which
   renames the file, SetFlags does not find it under the row's name and skips it,
   and ExpungeMailbox removes a file that is not there.                      *)
PermanentlyRemoved == \A k \in doomed \intersect files : k \in rows

(* IMAP's rule for UIDs: a new message gets a higher one than every message its
   mailbox has ever held, through failed appends and crashes.                *)
AscendingUids ==
  [][\A k \in rows' \ rows, j \in numbered :
       issued[j].box = row'[k].box => issued[j].uid < row'[k].uid]_vars

-----------------------------------------------------------------------------
(* What clients see of a message: its row without the name of the file. *)
message ==
  [k \in rows |-> [box |-> row[k].box, uid |-> row[k].uid, flags |-> row[k].flags]]

Client == INSTANCE Mailbox

(* The store keeps what Mailbox promises to its clients, whoever holds the lock,
   whatever fails and wherever the server dies: in particular an append that is
   cut leaves no message or all of it, an expunge takes all that are marked or
   none, and no step of a create or a rename takes INBOX away.               *)
ClientSpec == Client!Spec

=============================================================================
