------------------------------- MODULE ImapView -------------------------------
(***************************************************************************)
(* What IMAP sessions are told of one mailbox (internal/imap): Select      *)
(* reads the count and then joins the mailbox's tracker, which it creates  *)
(* when there is none; Append and the SMTP server's notifier store a       *)
(* message and then look for the tracker, read the count and queue it.     *)
(* The tracker is go-imap's (external).  A count carries the number of     *)
(* messages ever appended when it was read.                                *)
(***************************************************************************)
EXTENDS Integers, Sequences, FiniteSetsExt

CONSTANTS
  ImapSessions, Appenders,
  MaxAppends,      \* bound on the messages appended
  MaxNotifyFaults, \* bound on counts that cannot be read
  NoTracker

ASSUME ViewAssumption ==
  MaxAppends \in Nat /\ MaxNotifyFaults \in Nat /\ NoTracker \notin ImapSessions

VARIABLES
  messages,   \* the number of rows of the mailbox
  appended,   \* messages ever appended
  tracker,    \* Server.trackers' entry: named after the session that made it
  announced,  \* the tracker's own number of messages
  view,       \* the sessions
  notify,     \* the appends
  unannounced,\* appends whose notification could not be queued
  notifyFaults
viewVars == <<messages, appended, tracker, announced, view, notify, unannounced, notifyFaults>>

NoView == [pc |-> "idle", tracker |-> NoTracker, queue |-> <<>>,
           told |-> 0, joined |-> 0]
NoNotify == [pc |-> "idle", append |-> 0, tracker |-> NoTracker, count |-> 0, read |-> 0]

ViewInit ==
  /\ messages = 0 /\ appended = 0
  /\ tracker = NoTracker /\ announced = 0
  /\ view = [s \in ImapSessions |-> NoView]
  /\ notify = [a \in Appenders |-> NoNotify]
  /\ unannounced = {} /\ notifyFaults = 0

SetView(s, v) == view' = [view EXCEPT ![s] = v]
SetNotify(a, n) == notify' = [notify EXCEPT ![a] = n]

-----------------------------------------------------------------------------
(* Session.Select: GetMailboxStats, GetMailboxTracker's lookup under the read
   lock, its creation under the write lock after a second look, NewSession.  *)

Select(s) ==
  /\ view[s].pc = "idle"
  /\ SetView(s, [NoView EXCEPT !.pc = "lookup", !.told = appended])
  /\ UNCHANGED <<messages, appended, tracker, announced, notify, unannounced, notifyFaults>>

LookupTracker(s) ==
  /\ view[s].pc = "lookup"
  /\ SetView(s, IF tracker = NoTracker THEN [view[s] EXCEPT !.pc = "create"]
                ELSE [view[s] EXCEPT !.pc = "join", !.tracker = tracker])
  /\ UNCHANGED <<messages, appended, tracker, announced, notify, unannounced, notifyFaults>>

(* Without the second look. *)
CreateTrackerBlindly(s) ==
  /\ view[s].pc = "create"
  /\ tracker' = s
  /\ SetView(s, [view[s] EXCEPT !.pc = "join", !.tracker = s])
  /\ UNCHANGED <<messages, appended, announced, notify, unannounced, notifyFaults>>

CreateTracker(s) ==
  /\ view[s].pc = "create"
  /\ tracker' = IF tracker = NoTracker THEN s ELSE tracker
  /\ SetView(s, [view[s] EXCEPT !.pc = "join", !.tracker = tracker'])
  /\ UNCHANGED <<messages, appended, announced, notify, unannounced, notifyFaults>>

JoinTracker(s) ==
  /\ view[s].pc = "join"
  /\ SetView(s, [view[s] EXCEPT !.pc = "watching", !.joined = appended])
  /\ UNCHANGED <<messages, appended, tracker, announced, notify, unannounced, notifyFaults>>

(* Unselect, and Close of the session: its tracker session is closed. *)
Unselect(s) ==
  /\ view[s].pc = "watching"
  /\ SetView(s, NoView)
  /\ UNCHANGED <<messages, appended, tracker, announced, notify, unannounced, notifyFaults>>

(* Poll after a command, or Idle: what is queued is written to the client. *)
Poll(s) ==
  /\ view[s].pc = "watching" /\ view[s].queue # <<>>
  /\ SetView(s, [view[s] EXCEPT !.queue = Tail(@), !.told = Max({@, Head(view[s].queue)})])
  /\ UNCHANGED <<messages, appended, tracker, announced, notify, unannounced, notifyFaults>>

-----------------------------------------------------------------------------
(* Session.Append, and the inbound delivery that calls the notifier: the message
   is stored first.                                                          *)
StoreMessage(a) ==
  /\ notify[a].pc = "idle" /\ appended < MaxAppends
  /\ messages' = messages + 1 /\ appended' = appended + 1
  /\ SetNotify(a, [NoNotify EXCEPT !.pc = "notify", !.append = appended'])
  /\ UNCHANGED <<tracker, announced, view, unannounced, notifyFaults>>

(* NotifyMailboxUpdate: nobody has ever selected the mailbox; or the count is
   read, which may fail like the lookups of the user and the mailbox before it. *)
FindTracker(a) ==
  /\ notify[a].pc = "notify"
  /\ SetNotify(a, IF tracker = NoTracker THEN NoNotify
                  ELSE [notify[a] EXCEPT !.pc = "count", !.tracker = tracker])
  /\ UNCHANGED <<messages, appended, tracker, announced, view, unannounced, notifyFaults>>

(* The count as it was before the message. *)
CountMessagesBefore(a) ==
  /\ notify[a].pc = "count"
  /\ SetNotify(a, [notify[a] EXCEPT !.pc = "queue", !.count = messages, !.read = notify[a].append - 1])
  /\ UNCHANGED <<unannounced, notifyFaults, messages, appended, tracker, announced, view>>

CountMessages(a) ==
  /\ notify[a].pc = "count"
  /\ \/ /\ SetNotify(a, [notify[a] EXCEPT !.pc = "queue", !.count = messages, !.read = appended])
        /\ UNCHANGED <<unannounced, notifyFaults>>
     \/ /\ notifyFaults < MaxNotifyFaults /\ notifyFaults' = notifyFaults + 1
        /\ unannounced' = unannounced \union {notify[a].append}
        /\ SetNotify(a, NoNotify)
  /\ UNCHANGED <<messages, appended, tracker, announced, view>>

(* QueueNumMessages: for the sessions of this tracker; a count lower than the
   last one cannot be announced.                                             *)
QueueCount(a) ==
  /\ notify[a].pc = "queue"
  /\ LET n == notify[a] IN
       /\ announced' = Max({announced, n.count})
       /\ view' = [s \in ImapSessions |->
            IF n.count >= announced /\ view[s].pc = "watching" /\ view[s].tracker = n.tracker
              THEN [view[s] EXCEPT !.queue = Append(@, n.read)] ELSE view[s]]
       /\ unannounced' = IF n.count < announced THEN unannounced \union {n.append} ELSE unannounced
  /\ SetNotify(a, NoNotify)
  /\ UNCHANGED <<messages, appended, tracker, notifyFaults>>

(* An expunge takes rows away and tells the tracker nothing. *)
ExpungeRow ==
  /\ messages > 0 /\ messages' = messages - 1
  /\ UNCHANGED <<appended, tracker, announced, view, notify, unannounced, notifyFaults>>

Selecting(s) == LookupTracker(s) \/ CreateTracker(s) \/ JoinTracker(s)
Notifying(a) == FindTracker(a) \/ CountMessages(a) \/ QueueCount(a)

ViewNext ==
  \/ \E s \in ImapSessions : Select(s) \/ Selecting(s) \/ Poll(s) \/ Unselect(s)
  \/ \E a \in Appenders : StoreMessage(a) \/ Notifying(a)
  \/ ExpungeRow

ViewSpec == ViewInit /\ [][ViewNext]_viewVars

-----------------------------------------------------------------------------
(* Properties.                                                               *)

ViewTypeOK ==
  /\ messages \in 0..MaxAppends /\ appended \in 0..MaxAppends /\ announced \in 0..MaxAppends
  /\ tracker \in ImapSessions \union {NoTracker}
  /\ view \in [ImapSessions -> [pc : {"idle", "lookup", "create", "join", "watching"},
               tracker : ImapSessions \union {NoTracker},
               queue : UNION {[1..n -> 0..MaxAppends] : n \in 0..MaxAppends},
               told : 0..MaxAppends, joined : 0..MaxAppends]]
  /\ notify \in [Appenders -> [pc : {"idle", "notify", "count", "queue"}, append : 0..MaxAppends,
                 tracker : ImapSessions \union {NoTracker}, count : 0..MaxAppends, read : 0..MaxAppends]]
  /\ unannounced \subseteq 1..MaxAppends /\ notifyFaults \in 0..MaxNotifyFaults

(* Everyone who watches is on the tracker that notifications go to, whichever of
   several first Selects creates it.                                         *)
WatchesTheTracker == \A s \in ImapSessions : view[s].pc = "watching" => view[s].tracker = tracker

(* A message stored while a session watches its mailbox is in a count that the
   session is told, has queued, or will have queued by a notification under way,
   unless that could not be announced: none gets lost between the append and the
   client, in whatever order the counts are read and queued.                 *)
WatcherIsTold ==
  \A s \in ImapSessions, k \in 1..appended :
    view[s].pc = "watching" /\ view[s].joined < k =>
      \/ view[s].told >= k \/ k \in unannounced
      \/ \E i \in DOMAIN view[s].queue : view[s].queue[i] >= k
      \/ \E a \in Appenders : notify[a].pc # "idle" /\ notify[a].append = k
=============================================================================
