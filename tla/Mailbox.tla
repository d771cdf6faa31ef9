------------------------------- MODULE Mailbox -------------------------------
(***************************************************************************)
(* What IMAP clients may rely on about a user's mailboxes, with nothing of *)
(* files, rows, locks, errors or crashes.  A message gets a number (UID)   *)
(* above every one its mailbox has given out and keeps mailbox and number  *)
(* for as long as it is there.  It goes with all that are marked \Deleted  *)
(* in its mailbox, at once, or with its mailbox; INBOX stays.              *)
(***************************************************************************)
EXTENDS Naturals

CONSTANTS Keys, Boxes, Inbox, Flags

VARIABLES
  boxes,     \* the mailboxes
  uidnext,   \* UIDNEXT of every mailbox; 0 for one that was never created
  message,   \* the messages that are there, with mailbox, UID and flags
  issued     \* the mailbox and the UID a message was given, with UID 0 for none

vars == <<boxes, uidnext, message, issued>>

Init ==
  /\ boxes = {Inbox}
  /\ uidnext = [b \in Boxes |-> IF b = Inbox THEN 1 ELSE 0]
  /\ message = [k \in {} |-> {}]
  /\ issued = [k \in Keys |-> [box |-> Inbox, uid |-> 0]]

present == DOMAIN message
Without(gone) == [k \in present \ gone |-> message[k]]
With(k, msg) == [j \in present \union {k} |-> IF j = k THEN msg ELSE message[j]]

Create(b) ==
  /\ uidnext[b] = 0
  /\ boxes' = boxes \union {b}
  /\ uidnext' = [uidnext EXCEPT ![b] = 1]
  /\ UNCHANGED <<message, issued>>

(* A mailbox that was deleted does not come back: a new one has a new id. *)
Delete(b) ==
  /\ b \in boxes \ {Inbox}
  /\ boxes' = boxes \ {b}
  /\ message' = Without({k \in present : message[k].box = b})
  /\ UNCHANGED <<uidnext, issued>>

(* UIDNEXT moves before the message is there, and whether or not it gets there. *)
TakeUid(b) ==
  /\ b \in boxes
  /\ uidnext' = [uidnext EXCEPT ![b] = @ + 1]
  /\ UNCHANGED <<boxes, message, issued>>

Add(k, b, uid, flags) ==
  /\ b \in boxes
  /\ issued[k].uid = 0
  /\ uid < uidnext[b]
  /\ \A j \in Keys : issued[j].box = b => issued[j].uid < uid
  /\ issued' = [issued EXCEPT ![k] = [box |-> b, uid |-> uid]]
  /\ message' = With(k, [box |-> b, uid |-> uid, flags |-> flags])
  /\ UNCHANGED <<boxes, uidnext>>

SetFlags(k, flags) ==
  /\ k \in present
  /\ message' = [message EXCEPT ![k].flags = flags]
  /\ UNCHANGED <<boxes, uidnext, issued>>

(* No marked message of the mailbox is spared and no other one is taken. *)
Expunge(b) ==
  /\ b \in boxes
  /\ message' = Without({k \in present : message[k].box = b /\ "Deleted" \in message[k].flags})
  /\ UNCHANGED <<boxes, uidnext, issued>>

Next ==
  \/ \E b \in Boxes : Create(b) \/ Delete(b) \/ TakeUid(b) \/ Expunge(b)
  \/ \E k \in Keys, flags \in SUBSET Flags :
       SetFlags(k, flags) \/ \E b \in Boxes : \E uid \in 1..uidnext[b] : Add(k, b, uid, flags)

Spec == Init /\ [][Next]_vars
=============================================================================
