---------------------------- MODULE ReliableQueue ----------------------------
(***************************************************************************)
(* What the outbound queue promises to its users, with nothing of Redis,   *)
(* workers or files: a message it has taken is active until it is recorded *)
(* as sent, which only a delivered message is, or as failed.  Delivery is  *)
(* at least once: a delivered message may stay or become active again.     *)
(***************************************************************************)
CONSTANT Msgs

VARIABLES
  taken,       \* messages the queue has stored
  active,      \* messages that are waiting for delivery or being delivered
  delivered,   \* messages a remote server has accepted
  sent,        \* messages recorded as sent
  failed       \* messages recorded as failed

vars == <<taken, active, delivered, sent, failed>>

Init ==
  /\ taken = {}
  /\ active = {}
  /\ delivered = {}
  /\ sent = {}
  /\ failed = {}

(* The queue takes a message, or takes one again. *)
Take(m) ==
  /\ taken' = taken \union {m}
  /\ active' = active \union {m}
  /\ UNCHANGED <<delivered, sent, failed>>

(* A remote server accepts a message that the queue has taken. *)
Deliver(m) ==
  /\ m \in taken
  /\ delivered' = delivered \union {m}
  /\ UNCHANGED <<taken, active, sent, failed>>

(* A taken message becomes active again. *)
Reactivate(m) ==
  /\ m \in taken
  /\ active' = active \union {m}
  /\ UNCHANGED <<taken, delivered, sent, failed>>

MarkSent(m) ==
  /\ m \in delivered
  /\ sent' = sent \union {m}
  /\ active' \in {active, active \ {m}}
  /\ UNCHANGED <<taken, delivered, failed>>

MarkFailed(m) ==
  /\ m \in taken
  /\ failed' = failed \union {m}
  /\ active' \in {active, active \ {m}}
  /\ UNCHANGED <<taken, delivered, sent>>

Next ==
  \E m \in Msgs :
    Take(m) \/ Deliver(m) \/ Reactivate(m) \/ MarkSent(m) \/ MarkFailed(m)

Spec == Init /\ [][Next]_vars
=============================================================================
