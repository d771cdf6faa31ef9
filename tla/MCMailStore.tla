----------------------------- MODULE MCMailStore -----------------------------
(***************************************************************************)
(* Small instances of MailStore.                                           *)
(***************************************************************************)
EXTENDS MailStore, TLC

CONSTANTS inbox, work, INBOX, Work, Home, c1, c2, k1, k2

(* Every name has a directory of its own. *)
OwnDirectory == [n \in Names |-> n]

ClientSymmetry == Permutations(Clients)
KeySymmetry == Permutations(Keys)
Symmetry == ClientSymmetry \union KeySymmetry

-----------------------------------------------------------------------------
(* Two scopes, each in behaviours of its own: "messages" keeps to INBOX and the
   flag Deleted and has up to MaxEvents faults; "mailboxes" creates, renames and
   deletes a second mailbox, uses the flag Seen and has one fault.           *)
VARIABLE scope

ScopeFlags == IF scope = "messages" THEN {"Deleted"} ELSE {"Seen"}

ScopedInit == Init /\ scope \in {"messages", "mailboxes"}

ScopedNext ==
  /\ Next
  /\ \A c \in Clients : job'[c].flags \subseteq ScopeFlags
  /\ scope = "messages" => boxes' = {Inbox}
  /\ scope = "mailboxes" => events' <= 1
  /\ UNCHANGED scope

ScopedSpec == ScopedInit /\ [][ScopedNext]_<<vars, scope>>
=============================================================================
