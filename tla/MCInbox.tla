------------------------------- MODULE MCInbox -------------------------------
(* Small instances of Inbox. *)
EXTENDS Inbox
CONSTANTS t1, t2
MCTasks == {t1, t2}
==============================================================================
