------------------------------ MODULE MCSession ------------------------------
(* Small instances of Session: one or two accounts, one profile request. *)
EXTENDS Session
CONSTANTS p1, a, b
MCPolls == {p1}
MCAccounts == {a, b}
MCAccount == {a}
==============================================================================
