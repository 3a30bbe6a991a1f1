------------------------------- MODULE MCAccess -------------------------------
(* Instances of Access for TLC: one account and its address, and an address *)
(* of no account, both tried by one caller; the account's address is tried  *)
(* by another caller too, whose name is too long to be stored.              *)
EXTENDS Access, TLC

MCStorable == {<<"mine", "caller">>, <<"unknown", "caller">>}
MCOrigins == MCStorable \cup {<<"mine", "too long">>}

CONSTANT Member

MCAccountOf == [e \in {"mine", "unknown"} |-> IF e = "mine" THEN Member ELSE Nobody]

Symmetry == Permutations(Requests)
=============================================================================
