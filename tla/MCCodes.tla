-------------------------------- MODULE MCCodes --------------------------------
(* Small instances of Codes: two accounts and three addresses. *)
EXTENDS Codes, TLC
Symmetric == Permutations(Users) \cup Permutations(Addresses)
               \cup Permutations(Passwords) \cup Permutations(Requests)
================================================================================
