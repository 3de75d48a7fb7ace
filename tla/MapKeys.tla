------------------------------ MODULE MapKeys ------------------------------
(***************************************************************************)
(* What a program puts into the two hash maps, HashMap and                 *)
(* HashMapImplementation.                                                  *)
(***************************************************************************)
EXTENDS Null

CONSTANTS Keys, Values, Hashes

VARIABLE hash  \* the hash of each key
=============================================================================
