-------------------------------- MODULE Null --------------------------------
(***************************************************************************)
(* The null of C++ and of Dart, which several tables use as "nothing".     *)
(***************************************************************************)
CONSTANT NULL
=============================================================================
