------------------------------ MODULE Sentinel ------------------------------
(* The value of a variable that holds nothing: a file that does not exist, *)
(* an operation that is not under way.                                     *)
CONSTANT None
=============================================================================
