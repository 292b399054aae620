----------------------------- MODULE MCDatabase -----------------------------
(* Small instances of Database for TLC: see the .cfg files.  Nothing in    *)
(* the model tells two keys apart, so keys may be permuted when only       *)
(* invariants are checked.                                                 *)
EXTENDS DatabaseProperties, TLC

KeySymmetry == Permutations(Keys)
=============================================================================
