--------------------------- MODULE MCSharedReaders ---------------------------
(* A small instance of SharedReaders for TLC: see the .cfg file.  Nothing  *)
(* tells two readers apart but what they were given, and only invariants   *)
(* are checked, so readers may be permuted.                                *)
EXTENDS SharedReaders, TLC

ReaderSymmetry == Permutations(Readers)
=============================================================================
