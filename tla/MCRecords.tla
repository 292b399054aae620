----------------------------- MODULE MCRecords -----------------------------
(* Records on an alphabet of three bytes: keys and values that are empty   *)
(* and of the greatest length, so that a misread length can be too large   *)
(* or too small, and a checksum as short as a value, so that a value can   *)
(* pass for one.                                                           *)
EXTENDS Records, Functions

MCKeys == {<<>>, <<1>>, <<2>>}
MCValues == {<<>>, <<0>>, <<2>>, <<1, 0>>, <<0, 1>>, <<2, 1>>, <<1, 2>>}

(* A sum changes with each byte. *)
MCcrc32c(body) == FoldFunction(+, 0, body) % Power(ChecksumBytes)
=============================================================================
