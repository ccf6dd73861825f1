------------------------------ MODULE MCUploader ------------------------------
(* Finite instances of Uploader. *)
EXTENDS Uploader, TLC

CONSTANTS u1, u2, i1, i2

AnyCall == Permutations({u1, u2}) \cup Permutations({i1, i2})
=============================================================================
