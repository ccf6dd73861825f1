----------------------------- MODULE MCLicenseMint -----------------------------
(* Finite instances of LicenseMint. *)
EXTENDS LicenseMint, TLC

CONSTANTS m1, m2

AnyMint == Permutations(Mints)
=============================================================================
