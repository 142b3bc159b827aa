--------------------------- MODULE MCCleanupStack ---------------------------
(* An instance of CleanupStack for TLC. *)
EXTENDS CleanupStack

CONSTANTS a1, a2, a3, r1, r2, r3
=============================================================================
