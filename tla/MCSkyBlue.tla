------------------------------- MODULE MCSkyBlue ------------------------------
(* Small instance of SkyBlue: three calls (one may pause logins while two     *)
(* more are on their way), two sessions.  The calls are interchangeable and   *)
(* every property is an invariant, so their symmetry is sound.                *)
EXTENDS SkyBlue, TLC

ProcSymmetry == Permutations(Procs)
=============================================================================
