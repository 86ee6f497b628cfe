------------------------------ MODULE MCSimStatus -----------------------------
(* Small instances of SimStatus: one line, of any of the three partners.     *)
EXTENDS SimStatus
=============================================================================
