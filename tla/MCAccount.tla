------------------------------- MODULE MCAccount ------------------------------
(* Small instance of Account: two requests at a time, two addresses.  Nothing *)
(* tells addresses, users, staff, pictures or requests apart but their state, *)
(* and every property is about single states or steps, so their symmetry is   *)
(* sound.                                                                     *)
EXTENDS Account, TLC

AccountSymmetry ==
    Permutations(Emails) \cup Permutations(Calls) \cup Permutations(Users)
        \cup Permutations(Staff) \cup Permutations(Files)

\* Staff changes nothing but itself and the mark of a user: what it does to its
\* rows is explored where no code has been asked for
StaffApart == codes = 0 \/ (revoked = {} /\ \A c \in Calls : call[c].op # "admitted")
=============================================================================
