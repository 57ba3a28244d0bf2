----------------------------- MODULE MCMbr3108 -----------------------------
(* Three threads and two poll slots, so that the slots can all be taken    *)
(* and a third poll() gets -EBUSY.                                         *)
EXTENDS Mbr3108, TLC

CONSTANTS u1, u2, u3

MCUsers == {u1, u2, u3}

UserSymmetry == Permutations(MCUsers)
=============================================================================
