---------------------------- MODULE MCWorkQueue ----------------------------
(* Model values and small numbers for checking WorkQueue with TLC.         *)
EXTENDS WorkQueue, TLC

CONSTANTS i1, i2, t1, t2

MCItems   == {i1, i2}
MCThreads == {t1}

(* A 2-bit tick counter, a period of 3 ticks, and items that are due at  *)
(* once or after 2 ticks.                                                  *)
MCWrap   == 4
MCPeriod == 3
MCDelays == {0, 2}

(* The liveness run, whose fairness rules out symmetry: one item and two *)
(* threads racing to submit and cancel it.                                *)
MCOneItem == {i1}
MCTwoThreads == {t1, t2}

ItemSymmetry == Permutations(MCItems)
=============================================================================
