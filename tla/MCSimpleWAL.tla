---------------------------- MODULE MCSimpleWAL ----------------------------
(* SimpleWAL on a small instance: two threads which replay, one consumer   *)
(* which peeks, and a few records.                                         *)
EXTENDS SimpleWALInv, TLC

CONSTANTS t1, t2

MCThreads == {t1, t2}
ThreadSymmetry == Permutations(MCThreads)
=============================================================================
