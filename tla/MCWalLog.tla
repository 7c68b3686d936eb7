------------------------------ MODULE MCWalLog ------------------------------
(***************************************************************************)
(* Instances of WalLog for TLC.                                            *)
(***************************************************************************)
EXTENDS WalLog, TLC

CONSTANTS w1, w2

TwoWriters == {w1, w2}
WriterSymmetry == Permutations(TwoWriters)
=============================================================================
