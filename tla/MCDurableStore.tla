--------------------------- MODULE MCDurableStore ---------------------------
(***************************************************************************)
(* Instances of DurableStore for TLC: two keys, each in a shard of its     *)
(* own; one record that never expires and one that expires at time 1.      *)
(***************************************************************************)
EXTENDS DurableStore, TLC

CONSTANTS k1, k2, a, b

TwoKeys == {k1, k2}
TwoShards == 1 .. 2
Sharding == (k1 :> 1) @@ (k2 :> 2)
Forever == [val |-> a, exp |-> 0]
Volatile == [val |-> b, exp |-> 1]
ForeverB == [val |-> b, exp |-> 0]

BothRecords == {Forever, Volatile}
PlainRecords == {Forever, ForeverB}
OneRecord == {Forever}

TwoKeyBatches == {(k1 :> Forever) @@ (k2 :> Absent), (k1 :> Absent) @@ (k2 :> Forever)}
NoBatches == {}

ClientSymmetry == Permutations(Clients)
=============================================================================
