----------------------------- MODULE MCLsmTree -----------------------------
(***************************************************************************)
(* Instances of LsmTree for TLC.                                           *)
(***************************************************************************)
EXTENDS LsmTree, TLC

CONSTANTS w1, w2, r1

WriterSymmetry == Permutations({w1, w2})

Put12 == 1 :> "put" @@ 2 :> "put"
Del1 == 1 :> "del"
Ttl1 == 1 :> "ttl"

(* A tombstone above the value it hides. *)
Overwrites == {Put12, Del1}
(* A record that expires above one that does not. *)
Expiries == {Put12, Ttl1}
(* Both. *)
Changes == {Put12, Ttl1, Del1}
=============================================================================
