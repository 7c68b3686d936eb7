------------------------------ MODULE KeyValue ------------------------------
(***************************************************************************)
(* What the LSM engine promises its callers while it runs: a map that      *)
(* changes only when a batch is written, all of it at once and in the      *)
(* order the batches are given, or when the time to live of records runs   *)
(* out.                                                                    *)
(***************************************************************************)
EXTENDS Naturals, Sequences

CONSTANTS Keys, Absent

VARIABLES
    db,      \* what a reader finds under each key
    hist,    \* the batches written
    now      \* the clock: records of kind "ttl" expire when it is 1

Found(kind, index, time) ==
    IF kind = "del" \/ (kind = "ttl" /\ time >= 1) THEN Absent
    ELSE [at |-> index, kind |-> kind]

Init == db = [k \in Keys |-> Absent] /\ hist = <<>> /\ now = 0

Write ==
    \E K \in SUBSET Keys : \E batch \in [K -> {"put", "ttl", "del"}] :
        /\ hist' = Append(hist, batch)
        /\ db' = [k \in Keys |-> IF k \in K THEN Found(batch[k], Len(hist'), now) ELSE db[k]]
        /\ UNCHANGED now

Expire ==
    /\ now' = now + 1
    /\ db' = [k \in Keys |-> IF db[k] = Absent THEN Absent
                             ELSE Found(db[k].kind, db[k].at, now')]
    /\ UNCHANGED hist

Spec == Init /\ [][Write \/ Expire]_<<db, hist, now>>
=============================================================================
