------------------------------- MODULE LsmScan -------------------------------
(***************************************************************************)
(* One page of Inner::scan: a merge of sorted tables that reads no more    *)
(* than limit + 1 entries of each.                                         *)
(*                                                                         *)
(* `tables' lists the sources from the oldest to the newest, each a        *)
(* function from keys to "put", "ttl" (a put that has expired) or "del";   *)
(* the first `disk' of them are files, the others memtables.  Keys are     *)
(* numbers, so that nothing lies between k and its successor k + 1.        *)
(***************************************************************************)
EXTENDS Integers, Sequences, SequencesExt, FiniteSetsExt

NoKey == -1

KeysFrom(table, start) == SetToSortSeq({k \in DOMAIN table : k >= start}, <)

\* collect_from_file, collect_from_memtable: what a source contributes, and
\* the last key read when it held more.
Taken(table, start, take) ==
  LET ks == KeysFrom(table, start) IN {ks[i] : i \in 1 .. Min({take, Len(ks)})}
CutAt(table, start, take) ==
  LET ks == KeysFrom(table, start) IN IF Len(ks) > take THEN {ks[take]} ELSE {}

\* Variant of Take: the entry that shows there is more is not read.
TakeLimit(limit) == limit
Take(limit) == limit + 1

\* Newer sources overwrite older ones.  Memtables drop what has expired;
\* files leave that for "the end", where nothing drops it.
LiveIn(tables, disk, i, k) ==
  \/ tables[i][k] = "put"
  \/ tables[i][k] = "ttl" /\ i <= disk

scan(tables, disk, start, limit) ==
  LET take == Take(limit)
      taken == [i \in 1 .. Len(tables) |-> Taken(tables[i], start, take)]
      newest(k) == Max({i \in 1 .. Len(tables) : k \in taken[i]})
      merged == UNION ToSet(taken)
      cuts == UNION {CutAt(tables[i], start, take) : i \in 1 .. Len(tables)}
      boundary == IF cuts = {} THEN NoKey ELSE Min(cuts)
      due == SetToSortSeq({k \in merged : /\ LiveIn(tables, disk, newest(k), k)
                                          /\ boundary # NoKey => k <= boundary}, <)
      out == SubSeq(due, 1, Min({limit, Len(due)}))
      after == IF Len(out) < limit THEN {} ELSE {k \in merged : k > out[limit]}
  IN  [out |-> out,
       next |-> CASE after # {} -> Min(after)
                  [] after = {} /\ boundary # NoKey -> boundary + 1
                  [] OTHER -> NoKey]

\* The loop of exact_len and flush_all, and of a client that follows cursors.
RECURSIVE Walk(_, _, _, _)
Walk(tables, disk, start, limit) ==
  LET page == scan(tables, disk, start, limit)
  IN  IF page.next = NoKey THEN page.out ELSE page.out \o Walk(tables, disk, page.next, limit)
==============================================================================
