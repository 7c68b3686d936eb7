---------------------------- MODULE StoreRecord -----------------------------
(***************************************************************************)
(* What a read of the store returns, the Go pair (store.Record, found): a  *)
(* value as a sequence of bytes and a deadline in Unix milliseconds, where *)
(* 0 is none.  A missing key is the zero Record.                           *)
(***************************************************************************)

Absent == [found |-> FALSE, val |-> <<>>, exp |-> 0]
Record(val, exp) == [found |-> TRUE, val |-> val, exp |-> exp]
=============================================================================
