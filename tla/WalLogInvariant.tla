-------------------------- MODULE WalLogInvariant ---------------------------
(***************************************************************************)
(* The inductive invariant of WalLog, and the steps taken before and at    *)
(* the gate (flushMu): appends, ticks, the start of Close and of a         *)
(* snapshot, and the entry to the gate.                                    *)
(*                                                                         *)
(* The inductive invariant says where every LSN is: the files hold         *)
(* StartLSN+1 .. writtenLSN in order, the drained buffer continues them,   *)
(* the append buffer continues that; every fsync covers all of the         *)
(* positions before its segment; and no writer can be past the gate with   *)
(* an LSN its call did not cover.                                          *)
(***************************************************************************)
EXTENDS WalLog, SequenceTheorems, TLAPS

(* l.f can be written, or a rotation in progress is about to replace it. *)
Usable == open \/ \E p \in Procs : pc[p] \in {"create", "header"}

GateInv ==
    /\ \A p \in Procs : pc[p] \in InGate <=> flushMu = p
    /\ pc[Background] # "append" /\ pc[Closer] \notin {"append", "enter"}
    /\ \A w \in Writers : call[w] \in {"none", "overflow", "sync", "finish"}
    /\ call[Background] \in {"none", "tickFlush", "tickSync"}
    /\ call[Closer] \in {"none", "close"}
    /\ pc[Closer] # "idle" => call[Closer] = "close"

CounterInv ==
    /\ lastAppended = nextLSN - 1
    /\ writtenLSN = StartLSN + Len(file)
    /\ StartLSN <= syncedLSN /\ syncedLSN <= writtenLSN
    /\ writtenLSN <= lastAppended
    /\ covered <= lastAppended
    /\ snapLSN # -1 => covered <= snapLSN /\ snapLSN <= lastAppended

FileInv == \A i \in 1 .. Len(file) : file[i] = StartLSN + i

BufferInv ==
    /\ (\A p \in Procs : pc[p] # "write") => pending = <<>>
    /\ Usable =>
         /\ \A i \in 1 .. Len(pending) : pending[i] = writtenLSN + i
         /\ \A i \in 1 .. Len(buf) : buf[i] = writtenLSN + Len(pending) + i
         /\ lastAppended = writtenLSN + Len(pending) + Len(buf)

HolderInv ==
    \A p \in Procs :
        /\ pc[p] = "write" /\ Usable => upto = writtenLSN + Len(pending)
        /\ pc[p] \in {"rotate", "create", "header", "fsync"} => upto = writtenLSN
        /\ pc[p] \in {"create", "header"} => syncedLSN = writtenLSN /\ ~open
        /\ pc[p] = "rotate" => open

StableInv ==
    /\ \A q \in 1 .. Len(file) : StartLSN + q <= syncedLSN => q \in durable
    /\ \A q \in 1 .. segs[Len(segs)].start - 1 : q \in durable

SegmentInv ==
    /\ \A i \in 1 .. Len(segs) :
          /\ segs[i].first = StartLSN + segs[i].start
          /\ segs[i].start \in 1 .. Len(file) + 1
    /\ base = segs[1].start - 1
    /\ StartLSN + base <= covered

WriterInv ==
    \A w \in Writers :
        /\ pc[w] \notin {"idle", "append"} =>
              StartLSN < lsn[w] /\ lsn[w] <= lastAppended
        /\ Policy = "always" /\ call[w] = "finish" => lsn[w] <= syncedLSN
        /\ pc[w] = "write" => lsn[w] <= upto
        /\ pc[w] \in {"rotate", "create", "header", "fsync"} => lsn[w] <= writtenLSN

(* Close drains everything any writer behind the gate still waits for. *)
CloseInv ==
    /\ ~closed => pc[Closer] = "idle"
    /\ ~closed \/ pc[Closer] # "idle" => Usable
    /\ closed /\ pc[Closer] = "write" =>
          \A w \in Writers : pc[w] = "lock" => lsn[w] <= upto
    /\ closed /\ pc[Closer] \notin {"lock", "write"} =>
          \A w \in Writers : pc[w] = "lock" => lsn[w] <= writtenLSN

AckInv ==
    \A l \in acked :
        /\ StartLSN < l /\ l <= writtenLSN
        /\ Policy = "always" => l <= syncedLSN

IInv ==
    /\ TypeOK /\ GateInv /\ CounterInv /\ FileInv /\ BufferInv /\ HolderInv
    /\ StableInv /\ SegmentInv /\ WriterInv /\ CloseInv /\ AckInv

-----------------------------------------------------------------------------
(* The gate. *)

(* The buffers and the directory are sequences, so their lengths are numbers. *)
LEMMA Lengths ==
    ASSUME TypeOK
    PROVE  /\ Len(buf) \in Nat /\ Len(pending) \in Nat /\ Len(file) \in Nat
           /\ Len(segs) \in Nat \ {0}
BY LenProperties, EmptySeq DEF TypeOK

(* flushMu: whoever drains, rotates or fsyncs does so alone. *)
LEMMA AloneInGate ==
    ASSUME TypeOK, GateInv, NEW p \in Procs, pc[p] \in InGate
    PROVE  /\ flushMu = p
           /\ \A q \in Procs : q # p => pc[q] \notin InGate
           /\ pc[p] \in {"create", "header"} => Usable
           /\ pc[p] \notin {"create", "header"} => (Usable <=> open)
BY Zenon DEF GateInv, TypeOK, Usable, InGate

(* While flushMu is free no buffer is half-drained and no rotation half-done. *)
LEMMA GateFree ==
    ASSUME TypeOK, GateInv, BufferInv, flushMu = Nobody
    PROVE  /\ \A q \in Procs : pc[q] \notin InGate
           /\ Usable <=> open
           /\ pending = <<>>
<1>1. \A q \in Procs : pc[q] \notin InGate
  BY ConstantsAssumption DEF GateInv
<1>2. QED
  BY <1>1 DEF BufferInv, Usable, InGate

(* What a return from a call of the log leaves behind. *)
ReturnFacts(p, ok) ==
    /\ pc' \in [Procs -> PCs] /\ call' \in [Procs -> Calls] /\ acked' \subseteq Nat
    /\ \A q \in Procs : q # p => pc'[q] = pc[q] /\ call'[q] = call[q]
    /\ pc'[p] \in {"idle", "enter"}
    /\ pc'[p] = "enter" => p \in Writers
    /\ p \in Writers => call'[p] \in {"none", "sync", "finish"}
    /\ p \notin Writers => call'[p] = "none"
    /\ Policy = "always" /\ call'[p] = "finish" => ok /\ call[p] = "sync"
    /\ \/ acked' = acked
       \/ ok /\ p \in Writers /\ call[p] = "finish" /\ acked' = acked \cup {lsn[p]}

(* Leaving Flush, Sync or SyncAll: a writer goes on to its next call, anyone *)
(* else is done; only a successful Flush before the reply acknowledges.       *)
LEMMA ReturnEffect ==
    ASSUME TypeOK, GateInv, NEW p \in Procs, NEW ok \in BOOLEAN, Return(p, ok)
    PROVE  ReturnFacts(p, ok)
<1> DEFINE next == NextCall(p, ok)
<1>1. /\ next \in {"none", "sync", "finish"}
      /\ p \notin Writers => next = "none"
      /\ Policy = "always" /\ next = "finish" => ok /\ call[p] = "sync"
  BY DEF NextCall, AwaitCall, GateInv, Procs
<1>2. /\ pc' = [pc EXCEPT ![p] = IF next = "none" THEN "idle" ELSE "enter"]
      /\ call' = [call EXCEPT ![p] = next]
      /\ acked' = IF ok /\ call[p] = "finish" THEN acked \cup {lsn[p]} ELSE acked
  BY DEF Return, Goto
<1> HIDE DEF next
<1>3. call[p] = "finish" => p \in Writers
  BY DEF GateInv, Procs
<1>4. acked' \subseteq Nat
  BY <1>2, Zenon DEF TypeOK
<1>5. QED
  BY <1>1, <1>2, <1>3, <1>4 DEF ReturnFacts, TypeOK, PCs, Calls, SyncCalls, FlushCalls

StepFacts(p, where) ==
    /\ pc' \in [Procs -> PCs] /\ call' = call /\ acked' = acked
    /\ \A q \in Procs : q # p => pc'[q] = pc[q]
    /\ pc'[p] = where

(* A step inside a call moves its process and nobody else. *)
LEMMA StepEffect ==
    ASSUME TypeOK, NEW p \in Procs, NEW where \in PCs, Step(p, where)
    PROVE  StepFacts(p, where)
<1>1. pc' = [pc EXCEPT ![p] = where] /\ call' = [call EXCEPT ![p] = call[p]] /\ acked' = acked
  BY DEF Step, Goto
<1>2. QED
  BY <1>1 DEF StepFacts, TypeOK

(* Leaving the gate keeps it exclusive: nobody is left behind it. *)
LEMMA ReleaseGate ==
    ASSUME TypeOK, GateInv, NEW p \in Procs, NEW ok \in BOOLEAN,
           pc[p] \in InGate, flushMu' = Nobody, ReturnFacts(p, ok)
    PROVE  /\ GateInv'
           /\ \A q \in Procs : pc'[q] \notin InGate
           /\ Usable' <=> open'
<1>1. \A q \in Procs : pc'[q] \notin InGate
  BY AloneInGate DEF ReturnFacts, InGate
<1>2. GateInv'
  BY <1>1, ConstantsAssumption DEF GateInv, ReturnFacts, InGate, Procs
<1>3. QED
  BY <1>1, <1>2 DEF Usable, InGate

(* Moving on behind the gate keeps it exclusive. *)
LEMMA KeepGate ==
    ASSUME TypeOK, GateInv, NEW p \in Procs, NEW where \in InGate,
           pc[p] \in InGate, flushMu' = flushMu, StepFacts(p, where)
    PROVE  /\ GateInv'
           /\ \A q \in Procs : q # p => pc'[q] \notin InGate
<1>1. \A q \in Procs : q # p => pc'[q] \notin InGate
  BY AloneInGate DEF StepFacts
<1>2. QED
  BY <1>1, AloneInGate, ConstantsAssumption DEF GateInv, StepFacts, InGate, Procs

-----------------------------------------------------------------------------
(* Steps outside the gate. *)

(* What the files hold is of no concern to a step that leaves them alone. *)
LEMMA DiskFrame ==
    ASSUME FileInv, StableInv, SegmentInv,
           UNCHANGED <<file, durable, base, segs, syncedLSN, covered>>
    PROVE  FileInv' /\ StableInv' /\ SegmentInv'
BY DEF FileInv, StableInv, SegmentInv

(* Passing append's closed and fatal checks preserves the invariant. *)
LEMMA BeginAppendStep ==
    ASSUME IInv, NEW w \in Writers, BeginAppend(w)
    PROVE  IInv'
<1> USE ConstantsAssumption DEF IInv, Procs, PCs, InGate
<1>1. /\ UNCHANGED <<logVars, writtenLSN, syncedLSN, flushMu, gateVars, diskVars,
                     fatal, closed, lsn, snapVars>>
      /\ StepFacts(w, "append") /\ pc[w] = "idle"
  BY StepEffect DEF BeginAppend
<1>2. FileInv' /\ StableInv' /\ SegmentInv'
  BY <1>1, DiskFrame DEF diskVars, snapVars
<1> USE <1>1 DEF StepFacts, logVars, gateVars, diskVars, snapVars
<1>3. TypeOK'
  BY DEF TypeOK
<1>4. GateInv' /\ (Usable' <=> Usable)
  BY Zenon DEF GateInv, TypeOK, Usable
<1>5. CounterInv' /\ AckInv'
  BY DEF CounterInv, AckInv
<1>6. BufferInv' /\ HolderInv' /\ CloseInv'
  BY <1>4 DEF BufferInv, HolderInv, CloseInv
<1>7. WriterInv'
  BY DEF WriterInv
<1>8. QED
  BY <1>2, <1>3, <1>4, <1>5, <1>6, <1>7

(* append under mu preserves it: the new LSN continues the buffer. *)
LEMMA AppendRecordStep ==
    ASSUME IInv, NEW w \in Writers, AppendRecord(w)
    PROVE  IInv'
<1> USE ConstantsAssumption DEF IInv, Procs
<1> DEFINE next == IF Len(buf') >= MaxBuffer THEN "overflow" ELSE AwaitCall
<1>1. /\ pc[w] = "append" /\ buf' = Append(buf, nextLSN)
      /\ nextLSN' = nextLSN + 1 /\ lastAppended' = nextLSN
      /\ lsn' = [lsn EXCEPT ![w] = nextLSN]
      /\ UNCHANGED <<writtenLSN, syncedLSN, flushMu, gateVars, diskVars,
                     fatal, closed, acked, snapVars>>
      /\ pc' = [pc EXCEPT ![w] = "enter"] /\ call' = [call EXCEPT ![w] = next]
  BY DEF AppendRecord, Goto
<1>2. /\ next \in {"overflow", "sync", "finish"}
      /\ ~(Policy = "always" /\ next = "finish")
  BY DEF AwaitCall
<1> HIDE DEF next
<1>3. FileInv' /\ StableInv' /\ SegmentInv'
  BY <1>1, DiskFrame DEF diskVars, snapVars
<1> USE DEF logVars, gateVars, diskVars, snapVars
<1>4. /\ buf' \in Seq(Nat) /\ Len(buf') = Len(buf) + 1 /\ buf'[Len(buf) + 1] = nextLSN
      /\ \A i \in 1 .. Len(buf) : buf'[i] = buf[i]
  BY <1>1, AppendProperties DEF TypeOK
<1>5. TypeOK'
  BY SMTT(40), <1>1, <1>2, <1>4 DEF TypeOK, PCs, Calls, SyncCalls, FlushCalls
<1>6. GateInv' /\ (Usable' <=> Usable)
  BY <1>1, <1>2, Zenon DEF GateInv, TypeOK, Usable, InGate
<1>7. CounterInv' /\ AckInv'
  BY SMTT(40), <1>1 DEF CounterInv, AckInv, TypeOK
<1>8. BufferInv'
  <2>0. /\ writtenLSN' = writtenLSN /\ writtenLSN \in Nat /\ pending' = pending
        /\ lastAppended' = nextLSN
    BY <1>1 DEF TypeOK
  <2>1. (\A p \in Procs : pc'[p] # "write") => pending' = <<>>
    BY <1>1, Zenon DEF BufferInv, TypeOK
  <2>2. ASSUME Usable
        PROVE  /\ nextLSN = writtenLSN + Len(pending) + Len(buf) + 1
               /\ \A i \in 1 .. Len(pending') : pending'[i] = writtenLSN' + i
    BY <1>1, <2>2 DEF BufferInv, CounterInv, TypeOK
  <2>3. ASSUME Usable, NEW i \in 1 .. Len(buf')
        PROVE  buf'[i] = writtenLSN' + Len(pending') + i
    <3>1. i \in Nat /\ (i = Len(buf) + 1 \/ i \in 1 .. Len(buf))
      BY <1>4, <2>3, Lengths
    <3>2. i \in 1 .. Len(buf) => buf[i] = writtenLSN + Len(pending) + i
      BY <2>3 DEF BufferInv
    <3>3. nextLSN = writtenLSN + Len(pending) + Len(buf) + 1
      BY <2>2, <2>3
    <3>4. CASE i = Len(buf) + 1
      BY <1>4, <2>0, <3>3, <3>4, Lengths, SMTT(60)
    <3>5. CASE i \in 1 .. Len(buf)
      BY <1>4, <2>0, <3>2, <3>5
    <3>6. QED
      BY <3>1, <3>4, <3>5
  <2>4. ASSUME Usable
        PROVE  lastAppended' = writtenLSN' + Len(pending') + Len(buf')
    <3>1. nextLSN = writtenLSN + Len(pending) + Len(buf) + 1
      BY <2>2, <2>4, Zenon
    <3>2. Len(buf') = Len(buf) + 1 /\ Len(pending') = Len(pending)
      BY <1>4, <2>0, Zenon
    <3>3. Len(buf) \in Nat /\ Len(pending) \in Nat
      BY Lengths, Zenon
    <3>4. QED
      BY <2>0, <3>1, <3>2, <3>3
  <2>5. QED
    BY <1>6, <2>1, <2>2, <2>3, <2>4, Zenon DEF BufferInv
<1>9. HolderInv' /\ CloseInv'
  BY <1>1, <1>6, Zenon DEF HolderInv, CloseInv, TypeOK
<1>10. WriterInv'
  <2>1. StartLSN < nextLSN /\ lastAppended <= lastAppended'
    BY <1>1, Lengths DEF CounterInv, TypeOK
  <2>2. ASSUME NEW v \in Writers, v # w
        PROVE  pc'[v] = pc[v] /\ call'[v] = call[v] /\ lsn'[v] = lsn[v] /\ lsn[v] \in Nat
    BY <1>1, <2>2 DEF TypeOK
  <2>3. pc'[w] = "enter" /\ call'[w] = next /\ lsn'[w] = nextLSN
    BY <1>1 DEF TypeOK
  <2>4. QED
    BY SMTT(40), <1>1, <1>2, <2>1, <2>2, <2>3 DEF WriterInv, TypeOK
<1>11. QED
  BY <1>3, <1>5, <1>6, <1>7, <1>8, <1>9, <1>10

(* A tick of background() preserves it. *)
LEMMA TickStep ==
    ASSUME IInv, NEW what \in {"tickFlush", "tickSync"}, Tick(what)
    PROVE  IInv'
<1> USE ConstantsAssumption DEF IInv, Procs
<1>1. /\ UNCHANGED <<logVars, writtenLSN, syncedLSN, flushMu, gateVars, diskVars,
                     fatal, closed, lsn, acked, snapVars>>
      /\ pc[Background] = "idle" /\ pc' = [pc EXCEPT ![Background] = "enter"]
      /\ call' = [call EXCEPT ![Background] = what]
  BY DEF Tick, Goto
<1>2. FileInv' /\ StableInv' /\ SegmentInv'
  BY <1>1, DiskFrame DEF diskVars, snapVars
<1> USE <1>1 DEF logVars, gateVars, diskVars, snapVars
<1>3. TypeOK'
  BY DEF TypeOK, PCs, Calls, SyncCalls, FlushCalls
<1>4. GateInv' /\ (Usable' <=> Usable)
  BY Zenon DEF GateInv, TypeOK, Usable, InGate
<1>5. CounterInv' /\ AckInv'
  BY DEF CounterInv, AckInv
<1>6. BufferInv' /\ HolderInv' /\ CloseInv'
  BY <1>4, Zenon DEF BufferInv, HolderInv, CloseInv, TypeOK
<1>7. WriterInv'
  BY DEF WriterInv, TypeOK
<1>8. QED
  BY <1>2, <1>3, <1>4, <1>5, <1>6, <1>7

(* The compare-and-swap of Close preserves it: the file is still usable. *)
LEMMA BeginCloseStep ==
    ASSUME IInv, BeginClose
    PROVE  IInv'
<1> USE ConstantsAssumption DEF IInv, Procs
<1>1. /\ UNCHANGED <<logVars, writtenLSN, syncedLSN, flushMu, gateVars, diskVars,
                     fatal, lsn, acked, snapVars>>
      /\ ~closed /\ closed' = TRUE /\ pc' = [pc EXCEPT ![Closer] = "lock"]
      /\ call' = [call EXCEPT ![Closer] = "close"]
  BY DEF BeginClose, Goto
<1>2. FileInv' /\ StableInv' /\ SegmentInv'
  BY <1>1, DiskFrame DEF diskVars, snapVars
<1> USE <1>1 DEF logVars, gateVars, diskVars, snapVars
<1>3. TypeOK'
  BY Zenon DEF TypeOK, PCs, Calls, SyncCalls, FlushCalls
<1>4. pc[Closer] = "idle" /\ Usable
  BY DEF CloseInv
<1>5. GateInv' /\ Usable'
  BY <1>4, Zenon DEF GateInv, TypeOK, Usable, InGate
<1>6. CounterInv' /\ AckInv'
  BY DEF CounterInv, AckInv
<1>7. BufferInv' /\ HolderInv'
  BY <1>4, <1>5, Zenon DEF BufferInv, HolderInv, TypeOK
<1>8. CloseInv'
  BY <1>5 DEF CloseInv, TypeOK
<1>9. WriterInv'
  BY Zenon DEF WriterInv, TypeOK
<1>10. QED
  BY <1>2, <1>3, <1>5, <1>6, <1>7, <1>8, <1>9

(* Reading LastLSN for a snapshot preserves it. *)
LEMMA BeginSnapshotStep ==
    ASSUME IInv, BeginSnapshot
    PROVE  IInv'
<1> USE ConstantsAssumption DEF IInv
<1>1. /\ UNCHANGED <<logVars, writtenLSN, syncedLSN, flushMu, gateVars, diskVars,
                     fatal, closed, pc, call, lsn, acked, covered>>
      /\ snapLSN' = nextLSN - 1
  BY DEF BeginSnapshot
<1>2. FileInv' /\ StableInv' /\ SegmentInv'
  BY <1>1, DiskFrame DEF diskVars
<1> USE <1>1 DEF logVars, gateVars, diskVars
<1>3. CounterInv' /\ TypeOK'
  BY SMTT(40) DEF CounterInv, TypeOK
<1>4. GateInv' /\ BufferInv' /\ HolderInv' /\ WriterInv' /\ CloseInv' /\ AckInv'
  BY ZenonT(30) DEF GateInv, BufferInv, HolderInv, WriterInv, CloseInv, AckInv, Usable
<1>5. QED
  BY <1>2, <1>3, <1>4

(* A call that returns from outside the gate, or from behind it without a  *)
(* drain: the counters alone must justify the answer.                      *)
LEMMA ReturnOutside ==
    ASSUME IInv, NEW p \in Procs, NEW ok \in BOOLEAN,
           pc[p] \in {"enter", "lock"}, p # Closer, ReturnFacts(p, ok),
           UNCHANGED <<logVars, writtenLSN, syncedLSN, flushMu, pending, diskVars,
                       fatal, closed, lsn, snapVars>>,
           upto' = upto \/ (flushMu = Nobody /\ upto' = writtenLSN),
           Policy = "always" /\ ok /\ call[p] = "sync" => lsn[p] <= syncedLSN,
           ok /\ call[p] = "finish" => lsn[p] <= writtenLSN
    PROVE  IInv'
<1> USE DEF IInv, logVars, diskVars, snapVars
<1>1. FileInv' /\ StableInv' /\ SegmentInv'
  BY DiskFrame
<1>2. TypeOK' /\ CounterInv'
  BY Zenon DEF TypeOK, CounterInv, ReturnFacts
<1>3. GateInv' /\ (Usable' <=> Usable)
  BY ConstantsAssumption, Zenon DEF GateInv, ReturnFacts, TypeOK, Usable, InGate, Procs
<1>4. BufferInv' /\ HolderInv'
  <2>1. BufferInv'
    BY <1>3 DEF BufferInv, ReturnFacts
  <2>2. ASSUME NEW q \in Procs, pc'[q] \in InGate
        PROVE  pc[q] = pc'[q] /\ upto' = upto
    BY <2>2, GateFree, Zenon DEF ReturnFacts, InGate
  <2>3. QED
    BY <1>3, <2>1, <2>2, Zenon DEF HolderInv, InGate
<1>5. WriterInv'
  <2>1. ASSUME NEW w \in Writers, w # p PROVE pc'[w] = pc[w] /\ call'[w] = call[w]
    BY <2>1 DEF ReturnFacts, Procs
  <2>2. ASSUME NEW w \in Writers, pc'[w] \in InGate PROVE upto' = upto
    BY <2>2, GateFree, Zenon DEF ReturnFacts, InGate, Procs
  <2>3. ASSUME p \in Writers
        PROVE  /\ StartLSN < lsn[p] /\ lsn[p] <= lastAppended
               /\ Policy = "always" /\ call'[p] = "finish" => lsn[p] <= syncedLSN
               /\ pc'[p] \in {"idle", "enter"}
    BY <2>3 DEF WriterInv, ReturnFacts
  <2>4. QED
    BY <2>1, <2>2, <2>3, Zenon DEF WriterInv, InGate
<1>6. CloseInv'
  <2>1. /\ pc'[Closer] = pc[Closer]
        /\ \A w \in Writers : pc'[w] = "lock" => pc[w] = "lock"
    BY Zenon DEF ReturnFacts, Procs
  <2>2. pc[Closer] = "write" => upto' = upto
    BY GateFree, Zenon DEF InGate, Procs
  <2>3. QED
    BY <1>3, <2>1, <2>2, Zenon DEF CloseInv
<1>7. AckInv'
  <2>1. ok /\ p \in Writers /\ call[p] = "finish" =>
           /\ StartLSN < lsn[p] /\ lsn[p] <= writtenLSN
           /\ Policy = "always" => lsn[p] <= syncedLSN
    BY Zenon DEF WriterInv
  <2>2. QED
    BY <2>1, Zenon DEF AckInv, ReturnFacts
<1>8. QED
  BY <1>1, <1>2, <1>3, <1>4, <1>5, <1>6, <1>7

(* The fast paths answer only for what the counters already cover. *)
LEMMA NothingToDoCovers ==
    ASSUME IInv, NEW p \in Procs, pc[p] \in {"enter", "lock"}, NothingToDo(p)
    PROVE  /\ p # Closer
           /\ call[p] = "sync" => lsn[p] <= syncedLSN
           /\ call[p] = "finish" => lsn[p] <= writtenLSN
<1> USE DEF IInv
<1>1. p # Closer
  BY DEF NothingToDo, GateInv, FlushCalls
<1>2. call[p] = "sync" => lsn[p] <= syncedLSN
  BY DEF NothingToDo, FlushCalls, TypeOK
<1>3. call[p] = "finish" => p \in Writers /\ lastAppended <= writtenLSN
  BY DEF NothingToDo, GateInv, Procs
<1>4. p \in Writers => lsn[p] <= lastAppended
  BY DEF WriterInv
<1>5. lsn[p] \in Nat /\ lastAppended \in Nat /\ writtenLSN \in Nat
  BY Zenon DEF TypeOK
<1>6. QED
  BY SMTT(40), <1>1, <1>2, <1>3, <1>4, <1>5

(* Flush, Sync and SyncAll up to the gate preserve it. *)
LEMMA EnterStep ==
    ASSUME IInv, NEW p \in Procs, Enter(p)
    PROVE  IInv'
<1> USE DEF IInv
<1>1. /\ pc[p] = "enter" /\ p # Closer
      /\ UNCHANGED <<logVars, writtenLSN, syncedLSN, flushMu, gateVars, diskVars,
                     fatal, closed, lsn, snapVars>>
  BY Zenon DEF Enter, GateInv
<1>2. CASE closed
  <2>1. ReturnFacts(p, FALSE)
    BY <1>2, ReturnEffect, Zenon DEF Enter
  <2>2. QED
    BY <1>1, <2>1, ReturnOutside, Zenon DEF gateVars
<1>3. CASE ~closed /\ NothingToDo(p)
  <2>1. ReturnFacts(p, TRUE)
    BY <1>3, ReturnEffect, Zenon DEF Enter
  <2>2. QED
    BY <1>1, <1>3, <2>1, NothingToDoCovers, ReturnOutside, Zenon DEF gateVars
<1>4. CASE ~closed /\ ~NothingToDo(p)
  <2> USE <1>1 DEF logVars, gateVars, diskVars, snapVars
  <2>1. StepFacts(p, "lock")
    BY <1>4, StepEffect DEF Enter, PCs
  <2>2. FileInv' /\ StableInv' /\ SegmentInv'
    BY DiskFrame
  <2>3. TypeOK' /\ CounterInv' /\ AckInv'
    BY <2>1, Zenon DEF StepFacts, TypeOK, CounterInv, AckInv
  <2>4. GateInv' /\ (Usable' <=> Usable)
    BY <2>1, ConstantsAssumption DEF StepFacts, GateInv, Usable, InGate, Procs
  <2>5. BufferInv' /\ HolderInv' /\ CloseInv'
    BY ZenonT(30), <1>4, <2>1, <2>4, ConstantsAssumption
       DEF StepFacts, BufferInv, HolderInv, CloseInv, Procs
  <2>6. WriterInv'
    BY <2>1 DEF StepFacts, WriterInv, Procs
  <2>7. QED
    BY <2>2, <2>3, <2>4, <2>5, <2>6
<1>5. QED
  BY <1>2, <1>3, <1>4, Zenon DEF TypeOK

(* A writer that finds the buffer empty behind the gate has been drained   *)
(* by another holder; if the file is closed, by Close.                     *)
LEMMA EmptyBufferCovers ==
    ASSUME IInv, NEW w \in Writers, pc[w] = "lock", flushMu = Nobody, buf = <<>>
    PROVE  lsn[w] <= writtenLSN
<1> USE DEF IInv
<1>1. CASE Usable
  <2>1. pending = <<>>
    BY GateFree
  <2>2. lastAppended = writtenLSN + 0 + 0
    BY <1>1, <2>1 DEF BufferInv
  <2>3. lsn[w] <= lastAppended
    BY DEF WriterInv
  <2>4. QED
    BY <2>2, <2>3 DEF TypeOK
<1>2. CASE ~Usable
  BY <1>2 DEF CloseInv, TypeOK
<1>3. QED
  BY <1>1, <1>2

(* Taking flushMu and swapping the buffer out preserve it: the drained      *)
(* records continue the file and the holder answers for all of them.        *)
LEMMA LockStep ==
    ASSUME IInv, NEW p \in Procs, Lock(p)
    PROVE  IInv'
<1> USE DEF IInv
<1>1. /\ pc[p] = "lock" /\ flushMu = Nobody
      /\ UNCHANGED <<nextLSN, lastAppended, writtenLSN, syncedLSN, diskVars,
                     fatal, closed, lsn, snapVars>>
  BY DEF Lock
<1>2. CASE NothingToDo(p) /\ Return(p, TRUE) /\ UNCHANGED <<buf, flushMu, gateVars>>
  BY <1>1, <1>2, ReturnEffect, NothingToDoCovers, ReturnOutside, Zenon DEF logVars, gateVars
<1>3. CASE /\ buf = <<>> /\ upto' = writtenLSN /\ call[p] \notin SyncCalls
           /\ Return(p, TRUE) /\ UNCHANGED <<buf, flushMu, pending>>
  <2>1. p # Closer /\ call[p] # "sync"
    BY <1>1, <1>3 DEF GateInv, SyncCalls
  <2>2. call[p] = "finish" => lsn[p] <= writtenLSN
    BY <1>1, <1>3, EmptyBufferCovers DEF GateInv, Procs
  <2>3. QED
    BY <1>1, <1>3, <2>1, <2>2, ReturnEffect, ReturnOutside, Zenon DEF logVars
<1>4. ASSUME NEW where \in {"fsync", "write"}, Step(p, where), flushMu' = p
      PROVE  /\ StepFacts(p, where) /\ GateInv' /\ (Usable' <=> Usable)
             /\ \A q \in Procs : q # p => pc'[q] \notin InGate
             /\ FileInv' /\ StableInv' /\ SegmentInv' /\ AckInv' /\ CounterInv'
  <2>1. StepFacts(p, where)
    BY <1>4, StepEffect DEF PCs, InGate
  <2>2. FileInv' /\ StableInv' /\ SegmentInv'
    BY <1>1, DiskFrame, Zenon DEF diskVars, snapVars
  <2>3. AckInv' /\ CounterInv'
    BY <1>1, <2>1 DEF StepFacts, AckInv, CounterInv, diskVars, snapVars
  <2>4. \A q \in Procs : q # p => pc'[q] \notin InGate
    BY <1>1, <2>1, GateFree, SMTT(60) DEF StepFacts
  <2>5. GateInv'
    BY <1>1, <1>4, <2>1, <2>4, ConstantsAssumption DEF StepFacts, GateInv, InGate, Procs
  <2>6. Usable' <=> Usable
    BY <1>1, <2>1, Zenon DEF StepFacts, Usable, diskVars
  <2>7. QED
    BY <2>1, <2>2, <2>3, <2>4, <2>5, <2>6
<1>5. CASE /\ buf = <<>> /\ upto' = writtenLSN /\ call[p] \in SyncCalls
           /\ Step(p, "fsync") /\ flushMu' = p /\ UNCHANGED <<buf, pending>>
  <2> USE <1>1, <1>5 DEF diskVars, snapVars
  <2>1. /\ StepFacts(p, "fsync") /\ GateInv' /\ (Usable' <=> Usable)
        /\ \A q \in Procs : q # p => pc'[q] \notin InGate
        /\ FileInv' /\ StableInv' /\ SegmentInv' /\ AckInv' /\ CounterInv'
    BY <1>4, Zenon
  <2>2. TypeOK'
    BY <2>1, Zenon DEF StepFacts, TypeOK
  <2>3. BufferInv'
    BY <2>1, GateFree, Zenon DEF BufferInv
  <2>4. HolderInv'
    BY <2>1, Zenon DEF StepFacts, HolderInv, InGate
  <2>5. WriterInv'
    <3>1. p \in Writers => lsn[p] <= writtenLSN
      BY EmptyBufferCovers, Zenon
    <3>2. QED
      BY <2>1, <3>1, Zenon DEF StepFacts, WriterInv, InGate, Procs
  <2>6. CloseInv'
    <3>1. \A w \in Writers : pc[w] = "lock" => lsn[w] <= writtenLSN
      BY EmptyBufferCovers, Zenon
    <3>2. QED
      BY <2>1, <3>1, ConstantsAssumption, Zenon DEF StepFacts, CloseInv, InGate, Procs
  <2>7. QED
    BY <2>1, <2>2, <2>3, <2>4, <2>5, <2>6, Zenon
<1>6. CASE /\ buf # <<>> /\ Step(p, "write") /\ flushMu' = p
           /\ pending' = buf /\ upto' = nextLSN - 1 /\ buf' = <<>>
  <2> USE <1>1, <1>6 DEF diskVars, snapVars
  <2>1. /\ StepFacts(p, "write") /\ GateInv' /\ (Usable' <=> Usable)
        /\ \A q \in Procs : q # p => pc'[q] \notin InGate
        /\ FileInv' /\ StableInv' /\ SegmentInv' /\ AckInv' /\ CounterInv'
    BY <1>4, Zenon
  <2>2. /\ Len(buf') = 0 /\ Len(pending) = 0 /\ upto' = lastAppended
        /\ lastAppended \in Nat /\ writtenLSN \in Nat
    BY GateFree, Zenon DEF CounterInv, TypeOK
  <2>3. TypeOK'
    BY SMTT(40), <2>1, <2>2 DEF StepFacts, TypeOK
  <2>4. Usable => lastAppended = writtenLSN + Len(buf)
    BY <2>2, Lengths, SMTT(60) DEF BufferInv
  <2>5. BufferInv'
    <3>1. pc'[p] = "write"
      BY <2>1 DEF StepFacts
    <3>2. ASSUME Usable, NEW i \in 1 .. Len(buf)
          PROVE  buf[i] = writtenLSN + i
      BY <2>2, <3>2, Lengths DEF BufferInv
    <3>3. /\ pending' = buf /\ writtenLSN' = writtenLSN /\ lastAppended' = lastAppended
          /\ Len(buf') = 0
      BY <2>2, SMTT(60)
    <3>4. Usable' => lastAppended' = writtenLSN' + Len(pending') + Len(buf')
      BY SMTT(40), <2>1, <2>2, <2>4, <3>3, Lengths
    <3>5. Usable' => \A i \in 1 .. Len(pending') : pending'[i] = writtenLSN' + i
      BY <2>1, <3>2, <3>3
    <3>6. \A i \in 1 .. Len(buf') : FALSE
      BY <3>3, SMTT(60)
    <3>7. QED
      BY <3>1, <3>4, <3>5, <3>6, Zenon DEF BufferInv
  <2>6. HolderInv'
    BY <2>1, <2>2, <2>4, Zenon DEF StepFacts, HolderInv, InGate
  <2>7. WriterInv'
    BY <2>1, <2>2, Zenon DEF StepFacts, WriterInv, InGate, Procs
  <2>8. CloseInv'
    <3>1. \A w \in Writers : pc'[w] = "lock" => pc[w] = "lock" /\ lsn[w] <= upto'
      BY <2>1, <2>2, Zenon DEF StepFacts, WriterInv, Procs
    <3>2. CASE p = Closer
      BY <2>1, <3>1, <3>2, Zenon DEF StepFacts, CloseInv
    <3>3. CASE p # Closer
      BY <2>1, <3>1, <3>3, Zenon DEF StepFacts, CloseInv, InGate, Procs
    <3>4. QED
      BY <3>2, <3>3, Zenon
  <2>9. QED
    BY <2>1, <2>3, <2>5, <2>6, <2>7, <2>8, Zenon
<1>7. QED
  BY <1>2, <1>3, <1>5, <1>6, Zenon DEF Lock
=============================================================================
