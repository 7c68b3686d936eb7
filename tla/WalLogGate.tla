----------------------------- MODULE WalLogGate -----------------------------
(***************************************************************************)
(* The steps of WalLog taken behind the gate (flushMu) keep the inductive  *)
(* invariant: the write, the rotation, the fsync, and TrimTo.              *)
(***************************************************************************)
EXTENDS WalLogInvariant

(* Steps behind the gate.  Each action is checked against the files and    *)
(* counters; what the waiting writers and Close may rely on follows the    *)
(* same way for all of them, from the two lemmas below.                    *)

(* Nothing is in the drained buffer and the append buffer continues the file. *)
Drained ==
    /\ pending = <<>>
    /\ \A i \in 1 .. Len(buf) : buf[i] = writtenLSN + i
    /\ lastAppended = writtenLSN + Len(buf)

(* After a drain the buffers are in order. *)
LEMMA DrainedBuffer ==
    ASSUME TypeOK, Drained
    PROVE  BufferInv
<1>1. Len(pending) = 0 /\ writtenLSN \in Nat
  BY DEF Drained, TypeOK
<1>2. ASSUME NEW i \in 1 .. Len(buf)
      PROVE  buf[i] = writtenLSN + Len(pending) + i
  BY <1>1 DEF Drained
<1>3. lastAppended = writtenLSN + Len(pending) + Len(buf)
  BY <1>1, Lengths DEF Drained
<1>4. QED
  BY <1>1, <1>2, <1>3 DEF BufferInv, Drained

(* The common hypotheses of a step behind the gate. *)
DiskFacts ==
    /\ TypeOK' /\ CounterInv' /\ FileInv' /\ StableInv' /\ SegmentInv'
    /\ UNCHANGED <<lastAppended, closed, lsn>>
    /\ writtenLSN <= writtenLSN' /\ syncedLSN <= syncedLSN'
    /\ pending' = <<>>

(* A drain up to upto covers the holder's own LSN and, for Close, the LSN of *)
(* every writer still queued at the gate.                                    *)
LEMMA WaitersCovered ==
    ASSUME IInv, NEW p \in Procs, pc[p] \in InGate, DiskFacts, upto <= writtenLSN'
    PROVE  /\ p \in Writers => lsn[p] <= writtenLSN'
           /\ p = Closer => \A w \in Writers : pc[w] = "lock" => lsn[w] <= writtenLSN'
<1> USE DEF IInv
<1>1. /\ upto \in Nat /\ writtenLSN \in Nat /\ writtenLSN' \in Nat
      /\ writtenLSN <= writtenLSN' /\ \A w \in Writers : lsn[w] \in Nat
  BY DEF TypeOK, DiskFacts, Procs
<1>2. p \in Writers => lsn[p] <= upto \/ lsn[p] <= writtenLSN
  BY DEF WriterInv, InGate
<1>3. ASSUME p = Closer, NEW w \in Writers, pc[w] = "lock"
      PROVE  lsn[w] <= upto \/ lsn[w] <= writtenLSN
  BY <1>3, Zenon DEF CloseInv, InGate, TypeOK
<1>4. QED
  BY <1>1, <1>2, <1>3

(* Releasing the gate preserves the invariant, given the files are in order. *)
LEMMA ReturnInside ==
    ASSUME IInv, NEW p \in Procs, NEW ok \in BOOLEAN, pc[p] \in InGate,
           ReturnFacts(p, ok), flushMu' = Nobody, DiskFacts,
           open' => Drained',
           p # Closer /\ Usable => open',
           upto <= writtenLSN' \/ (~ok /\ ~Usable),
           Policy = "always" /\ ok /\ call[p] = "sync" => lsn[p] <= syncedLSN'
    PROVE  IInv'
<1> USE DEF IInv
<1>1. /\ GateInv' /\ (Usable' <=> open')
      /\ \A q \in Procs : pc'[q] \notin InGate
  BY ReleaseGate
<1>2. BufferInv' /\ HolderInv'
  <2>1. BufferInv'
    <3>1. CASE open'
      BY <3>1, DrainedBuffer, PTL DEF DiskFacts
    <3>2. CASE ~open'
      BY <1>1, <3>2 DEF BufferInv, DiskFacts
    <3>3. QED
      BY <3>1, <3>2
  <2>2. QED
    BY <1>1, <2>1 DEF HolderInv, InGate
<1>3. /\ lsn' = lsn /\ lastAppended' = lastAppended /\ closed' = closed
      /\ syncedLSN \in Nat /\ syncedLSN' \in Nat /\ syncedLSN <= syncedLSN'
      /\ writtenLSN \in Nat /\ writtenLSN' \in Nat /\ writtenLSN <= writtenLSN'
      /\ lsn \in [Procs -> Nat] /\ acked \subseteq Nat
  BY Zenon DEF DiskFacts, TypeOK
<1>4. p \in Writers /\ ok => lsn[p] <= writtenLSN'
  BY WaitersCovered
<1>5. WriterInv'
  <2>1. ASSUME NEW w \in Writers, w # p PROVE pc'[w] = pc[w] /\ call'[w] = call[w]
    BY <2>1 DEF ReturnFacts, Procs
  <2>2. ASSUME NEW w \in Writers, call[w] = "finish", Policy = "always"
        PROVE  lsn[w] <= syncedLSN'
    <3>1. lsn[w] <= syncedLSN /\ lsn[w] \in Nat
      BY <1>3, <2>2 DEF WriterInv, Procs
    <3>2. QED
      BY <1>3, <3>1
  <2>3. ASSUME p \in Writers
        PROVE  /\ StartLSN < lsn[p] /\ lsn[p] <= lastAppended
               /\ Policy = "always" /\ call'[p] = "finish" => lsn[p] <= syncedLSN'
    BY <2>3 DEF WriterInv, ReturnFacts, InGate
  <2>4. QED
    BY <1>1, <1>3, <2>1, <2>2, <2>3 DEF WriterInv, InGate, Procs
<1>6. CloseInv'
  <2>1. \A w \in Writers : pc'[w] = "lock" => pc[w] = "lock" /\ lsn[w] \in Nat
    BY <1>3 DEF ReturnFacts, Procs
  <2>2. CASE p = Closer
    <3>1. closed /\ pc'[Closer] = "idle" /\ Usable
      BY <2>2, ConstantsAssumption DEF CloseInv, ReturnFacts, InGate, TypeOK
    <3>2. \A w \in Writers : pc[w] = "lock" => lsn[w] <= writtenLSN'
      BY <2>2, <3>1, WaitersCovered
    <3>3. QED
      BY <1>3, <2>1, <3>1, <3>2 DEF CloseInv
  <2>3. CASE p # Closer
    <3>1. pc'[Closer] = pc[Closer] /\ pc[Closer] # "write"
      BY <1>1, <2>3 DEF ReturnFacts, Procs, InGate
    <3>2. ASSUME closed, pc[Closer] # "lock", NEW w \in Writers, pc'[w] = "lock"
          PROVE  lsn[w] <= writtenLSN'
      <4>1. lsn[w] <= writtenLSN /\ lsn[w] \in Nat
        BY <2>1, <3>1, <3>2, Zenon DEF CloseInv
      <4>2. QED
        BY <1>3, <4>1
    <3>3. QED
      BY <1>1, <1>3, <2>3, <3>1, <3>2 DEF CloseInv
  <2>4. QED
    BY <2>2, <2>3
<1>7. AckInv'
  <2>1. ASSUME NEW l \in acked
        PROVE  /\ StartLSN < l /\ l <= writtenLSN'
               /\ Policy = "always" => l <= syncedLSN'
    BY <1>3 DEF AckInv
  <2>2. ASSUME ok, p \in Writers, call[p] = "finish"
        PROVE  /\ StartLSN < lsn[p] /\ lsn[p] <= writtenLSN'
               /\ Policy = "always" => lsn[p] <= syncedLSN'
    BY <1>3, <1>4, <2>2 DEF WriterInv, InGate, Procs
  <2>3. QED
    BY <2>1, <2>2, Zenon DEF AckInv, ReturnFacts
<1>8. QED
  BY <1>1, <1>2, <1>5, <1>6, <1>7 DEF DiskFacts

(* Moving on behind the gate preserves it, given the files are in order. *)
LEMMA StepInside ==
    ASSUME IInv, NEW p \in Procs, NEW where \in InGate \ {"write"}, pc[p] \in InGate,
           StepFacts(p, where), flushMu' = flushMu, DiskFacts, Drained', Usable',
           upto' = upto, upto = writtenLSN',
           where \in {"create", "header"} => syncedLSN' = writtenLSN' /\ ~open',
           where = "rotate" => open'
    PROVE  IInv'
<1> USE DEF IInv
<1>1. GateInv' /\ \A q \in Procs : q # p => pc'[q] \notin InGate
  BY KeepGate
<1>2. BufferInv'
  BY DrainedBuffer, PTL DEF DiskFacts
<1>3. HolderInv'
  BY <1>1, Zenon DEF HolderInv, StepFacts, InGate
<1>4. /\ lsn' = lsn /\ lastAppended' = lastAppended /\ closed' = closed
      /\ syncedLSN \in Nat /\ syncedLSN' \in Nat /\ syncedLSN <= syncedLSN'
      /\ writtenLSN \in Nat /\ writtenLSN' \in Nat /\ writtenLSN <= writtenLSN'
      /\ lsn \in [Procs -> Nat] /\ acked \subseteq Nat
  BY Zenon DEF DiskFacts, TypeOK
<1>5. /\ p \in Writers => lsn[p] <= writtenLSN'
      /\ p = Closer => \A w \in Writers : pc[w] = "lock" => lsn[w] <= writtenLSN'
  BY <1>4, WaitersCovered
<1>6. WriterInv'
  <2>1. ASSUME NEW w \in Writers, call[w] = "finish", Policy = "always"
        PROVE  lsn[w] <= syncedLSN'
    <3>1. lsn[w] <= syncedLSN /\ lsn[w] \in Nat
      BY <1>4, <2>1 DEF WriterInv, Procs
    <3>2. QED
      BY <1>4, <3>1
  <2>2. QED
    BY <1>1, <1>4, <1>5, <2>1 DEF WriterInv, StepFacts, InGate, Procs
<1>7. CloseInv'
  <2>1. \A w \in Writers : pc'[w] = "lock" => pc[w] = "lock" /\ lsn[w] \in Nat
    BY <1>4, Zenon DEF StepFacts, Procs, InGate
  <2>2. CASE p = Closer
    BY <1>4, <1>5, <2>1, <2>2, Zenon DEF CloseInv, StepFacts, InGate, TypeOK
  <2>3. CASE p # Closer
    <3>1. pc'[Closer] = pc[Closer] /\ pc[Closer] # "write"
      BY <1>1, <2>3 DEF StepFacts, Procs, InGate
    <3>2. ASSUME closed, pc[Closer] # "lock", NEW w \in Writers, pc'[w] = "lock"
          PROVE  lsn[w] <= writtenLSN'
      <4>1. lsn[w] <= writtenLSN /\ lsn[w] \in Nat
        BY <2>1, <3>1, <3>2 DEF CloseInv
      <4>2. QED
        BY <1>4, <4>1, SMTT(60)
    <3>3. QED
      BY <1>4, <3>1, <3>2, Zenon DEF CloseInv
  <2>4. QED
    BY <2>2, <2>3
<1>8. AckInv'
  <2>1. ASSUME NEW l \in acked
        PROVE  /\ StartLSN < l /\ l <= writtenLSN'
               /\ Policy = "always" => l <= syncedLSN'
    BY <1>4 DEF AckInv
  <2>2. QED
    BY <2>1 DEF AckInv, StepFacts
<1>9. QED
  BY <1>1, <1>2, <1>3, <1>6, <1>7, <1>8 DEF DiskFacts

(* Whoever is behind the gate after the write has nothing left to drain. *)
LEMMA InsideDrained ==
    ASSUME IInv, NEW p \in Procs, pc[p] \in InGate, pc[p] # "write"
    PROVE  /\ pending = <<>> /\ upto = writtenLSN
           /\ Usable => Drained
<1> USE DEF IInv
<1>1. pending = <<>>
  BY AloneInGate DEF BufferInv, InGate
<1>2. upto = writtenLSN
  BY DEF HolderInv, InGate
<1>3. ASSUME Usable PROVE Drained
  <2>1. Len(pending) = 0 /\ writtenLSN \in Nat
    BY <1>1 DEF TypeOK
  <2>2. ASSUME NEW i \in 1 .. Len(buf) PROVE buf[i] = writtenLSN + i
    BY <1>3, <2>1 DEF BufferInv
  <2>3. lastAppended = writtenLSN + Len(buf)
    BY <1>3, <2>1, Lengths, SMTT(60) DEF BufferInv
  <2>4. QED
    BY <1>1, <2>2, <2>3 DEF Drained
<1>4. QED
  BY <1>1, <1>2, <1>3

(* How drainLocked ends, for both of its callers. *)
LEMMA AfterDrainStep ==
    ASSUME IInv, NEW p \in Procs, pc[p] \in InGate, AfterDrain(p), DiskFacts,
           Drained', open', upto' = upto, upto = writtenLSN'
    PROVE  IInv'
<1> USE DEF IInv
<1>1. CASE call[p] \in SyncCalls
  <2>1. StepFacts(p, "fsync") /\ flushMu' = flushMu
    BY <1>1, StepEffect DEF AfterDrain, PCs, InGate
  <2>2. Usable'
    BY Zenon DEF Usable
  <2>3. QED
    BY <2>1, <2>2, StepInside DEF InGate
<1>2. CASE call[p] \notin SyncCalls
  <2>1. ReturnFacts(p, TRUE) /\ flushMu' = Nobody /\ call[p] # "sync"
    BY <1>2, ReturnEffect, Zenon DEF AfterDrain, SyncCalls
  <2>2. upto <= writtenLSN'
    BY DEF DiskFacts, TypeOK
  <2>3. QED
    BY <2>1, <2>2, ReturnInside, Zenon
<1>3. QED
  BY <1>1, <1>2

(* The write of drainLocked preserves it: file and buffer join end to end. *)
LEMMA WriteOKStep ==
    ASSUME IInv, NEW p \in Procs, WriteOK(p)
    PROVE  IInv'
<1> USE DEF IInv
<1>1. /\ pc[p] = "write" /\ open /\ file' = file \o pending /\ pending' = <<>>
      /\ segLen' = segLen + Len(pending) /\ writtenLSN' = upto
      /\ UNCHANGED <<buf, nextLSN, lastAppended, syncedLSN, upto, durable, base,
                     segs, open, fatal, closed, lsn, snapLSN, covered>>
  BY DEF WriteOK, logVars, snapVars
<1>2. /\ Usable /\ pc[p] \in InGate
      /\ upto = writtenLSN + Len(pending)
      /\ lastAppended = writtenLSN + Len(pending) + Len(buf)
      /\ \A i \in 1 .. Len(pending) : pending[i] = writtenLSN + i
      /\ \A i \in 1 .. Len(buf) : buf[i] = writtenLSN + Len(pending) + i
  BY <1>1, Zenon DEF Usable, HolderInv, BufferInv, InGate
<1>3. /\ file' \in Seq(Nat \cup {Torn}) /\ Len(file') = Len(file) + Len(pending)
      /\ \A i \in 1 .. Len(file) : file'[i] = file[i]
      /\ \A i \in 1 .. Len(pending) : file'[Len(file) + i] = pending[i]
  <2>1. pending \in Seq(Nat \cup {Torn}) /\ file \in Seq(Nat \cup {Torn})
    BY SeqMonotonic, Zenon DEF TypeOK
  <2>2. QED
    BY <1>1, <2>1, ConcatProperties, Lengths
<1>4. pc' \in [Procs -> PCs] /\ call' \in [Procs -> Calls] /\ acked' \subseteq Nat
      /\ flushMu' \in Procs \cup {Nobody}
  <2>1. CASE Step(p, "rotate") /\ UNCHANGED flushMu
    BY <2>1, StepEffect, Zenon DEF StepFacts, TypeOK, PCs, InGate
  <2>2. CASE Step(p, "fsync") /\ UNCHANGED flushMu
    BY <2>2, StepEffect, Zenon DEF StepFacts, TypeOK, PCs, InGate
  <2>3. CASE Return(p, TRUE) /\ flushMu' = Nobody
    BY <2>3, ReturnEffect, Zenon DEF ReturnFacts
  <2>4. QED
    BY <2>1, <2>2, <2>3, Zenon DEF WriteOK, AfterDrain
<1>5. DiskFacts
  <2>0. /\ writtenLSN \in Nat /\ writtenLSN' \in Nat /\ segLen' \in Nat
        /\ pending' \in Seq(Nat) /\ writtenLSN <= writtenLSN'
    BY SMTT(40), <1>1, <1>2, Lengths, EmptySeq DEF TypeOK
  <2>1. TypeOK'
    BY <1>1, <1>3, <1>4, <2>0, Zenon DEF TypeOK
  <2>2. CounterInv'
    <3>1. writtenLSN' = StartLSN + Len(file') /\ writtenLSN' <= lastAppended
      BY <1>1, <1>2, <1>3, <2>0, Lengths, ConstantsAssumption DEF CounterInv
    <3>2. syncedLSN <= writtenLSN'
      BY <2>0 DEF CounterInv, TypeOK
    <3>3. QED
      BY <1>1, <3>1, <3>2 DEF CounterInv
  <2>3. FileInv'
    <3>1. ASSUME NEW i \in 1 .. Len(file') PROVE file'[i] = StartLSN + i
      <4>1. CASE i \in 1 .. Len(file)
        BY <1>3, <4>1 DEF FileInv
      <4>2. CASE i \notin 1 .. Len(file)
        <5>1. i - Len(file) \in 1 .. Len(pending) /\ i = Len(file) + (i - Len(file))
          BY <1>3, <3>1, <4>2, Lengths
        <5>2. file'[i] = writtenLSN + (i - Len(file))
          BY <1>2, <1>3, <5>1, Zenon
        <5>3. QED
          BY <5>1, <5>2, Lengths, ConstantsAssumption DEF CounterInv
      <4>3. QED
        BY <4>1, <4>2
    <3>2. QED
      BY <3>1 DEF FileInv
  <2>4. StableInv'
    <3>1. ASSUME NEW q \in 1 .. Len(file'), StartLSN + q <= syncedLSN
          PROVE  q \in durable
      <4>1. q \in 1 .. Len(file)
        BY <1>3, <3>1, Lengths, ConstantsAssumption, SMTT(60) DEF CounterInv, TypeOK
      <4>2. QED
        BY <3>1, <4>1 DEF StableInv
    <3>2. QED
      BY <1>1, <3>1 DEF StableInv
  <2>5. SegmentInv'
    <3>1. ASSUME NEW i \in 1 .. Len(segs) PROVE segs[i].start \in 1 .. Len(file') + 1
      <4>1. segs[i].start \in 1 .. Len(file) + 1
        BY DEF SegmentInv
      <4>2. QED
        BY <1>3, <4>1, Lengths
    <3>2. QED
      BY <1>1, <3>1, Zenon DEF SegmentInv
  <2>6. QED
    BY SMTT(40), <1>1, <2>0, <2>1, <2>2, <2>3, <2>4, <2>5 DEF DiskFacts, TypeOK
<1>6. Drained'
  BY <1>1, <1>2, Lengths, Zenon DEF Drained, TypeOK
<1>7. CASE Step(p, "rotate") /\ UNCHANGED flushMu
  <2>1. StepFacts(p, "rotate")
    BY <1>7, StepEffect, Zenon DEF PCs, InGate
  <2>2. Usable'
    BY <1>1, Zenon DEF Usable
  <2>3. QED
    BY <1>1, <1>2, <1>5, <1>6, <1>7, <2>1, <2>2, StepInside, Zenon DEF InGate
<1>8. CASE AfterDrain(p)
  BY <1>1, <1>2, <1>5, <1>6, <1>8, AfterDrainStep, Zenon
<1>9. QED
  BY <1>7, <1>8 DEF WriteOK

(* Without write faults a write fails only on the file Close has closed. *)
LEMMA WriteFailsStep ==
    ASSUME NoLoss, IInv, NEW p \in Procs, WriteFails(p)
    PROVE  IInv'
<1> USE DEF IInv
<1>1. /\ pc[p] = "write" /\ ~open /\ pending' = <<>> /\ fatal' = TRUE
      /\ open' = (open /\ call[p] # "close") /\ flushMu' = Nobody
      /\ UNCHANGED <<buf, nextLSN, lastAppended, writtenLSN, syncedLSN, upto, durable,
                     base, segs, segLen, closed, lsn, snapLSN, covered>>
  BY DEF WriteFails, NoLoss, logVars, snapVars
<1>2. ReturnFacts(p, FALSE)
  BY ReturnEffect, Zenon DEF WriteFails
<1>3. file' = file
  <2>1. file' = file \o SubSeq(pending, 1, 0) \o <<>>
    BY <1>1 DEF WriteFails
  <2>2. SubSeq(pending, 1, 0) = <<>>
    BY SubSeqProperties, Lengths DEF TypeOK
  <2>3. QED
    BY <2>1, <2>2 DEF TypeOK
<1>4. DiskFacts
  <2>1. TypeOK'
    BY <1>1, <1>2, <1>3, EmptySeq, Zenon DEF TypeOK, ReturnFacts
  <2>2. FileInv' /\ StableInv' /\ SegmentInv'
    BY <1>1, <1>3, DiskFrame
  <2>3. CounterInv'
    BY <1>1, <1>3, Zenon DEF CounterInv
  <2>4. QED
    BY <1>1, <2>1, <2>2, <2>3, SMTT(60) DEF DiskFacts, TypeOK
<1>5. pc[p] \in InGate /\ ~Usable
  BY <1>1, AloneInGate DEF InGate
<1>6. QED
  BY <1>1, <1>2, <1>4, <1>5, ReturnInside, Zenon

(* The fields of a segment, and the positions an fsync covers, are numbers. *)
LEMMA SegmentFields ==
    ASSUME TypeOK
    PROVE  /\ \A i \in 1 .. Len(segs) :
                 /\ segs[i] \in [first : Nat, start : Nat, header : BOOLEAN]
                 /\ segs[i].first \in Nat /\ segs[i].start \in Nat
           /\ CurrentSegment \subseteq Nat
<1>1. ASSUME NEW i \in 1 .. Len(segs)
      PROVE  segs[i] \in [first : Nat, start : Nat, header : BOOLEAN]
  BY ElementOfSeq, Zenon DEF TypeOK
<1>2. ASSUME NEW i \in 1 .. Len(segs)
      PROVE  segs[i].first \in Nat /\ segs[i].start \in Nat
  BY <1>1
<1>3. segs[Len(segs)].start \in Nat
  BY <1>2, Lengths
<1>4. CurrentSegment \subseteq Nat
  BY <1>3, Lengths DEF CurrentSegment
<1>5. QED
  BY <1>1, <1>2, <1>4

(* An fsync covers its own segment; the earlier ones were already covered. *)
LEMMA FsyncCoversAll ==
    ASSUME TypeOK, StableInv, SegmentInv, NEW q \in 1 .. Len(file)
    PROVE  q \in durable \cup CurrentSegment
<1>1. segs[Len(segs)].start \in Nat
  BY Lengths, SegmentFields
<1>2. CASE q < segs[Len(segs)].start
  BY <1>1, <1>2, Lengths DEF StableInv
<1>3. CASE ~(q < segs[Len(segs)].start)
  BY <1>1, <1>3, Lengths, SMTT(60) DEF CurrentSegment
<1>4. QED
  BY <1>2, <1>3

(* The fsync and close of rotateLocked preserve it. *)
LEMMA RotateStep ==
    ASSUME IInv, NEW p \in Procs, Rotate(p)
    PROVE  IInv'
<1> USE DEF IInv
<1>1. /\ pc[p] = "rotate" /\ durable' = durable \cup CurrentSegment
      /\ syncedLSN' = writtenLSN /\ open' = FALSE
      /\ UNCHANGED <<buf, nextLSN, lastAppended, writtenLSN, flushMu, pending, upto, file,
                     base, segs, segLen, fatal, closed, lsn, snapLSN, covered>>
  BY DEF Rotate, logVars, gateVars, snapVars
<1>2. StepFacts(p, "create") /\ pc[p] \in InGate /\ Usable
  BY <1>1, StepEffect DEF Rotate, PCs, InGate, HolderInv, Usable
<1>3. /\ pending = <<>> /\ upto = writtenLSN /\ Drained
  BY <1>1, <1>2, InsideDrained, SMTT(60)
<1>4. DiskFacts
  <2>1. CurrentSegment \subseteq Nat
    BY SegmentFields, Zenon
  <2>2. TypeOK'
    BY <1>1, <1>2, <2>1, Zenon DEF TypeOK, StepFacts
  <2>3. CounterInv' /\ syncedLSN <= syncedLSN'
    BY SMTT(40), <1>1, Lengths, ConstantsAssumption DEF CounterInv, TypeOK
  <2>4. FileInv' /\ SegmentInv'
    BY <1>1, Zenon DEF FileInv, SegmentInv
  <2>5. StableInv'
    BY <1>1, FsyncCoversAll DEF StableInv
  <2>6. QED
    BY SMTT(40), <1>1, <1>3, <2>2, <2>3, <2>4, <2>5 DEF DiskFacts, TypeOK
<1>5. Drained' /\ Usable'
  BY <1>1, <1>2, <1>3, Zenon DEF Drained, Usable, StepFacts
<1>6. QED
  BY <1>1, <1>2, <1>3, <1>4, <1>5, StepInside DEF InGate

(* Creating the next segment preserves it: its name is the next LSN. *)
LEMMA CreateStep ==
    ASSUME IInv, NEW p \in Procs, Create(p)
    PROVE  IInv'
<1> USE DEF IInv
<1> DEFINE new == [first |-> upto + 1, start |-> Len(file) + 1, header |-> FALSE]
<1>1. /\ pc[p] = "create" /\ segs' = Append(segs, new)
      /\ UNCHANGED <<buf, nextLSN, lastAppended, writtenLSN, syncedLSN, flushMu,
                     pending, upto, file, durable, base, segLen, open, fatal, closed,
                     lsn, snapLSN, covered>>
  BY DEF Create, logVars, gateVars, snapVars
<1>2. StepFacts(p, "header") /\ pc[p] \in InGate /\ Usable
  BY <1>1, StepEffect, Zenon DEF Create, PCs, InGate, Usable
<1>3. /\ pending = <<>> /\ upto = writtenLSN /\ Drained
      /\ syncedLSN = writtenLSN /\ ~open
  BY <1>1, <1>2, InsideDrained, SMTT(60) DEF HolderInv
<1>4. /\ new \in [first : Nat, start : Nat, header : BOOLEAN]
      /\ new.first = StartLSN + new.start /\ new.start = Len(file) + 1
  BY SMTT(40), <1>3, Lengths, ConstantsAssumption DEF TypeOK, CounterInv
<1> HIDE DEF new
<1>5. /\ segs' \in Seq([first : Nat, start : Nat, header : BOOLEAN]) /\ segs' # <<>>
      /\ Len(segs') = Len(segs) + 1 /\ segs'[Len(segs) + 1] = new
      /\ \A i \in 1 .. Len(segs) : segs'[i] = segs[i]
  <2>1. /\ segs' \in Seq([first : Nat, start : Nat, header : BOOLEAN])
        /\ Len(segs') = Len(segs) + 1 /\ segs'[Len(segs) + 1] = new
        /\ \A i \in 1 .. Len(segs) : segs'[i] = segs[i]
    BY <1>1, <1>4, AppendProperties, SMTT(60) DEF TypeOK
  <2>2. QED
    BY <2>1, Lengths, EmptySeq
<1>6. DiskFacts
  <2>1. TypeOK'
    BY <1>1, <1>2, <1>5, Zenon DEF TypeOK, StepFacts
  <2>2. CounterInv' /\ FileInv'
    BY <1>1 DEF CounterInv, FileInv
  <2>3. \A q \in 1 .. Len(file) : q \in durable
    <3>1. syncedLSN = StartLSN + Len(file)
      BY <1>3, Zenon DEF CounterInv
    <3>2. \A q \in 1 .. Len(file) : StartLSN + q <= syncedLSN => q \in durable
      BY Zenon DEF StableInv
    <3>3. Len(file) \in Nat
      BY Lengths, Zenon
    <3>4. ASSUME NEW q \in 1 .. Len(file) PROVE StartLSN + q <= syncedLSN
      <4> DEFINE n == Len(file)
      <4>1. n \in Nat /\ q \in 1 .. n /\ syncedLSN = StartLSN + n /\ StartLSN \in Nat
        BY <3>1, <3>3, ConstantsAssumption, Zenon
      <4> HIDE DEF n
      <4>2. QED
        BY <4>1
    <3>5. QED
      BY <3>2, <3>4, Zenon
  <2>4. StableInv'
    BY <1>1, <1>4, <1>5, <2>3, Lengths, SMTT(60) DEF StableInv
  <2>5. SegmentInv'
    <3>1. ASSUME NEW i \in 1 .. Len(segs')
          PROVE  /\ segs'[i].first = StartLSN + segs'[i].start
                 /\ segs'[i].start \in 1 .. Len(file) + 1
      <4>1. CASE i \in 1 .. Len(segs)
        BY <1>5, <4>1, Zenon DEF SegmentInv
      <4>2. CASE i = Len(segs) + 1
        BY <1>4, <1>5, <4>2, Lengths, SMTT(60)
      <4>3. QED
        BY <1>5, <3>1, <4>1, <4>2, Lengths, SMTT(60)
    <3>2. segs'[1] = segs[1]
      BY <1>5, Lengths
    <3>3. QED
      BY <1>1, <3>1, <3>2 DEF SegmentInv
  <2>6. writtenLSN \in Nat /\ syncedLSN \in Nat
    BY Zenon DEF TypeOK
  <2>7. QED
    BY SMTT(40), <1>1, <1>3, <2>1, <2>2, <2>4, <2>5, <2>6 DEF DiskFacts
<1>7. Drained' /\ Usable'
  BY <1>1, <1>2, <1>3 DEF Drained, Usable, StepFacts
<1>8. QED
  BY <1>1, <1>2, <1>3, <1>6, <1>7, StepInside, Zenon DEF InGate

(* Replacing the last segment's entry changes nothing else. *)
LEMMA ReplaceLast ==
    ASSUME NEW S, NEW s \in Seq(S), Len(s) \in Nat \ {0}, NEW e \in S,
           NEW t, t = [s EXCEPT ![Len(s)] = e]
    PROVE  /\ t \in Seq(S) /\ Len(t) = Len(s)
           /\ \A i \in 1 .. Len(s) : t[i] = IF i = Len(s) THEN e ELSE s[i]
<1>1. Len(s) \in 1 .. Len(s)
  OBVIOUS
<1>2. QED
  BY <1>1, ExceptSeq

(* Completing openSegment preserves it. *)
LEMMA HeaderStep ==
    ASSUME IInv, NEW p \in Procs, Header(p)
    PROVE  IInv'
<1> USE DEF IInv
<1>1. /\ pc[p] = "header" /\ segs' = [segs EXCEPT ![Len(segs)].header = TRUE]
      /\ segLen' = 0 /\ open' = TRUE /\ AfterDrain(p)
      /\ UNCHANGED <<buf, nextLSN, lastAppended, writtenLSN, syncedLSN, pending, upto,
                     file, durable, base, fatal, closed, lsn, snapLSN, covered>>
  BY DEF Header, logVars, gateVars, snapVars
<1>2. pc[p] \in InGate /\ Usable
  BY <1>1 DEF InGate, Usable
<1>3. pending = <<>> /\ upto = writtenLSN /\ Drained
  BY <1>1, <1>2, InsideDrained, Zenon
<1>4. /\ segs' \in Seq([first : Nat, start : Nat, header : BOOLEAN])
      /\ Len(segs') = Len(segs) /\ segs' # <<>>
      /\ \A i \in 1 .. Len(segs) : segs'[i].first = segs[i].first /\ segs'[i].start = segs[i].start
  <2> DEFINE last == [segs[Len(segs)] EXCEPT !.header = TRUE]
  <2>1. segs[Len(segs)] \in [first : Nat, start : Nat, header : BOOLEAN]
    BY SegmentFields, Lengths
  <2>2. /\ last \in [first : Nat, start : Nat, header : BOOLEAN]
        /\ last.first = segs[Len(segs)].first /\ last.start = segs[Len(segs)].start
    BY <2>1, Zenon
  <2>3. segs' = [segs EXCEPT ![Len(segs)] = last]
    BY <1>1
  <2> HIDE DEF last
  <2>4. /\ segs' \in Seq([first : Nat, start : Nat, header : BOOLEAN])
        /\ Len(segs') = Len(segs)
        /\ \A i \in 1 .. Len(segs) : segs'[i] = IF i = Len(segs) THEN last ELSE segs[i]
    <3>1. segs \in Seq([first : Nat, start : Nat, header : BOOLEAN]) /\ Len(segs) \in Nat \ {0}
      BY Lengths DEF TypeOK
    <3>2. QED
      BY <2>2, <2>3, <3>1, ReplaceLast
  <2>5. segs' # <<>>
    BY <2>4, Lengths, EmptySeq
  <2>6. QED
    BY <2>2, <2>4, <2>5, Zenon
<1>5. pc' \in [Procs -> PCs] /\ call' \in [Procs -> Calls] /\ acked' \subseteq Nat
      /\ flushMu' \in Procs \cup {Nobody}
  <2>1. CASE Step(p, "fsync") /\ UNCHANGED flushMu
    BY <2>1, StepEffect, Zenon DEF StepFacts, TypeOK, PCs, InGate
  <2>2. CASE Return(p, TRUE) /\ flushMu' = Nobody
    BY <2>2, ReturnEffect, Zenon DEF ReturnFacts
  <2>3. QED
    BY <1>1, <2>1, <2>2, Zenon DEF AfterDrain
<1>6. DiskFacts
  <2>1. TypeOK'
    BY <1>1, <1>4, <1>5, Zenon DEF TypeOK
  <2>2. CounterInv' /\ FileInv'
    BY <1>1 DEF CounterInv, FileInv
  <2>3. StableInv' /\ SegmentInv'
    <3>1. segs'[1].start = segs[1].start /\ segs'[Len(segs')].start = segs[Len(segs)].start
      BY <1>4, Lengths
    <3>2. StableInv'
      BY <1>1, <3>1 DEF StableInv
    <3>3. SegmentInv'
      BY <1>1, <1>4, <3>1, Zenon DEF SegmentInv
    <3>4. QED
      BY <3>2, <3>3
  <2>4. writtenLSN \in Nat /\ syncedLSN \in Nat
    BY DEF TypeOK
  <2>5. QED
    BY <1>1, <1>3, <2>1, <2>2, <2>3, <2>4 DEF DiskFacts
<1>7. Drained'
  BY <1>1, <1>3 DEF Drained
<1>8. QED
  BY <1>1, <1>2, <1>3, <1>6, <1>7, AfterDrainStep

(* The failures that leave the files as they were. *)
LEMMA FailedInside ==
    ASSUME IInv, NEW p \in Procs, pc[p] \in {"rotate", "fsync"},
           open' = (open /\ call[p] # "close"), flushMu' = Nobody, Return(p, FALSE),
           fatal' \in BOOLEAN,
           UNCHANGED <<logVars, writtenLSN, syncedLSN, gateVars, file, durable,
                       base, segs, segLen, closed, lsn, snapVars>>
    PROVE  IInv'
<1> USE DEF IInv, logVars, gateVars, snapVars
<1>1. ReturnFacts(p, FALSE)
  BY ReturnEffect, Zenon
<1>2. /\ pc[p] \in InGate /\ pending = <<>> /\ upto = writtenLSN
      /\ (Usable => Drained) /\ (Usable <=> open)
  BY InsideDrained, AloneInGate, SMTT(60) DEF InGate
<1>3. DiskFacts
  <2>1. TypeOK'
    BY <1>1, Zenon DEF TypeOK, ReturnFacts
  <2>2. CounterInv' /\ FileInv' /\ StableInv' /\ SegmentInv'
    BY DiskFrame, Zenon DEF CounterInv
  <2>3. QED
    BY SMTT(40), <1>2, <2>1, <2>2 DEF DiskFacts, TypeOK
<1>4. open' => Drained'
  BY <1>2, Zenon DEF Drained
<1>5. p # Closer /\ Usable => open'
  BY <1>2, Zenon DEF GateInv, Procs
<1>6. upto <= writtenLSN'
  BY <1>2, SMTT(60) DEF TypeOK
<1>7. QED
  BY <1>1, <1>2, <1>3, <1>4, <1>5, <1>6, ReturnInside, Zenon

(* A failed rotation preserves it. *)
LEMMA RotationFailsStep ==
    ASSUME NoLoss, IInv, NEW p \in Procs, RotationFails(p)
    PROVE  IInv'
BY FailedInside, Zenon DEF RotationFails, NoLoss, IInv, TypeOK

(* A failed fsync preserves it. *)
LEMMA FsyncFailsStep ==
    ASSUME IInv, NEW p \in Procs, FsyncFails(p)
    PROVE  IInv'
BY FailedInside, Zenon DEF FsyncFails

(* The fsync of syncLocked and Close preserves it: all up to upto is stable. *)
LEMMA FsyncOKStep ==
    ASSUME IInv, NEW p \in Procs, FsyncOK(p)
    PROVE  IInv'
<1> USE DEF IInv
<1>1. /\ pc[p] = "fsync" /\ open' = (open /\ call[p] # "close") /\ flushMu' = Nobody
      /\ UNCHANGED <<buf, nextLSN, lastAppended, writtenLSN, pending, upto, file, base,
                     segs, segLen, fatal, closed, lsn, snapLSN, covered>>
  BY Zenon DEF FsyncOK, logVars, gateVars, snapVars
<1>2. ReturnFacts(p, TRUE)
  BY ReturnEffect, Zenon DEF FsyncOK
<1>3. /\ pc[p] \in InGate /\ pending = <<>> /\ upto = writtenLSN
      /\ (Usable => Drained) /\ (Usable <=> open)
  BY <1>1, InsideDrained, AloneInGate, Zenon DEF InGate
<1>4. \/ AlreadySynced(p) /\ syncedLSN >= upto /\ UNCHANGED <<durable, syncedLSN>>
      \/ durable' = durable \cup CurrentSegment /\ syncedLSN' = upto
  BY Zenon DEF FsyncOK, AlreadySynced
<1>5. syncedLSN' = writtenLSN /\ syncedLSN <= syncedLSN'
  BY <1>3, <1>4, SMTT(60) DEF CounterInv, TypeOK
<1>6. DiskFacts
  <2>1. durable' \subseteq Nat
    BY <1>4, SegmentFields, Zenon DEF TypeOK
  <2>2. TypeOK'
    BY <1>1, <1>2, <1>5, <2>1, Zenon DEF TypeOK, ReturnFacts
  <2>3. CounterInv'
    <3>1. StartLSN <= writtenLSN /\ writtenLSN <= writtenLSN
      BY Lengths, ConstantsAssumption, SMTT(60) DEF CounterInv, TypeOK
    <3>2. QED
      BY <1>1, <1>5, <3>1, Zenon DEF CounterInv
  <2>4. FileInv' /\ SegmentInv'
    BY <1>1, Zenon DEF FileInv, SegmentInv
  <2>5. StableInv'
    <3>1. CASE UNCHANGED <<durable, syncedLSN>>
      BY <1>1, <3>1, Zenon DEF StableInv
    <3>2. CASE durable' = durable \cup CurrentSegment
      BY <1>1, <3>2, FsyncCoversAll, Zenon DEF StableInv
    <3>3. QED
      BY <1>4, <3>1, <3>2, Zenon
  <2>6. QED
    <3>1. writtenLSN <= writtenLSN'
      BY <1>1, SMTT(60) DEF TypeOK
    <3>2. QED
      BY <1>1, <1>3, <1>5, <2>2, <2>3, <2>4, <2>5, <3>1, Zenon DEF DiskFacts
<1>7. open' => Drained'
  BY <1>1, <1>3, Zenon DEF Drained
<1>8. p # Closer /\ Usable => open'
  BY <1>1, <1>3, Zenon DEF GateInv, Procs
<1>9. upto <= writtenLSN' /\ (p \in Writers => lsn[p] <= syncedLSN')
  BY SMTT(40), <1>1, <1>3, <1>5 DEF TypeOK, WriterInv
<1>10. call[p] = "sync" => p \in Writers
  BY DEF GateInv, Procs
<1>11. QED
  BY <1>1, <1>2, <1>3, <1>6, <1>7, <1>8, <1>9, <1>10, ReturnInside, Zenon

(* TrimTo preserves it: what it removes is covered by the snapshot. *)
LEMMA TrimToStep ==
    ASSUME IInv, TrimTo
    PROVE  IInv'
<1> USE DEF IInv
<1>1. /\ snapLSN # -1 /\ covered' = snapLSN /\ snapLSN' = -1
      /\ UNCHANGED <<buf, nextLSN, lastAppended, writtenLSN, syncedLSN, flushMu, pending,
                     upto, file, durable, segLen, open, fatal, closed, pc, call, lsn, acked>>
  BY Zenon DEF TrimTo, logVars, gateVars
<1>2. PICK n \in 0 .. Len(segs) - 1 :
          /\ \A i \in 1 .. n : Removable(i, snapLSN)
          /\ segs' = SubSeq(segs, n + 1, Len(segs))
          /\ base' = segs[n + 1].start - 1
  BY Zenon DEF TrimTo
<1>3. /\ n \in Nat /\ n + 1 \in 1 .. Len(segs) /\ Len(segs) \in Nat \ {0}
  BY <1>2, Lengths, SMTT(60)
<1>4. /\ segs' \in Seq([first : Nat, start : Nat, header : BOOLEAN])
      /\ Len(segs') = Len(segs) - n
      /\ \A i \in 1 .. Len(segs) - n : segs'[i] = segs[n + i]
  <2>1. \A i \in n + 1 .. Len(segs) :
            segs[i] \in [first : Nat, start : Nat, header : BOOLEAN]
    BY <1>3, SegmentFields
  <2>2. QED
    BY <1>2, <1>3, <2>1, SubSeqProperties
<1>5. /\ segs'[1] = segs[n + 1] /\ segs'[Len(segs')] = segs[Len(segs)] /\ segs' # <<>>
  <2>1. /\ 1 \in 1 .. Len(segs) - n /\ Len(segs) - n \in 1 .. Len(segs) - n
        /\ n + (Len(segs) - n) = Len(segs) /\ Len(segs') # 0
    BY <1>3, <1>4
  <2>2. segs'[1] = segs[n + 1] /\ segs'[Len(segs) - n] = segs[n + (Len(segs) - n)]
    BY <1>4, <2>1, Zenon
  <2>3. QED
    BY <1>4, <2>1, <2>2, EmptySeq
<1>6. segs[n + 1].start \in 1 .. Len(file) + 1 /\ segs[n + 1].first = StartLSN + segs[n + 1].start
  BY <1>3 DEF SegmentInv
<1>7. base' \in Nat /\ snapLSN \in Nat
  <2>1. base' \in Nat
    BY <1>2, <1>6, Lengths, SMTT(60)
  <2>2. snapLSN \in Nat
    BY <1>1, Zenon DEF TypeOK
  <2>3. QED
    BY <2>1, <2>2
<1>8. TypeOK'
  BY <1>1, <1>4, <1>5, <1>7, Zenon DEF TypeOK
<1>9. CounterInv'
  BY <1>1 DEF CounterInv
<1>10. StartLSN + base' <= snapLSN
  <2>1. CASE n = 0
    <3>1. base' = base
      BY <1>2, <2>1 DEF SegmentInv
    <3>2. QED
      <4>1. StartLSN + base <= covered /\ covered <= snapLSN
        BY <1>1, Zenon DEF SegmentInv, CounterInv
      <4>2. base \in Nat /\ covered \in Nat
        BY Zenon DEF TypeOK
      <4>3. QED
        BY <1>7, <3>1, <4>1, <4>2, ConstantsAssumption, SMTT(60)
  <2>2. CASE n # 0
    <3>1. segs[n + 1].first <= snapLSN + 1
      BY <1>2, <1>3, <2>2, SMTT(60) DEF Removable
    <3>2. QED
      <4>1. segs[n + 1].start \in Nat /\ base' = segs[n + 1].start - 1
        BY <1>2, <1>6, Lengths, SMTT(60)
      <4>2. QED
        BY SMTT(40), <1>6, <1>7, <3>1, <4>1, ConstantsAssumption
  <2>3. QED
    BY <2>1, <2>2
<1>11. SegmentInv'
  <2>1. ASSUME NEW i \in 1 .. Len(segs')
        PROVE  /\ segs'[i].first = StartLSN + segs'[i].start
               /\ segs'[i].start \in 1 .. Len(file) + 1
    <3>1. i \in 1 .. Len(segs) - n /\ n + i \in 1 .. Len(segs)
      BY <1>3, <1>4
    <3>2. segs'[i] = segs[n + i]
      BY <1>4, <3>1, Zenon
    <3>3. QED
      BY <3>1, <3>2, Zenon DEF SegmentInv
  <2>2. QED
    BY <1>1, <1>2, <1>5, <1>10, <2>1, Zenon DEF SegmentInv
<1>12. FileInv' /\ StableInv'
  BY <1>1, <1>5, Zenon DEF FileInv, StableInv
<1>13. GateInv' /\ BufferInv' /\ HolderInv' /\ WriterInv' /\ CloseInv' /\ AckInv'
  BY <1>1, Zenon DEF GateInv, BufferInv, HolderInv, WriterInv, CloseInv, AckInv, Usable
<1>14. QED
  BY <1>8, <1>9, <1>11, <1>12, <1>13, Zenon
=============================================================================
