---------------------------- MODULE WalLogProofs ----------------------------
(***************************************************************************)
(* What WalLog guarantees, for any writers, buffer and segment size, any   *)
(* number of appends, and any interleaving, when writes and file creation  *)
(* do not fail (fsync may).                                                *)
(***************************************************************************)
EXTENDS WalLogGate

(* A freshly opened log satisfies the invariant. *)
LEMMA InitInv ==
    ASSUME Init
    PROVE  IInv
<1> DEFINE first == [first |-> StartLSN + 1, start |-> 1, header |-> TRUE]
<1> USE ConstantsAssumption DEF Init
<1>1. /\ segs = <<first>> /\ Len(segs) = 1 /\ segs[1] = first /\ segs # <<>>
      /\ segs \in Seq([first : Nat, start : Nat, header : BOOLEAN])
  OBVIOUS
<1>2. TypeOK
  <2>1. /\ buf \in Seq(Nat) /\ pending \in Seq(Nat) /\ file \in Seq(Nat \cup {Torn})
    BY EmptySeq
  <2>2. pc \in [Procs -> PCs] /\ call \in [Procs -> Calls] /\ lsn \in [Procs -> Nat]
    BY DEF PCs, Calls
  <2>3. /\ nextLSN \in Nat /\ lastAppended \in Nat
        /\ writtenLSN \in Nat /\ syncedLSN \in Nat /\ upto \in Nat
        /\ base \in Nat /\ segLen \in Nat /\ snapLSN \in Nat \cup {-1} /\ covered \in Nat
    OBVIOUS
  <2>4. /\ flushMu \in Procs \cup {Nobody} /\ durable \subseteq Nat /\ acked \subseteq Nat
    OBVIOUS
  <2>5. open \in BOOLEAN /\ fatal \in BOOLEAN /\ closed \in BOOLEAN
    BY Zenon
  <2> HIDE DEF Init, first
  <2>6. QED
    BY <1>1, <2>1, <2>2, <2>3, <2>4, <2>5 DEF TypeOK
<1>3. GateInv /\ CounterInv /\ FileInv
  BY DEF GateInv, CounterInv, FileInv, InGate, Procs
<1>4. StableInv /\ SegmentInv
  BY <1>1 DEF StableInv, SegmentInv
<1>5. BufferInv /\ HolderInv /\ WriterInv /\ CloseInv /\ AckInv
  BY DEF BufferInv, HolderInv, WriterInv, CloseInv, AckInv, Usable, Procs
<1>6. QED
  BY <1>2, <1>3, <1>4, <1>5 DEF IInv

(* The invariant depends on the variables of the log only. *)
LEMMA StutterInv ==
    ASSUME IInv, UNCHANGED vars
    PROVE  IInv'
<1> USE DEF IInv, vars, logVars, gateVars, diskVars, snapVars
<1>1. TypeOK'
  BY DEF TypeOK
<1>2. GateInv' /\ CounterInv' /\ WriterInv' /\ CloseInv' /\ AckInv'
  BY DEF GateInv, CounterInv, WriterInv, CloseInv, AckInv, Usable
<1>3. FileInv' /\ StableInv' /\ SegmentInv' /\ BufferInv' /\ HolderInv'
  BY DiskFrame DEF BufferInv, HolderInv, Usable
<1>4. QED
  BY <1>1, <1>2, <1>3

(* Every step of the log preserves the invariant. *)
LEMMA StepInv ==
    ASSUME NoLoss, IInv, [Next]_vars
    PROVE  IInv'
<1>1. CASE \E w \in Writers : BeginAppend(w) \/ AppendRecord(w)
  BY <1>1, BeginAppendStep, AppendRecordStep
<1>2. CASE \E what \in {"tickFlush", "tickSync"} : Tick(what)
  BY <1>2, TickStep
<1>3. CASE BeginClose \/ BeginSnapshot \/ TrimTo
  BY <1>3, BeginCloseStep, BeginSnapshotStep, TrimToStep
<1>4. ASSUME NEW p \in Procs, InCall(p)
      PROVE  IInv'
  BY <1>4, EnterStep, LockStep, WriteOKStep, WriteFailsStep, RotateStep, CreateStep,
     HeaderStep, RotationFailsStep, FsyncOKStep, FsyncFailsStep DEF InCall
<1>5. CASE UNCHANGED vars
  BY <1>5, StutterInv
<1>6. QED
  BY <1>1, <1>2, <1>3, <1>4, <1>5 DEF Next

(* The inductive invariant holds of every behaviour of the log. *)
THEOREM Invariance ==
    ASSUME NoLoss
    PROVE  Spec => []IInv
BY InitInv, StepInv, PTL DEF Spec

-----------------------------------------------------------------------------
(* From the invariant to the properties. *)

(* Replay does not refuse a directory whose sealed segments are all there: *)
(* their LSNs are consecutive and none of their records is torn.           *)
LEMMA SealedIsAccepted ==
    ASSUME IInv, NEW S, \A q \in 1 .. segs[Len(segs)].start - 1 : q \in S
    PROVE  Accepted(S)
<1> USE DEF IInv
<1> DEFINE last == segs[Len(segs)].start
<1>1. last \in 1 .. Len(file) + 1 /\ base \in Nat /\ Len(file) \in Nat
  <2>1. Len(segs) \in 1 .. Len(segs)
    BY DEF TypeOK
  <2>2. QED
    BY <2>1, Lengths, Zenon DEF TypeOK, SegmentInv
<1>2. ASSUME NEW q \in base + 1 .. last - 1
      PROVE  Whole(S, q)
  <2>1. q \in 1 .. last - 1 /\ q \in 1 .. Len(file)
    BY <1>1
  <2>2. file[q] = StartLSN + q
    BY <2>1 DEF FileInv
  <2>3. ASSUME q > base + 1 PROVE file[q - 1] = StartLSN + (q - 1)
    <3>1. q - 1 \in 1 .. Len(file)
      BY <1>1, <2>1, <2>3
    <3>2. QED
      BY <3>1 DEF FileInv
  <2>4. QED
    BY <1>1, <2>1, <2>2, <2>3, ConstantsAssumption DEF Whole, Torn
<1>3. QED
  BY <1>2 DEF Accepted

(* What a power cut leaves has every position of the sealed segments. *)
LEMMA SealedIsStable ==
    ASSUME IInv, NEW S \in PowerCutImages
    PROVE  \A q \in 1 .. segs[Len(segs)].start - 1 : q \in S
BY DEF IInv, StableInv, PowerCutImages

(* Recovery reads a record when every position up to its own has survived: *)
(* the LSNs on the way are consecutive and none of them is torn.           *)
LEMMA SurvivorsAreRead ==
    ASSUME IInv, HeadersReadable, NEW S, NEW l \in Nat, covered < l, l <= writtenLSN,
           \A q \in 1 .. segs[Len(segs)].start - 1 : q \in S,
           \A q \in 1 .. Len(file) : StartLSN + q <= l => q \in S
    PROVE  l \in Recovered(S)
<1> USE DEF IInv
<1>1. /\ base \in Nat /\ covered \in Nat /\ StartLSN \in Nat /\ Len(file) \in Nat
      /\ writtenLSN = StartLSN + Len(file) /\ StartLSN + base <= covered
  BY Lengths, ConstantsAssumption, Zenon DEF TypeOK, CounterInv, SegmentInv
<1> DEFINE at == l - StartLSN
<1>2. at \in base + 1 .. Len(file) /\ StartLSN + at = l
  BY <1>1
<1>3. ASSUME NEW q \in base + 1 .. at
      PROVE  Whole(S, q)
  <2>1. q \in 1 .. Len(file) /\ StartLSN + q <= l
    BY <1>1, <1>2
  <2>2. file[q] = StartLSN + q
    BY <2>1 DEF FileInv
  <2>3. ASSUME q > base + 1 PROVE file[q - 1] = StartLSN + (q - 1)
    <3>1. q - 1 \in 1 .. Len(file)
      BY <1>1, <2>1, <2>3
    <3>2. QED
      BY <3>1 DEF FileInv
  <2>4. QED
    BY <1>1, <2>1, <2>2, <2>3 DEF Whole, Torn
<1> HIDE DEF at
<1>4. at \in Readable(S)
  BY <1>2, <1>3 DEF Readable
<1>5. file[at] = l
  <2>1. at \in 1 .. Len(file)
    BY <1>1, <1>2
  <2>2. QED
    BY <1>2, <2>1 DEF FileInv
<1>6. Accepted(S)
  BY SealedIsAccepted
<1>7. QED
  BY <1>4, <1>5, <1>6, Zenon DEF Recovered

(* Recovery reads every LSN up to syncedLSN, whatever a power cut leaves. *)
LEMMA SyncedIsRead ==
    ASSUME IInv, HeadersReadable, NEW S \in PowerCutImages, NEW l \in Nat, l <= syncedLSN
    PROVE  l <= covered \/ l \in Recovered(S)
<1> USE DEF IInv
<1>1. l <= writtenLSN /\ syncedLSN \in Nat /\ covered \in Nat
  BY DEF CounterInv, TypeOK
<1>2. ASSUME NEW q \in 1 .. Len(file), StartLSN + q <= l PROVE q \in S
  <2>1. StartLSN + q <= syncedLSN
    BY <1>1, <1>2, Lengths, ConstantsAssumption
  <2>2. QED
    BY <2>1 DEF StableInv, PowerCutImages
<1>3. QED
  BY <1>1, <1>2, SealedIsStable, SurvivorsAreRead

(* The state of the log is well-typed at every instant. *)
THEOREM TypeCorrect ==
    ASSUME NoLoss
    PROVE  Spec => []TypeOK
<1>1. IInv => TypeOK
  BY DEF IInv
<1>2. QED
  BY <1>1, Invariance, PTL

(* No interleaving of appends, drains, rotations and trims reorders,       *)
(* repeats or drops a record of the open log.                              *)
THEOREM OrderCorrect ==
    ASSUME NoLoss
    PROVE  Spec => []LogOrder
<1>1. ASSUME IInv PROVE LogOrder
  <2> USE <1>1 DEF IInv
  <2> DEFINE all == file \o pending \o buf
  <2>1. /\ Len(all) = Len(file) + Len(pending) + Len(buf)
        /\ \A i \in 1 .. Len(file) : all[i] = file[i]
        /\ \A i \in 1 .. Len(pending) : all[Len(file) + i] = pending[i]
        /\ \A i \in 1 .. Len(buf) : all[Len(file) + Len(pending) + i] = buf[i]
    <3>1. /\ file \in Seq(Nat \cup {Torn}) /\ pending \in Seq(Nat \cup {Torn})
          /\ buf \in Seq(Nat \cup {Torn})
      BY SeqMonotonic, Zenon DEF TypeOK
    <3>2. /\ file \o pending \in Seq(Nat \cup {Torn})
          /\ Len(file \o pending) = Len(file) + Len(pending)
          /\ \A i \in 1 .. Len(file) : (file \o pending)[i] = file[i]
          /\ \A i \in 1 .. Len(pending) : (file \o pending)[Len(file) + i] = pending[i]
      BY <3>1, ConcatProperties, Lengths
    <3>3. /\ Len(all) = Len(file \o pending) + Len(buf)
          /\ \A i \in 1 .. Len(file \o pending) : all[i] = (file \o pending)[i]
          /\ \A i \in 1 .. Len(buf) : all[Len(file \o pending) + i] = buf[i]
      BY <3>1, <3>2, ConcatProperties, Lengths
    <3>4. QED
      BY <3>2, <3>3, Lengths
  <2> HIDE DEF all
  <2>2. ASSUME ~closed
        PROVE  /\ \A i \in 1 .. Len(all) : all[i] = StartLSN + i
               /\ Len(all) = nextLSN - 1 - StartLSN
    <3>1. /\ \A i \in 1 .. Len(pending) : pending[i] = writtenLSN + i
          /\ \A i \in 1 .. Len(buf) : buf[i] = writtenLSN + Len(pending) + i
          /\ lastAppended = writtenLSN + Len(pending) + Len(buf)
          /\ writtenLSN = StartLSN + Len(file) /\ lastAppended = nextLSN - 1
      BY <2>2 DEF CloseInv, BufferInv, CounterInv
    <3>2. Len(all) = nextLSN - 1 - StartLSN
      BY <2>1, <3>1, Lengths, ConstantsAssumption DEF TypeOK
    <3>3. ASSUME NEW i \in 1 .. Len(all) PROVE all[i] = StartLSN + i
      <4>1. CASE i \in 1 .. Len(file)
        BY <2>1, <4>1 DEF FileInv
      <4>2. CASE i - Len(file) \in 1 .. Len(pending)
        <5>1. all[Len(file) + (i - Len(file))] = writtenLSN + (i - Len(file))
          BY <2>1, <3>1, <4>2, Zenon
        <5>2. QED
          BY <3>1, <5>1, Lengths, ConstantsAssumption
      <4>3. CASE i - (Len(file) + Len(pending)) \in 1 .. Len(buf)
        <5>1. all[Len(file) + Len(pending) + (i - (Len(file) + Len(pending)))]
                = writtenLSN + Len(pending) + (i - (Len(file) + Len(pending)))
          BY <2>1, <3>1, <4>3, Zenon
        <5>2. QED
          BY <3>1, <5>1, Lengths, ConstantsAssumption
      <4>4. QED
        BY <2>1, <3>3, <4>1, <4>2, <4>3, Lengths
    <3>4. QED
      BY <3>2, <3>3
  <2>3. QED
    BY <2>2 DEF LogOrder, FileInv, all
<1>2. QED
  BY <1>1, Invariance, PTL

(* An answered write survives the process being killed at any instant,     *)
(* under every policy.                                                     *)
THEOREM KillSafe ==
    ASSUME NoLoss
    PROVE  Spec => []AckedSurvivesKill
<1>1. ASSUME IInv PROVE AckedSurvivesKill
  <2>1. ASSUME HeadersReadable, NEW l \in acked, ~(l <= covered)
        PROVE  l \in Recovered(Written)
    <3>1. l \in Nat /\ l <= writtenLSN /\ covered < l
      BY <1>1, <2>1 DEF IInv, AckInv, TypeOK
    <3>2. segs[Len(segs)].start \in 1 .. Len(file) + 1
      <4>1. Len(segs) \in 1 .. Len(segs)
        BY <1>1 DEF IInv, TypeOK
      <4>2. QED
        BY <1>1, <4>1, Zenon DEF IInv, SegmentInv
    <3>3. \A q \in 1 .. segs[Len(segs)].start - 1 : q \in Written
      BY <1>1, <3>2, Lengths DEF IInv, Written
    <3>4. \A q \in 1 .. Len(file) : StartLSN + q <= l => q \in Written
      BY DEF Written
    <3>5. QED
      BY <1>1, <2>1, <3>1, <3>3, <3>4, SurvivorsAreRead
  <2>2. QED
    BY <2>1 DEF AckedSurvivesKill
<1>2. QED
  BY <1>1, Invariance, PTL

(* Under "always" it survives a power cut as well. *)
THEOREM PowerCutSafe ==
    ASSUME NoLoss
    PROVE  Spec => []AckedSurvivesPowerCut
<1>1. ASSUME IInv PROVE AckedSurvivesPowerCut
  <2>1. ASSUME Policy = "always", HeadersReadable, NEW S \in PowerCutImages, NEW l \in acked
        PROVE  l <= covered \/ l \in Recovered(S)
    BY <1>1, <2>1, SyncedIsRead DEF IInv, AckInv, TypeOK
  <2>2. QED
    BY <2>1 DEF AckedSurvivesPowerCut
<1>2. QED
  BY <1>1, Invariance, PTL

(* What SyncedLSN reports is on stable storage, under every policy, even   *)
(* though one fsync covers one segment only.                               *)
THEOREM SyncedCorrect ==
    ASSUME NoLoss
    PROVE  Spec => []SyncedIsStable
<1>1. ASSUME IInv PROVE SyncedIsStable
  <2>1. StartLSN \in Nat /\ syncedLSN \in Nat
    BY <1>1, ConstantsAssumption DEF IInv, TypeOK
  <2>2. QED
    BY <1>1, <2>1, SyncedIsRead DEF SyncedIsStable
<1>2. QED
  BY <1>1, Invariance, PTL

(* A power cut leaves every segment but the last whole, so recovery never  *)
(* refuses to start.                                                       *)
THEOREM TailCorrect ==
    ASSUME NoLoss
    PROVE  Spec => []DamageIsInTail
<1>1. ASSUME IInv PROVE DamageIsInTail
  BY <1>1, SealedIsStable, SealedIsAccepted DEF DamageIsInTail
<1>2. QED
  BY <1>1, Invariance, PTL

(* A segment's header names the LSN of its first record. *)
THEOREM HeadersCorrect ==
    ASSUME NoLoss
    PROVE  Spec => []HeaderNamesFirstRecord
<1>1. ASSUME IInv PROVE HeaderNamesFirstRecord
  <2>1. ASSUME NEW i \in 1 .. Len(segs), segs[i].start <= Len(file)
        PROVE  file[segs[i].start] = segs[i].first
    <3>1. segs[i].start \in 1 .. Len(file)
      BY <1>1, <2>1, Lengths DEF IInv, SegmentInv
    <3>2. QED
      BY <1>1, <3>1 DEF IInv, SegmentInv, FileInv
  <2>2. QED
    BY <2>1 DEF HeaderNamesFirstRecord
<1>2. QED
  BY <1>1, Invariance, PTL
=============================================================================
