------------------------------- MODULE WalLog -------------------------------
(***************************************************************************)
(* The live write-ahead log of the Go server (internal/wal/log.go): one    *)
(* incarnation, from Open to Close or to a crash.  Writers append under mu *)
(* and wait behind flushMu, the group-commit gate; a background worker     *)
(* flushes and fsyncs; a snapshotter trims; Close drains and stops.        *)
(*                                                                         *)
(* Data.  A record is its LSN; Torn stands for bytes that fail the         *)
(* checksum.  The directory is one sequence `file` of everything written,  *)
(* cut into segments by their start positions: positions up to `base` were *)
(* in segments TrimTo has removed, and `durable` holds the positions an    *)
(* fsync of their own segment has covered.  Sizes are counted in records.  *)
(*                                                                         *)
(* mu is held for one append or one buffer swap, so both are single steps; *)
(* every file operation made under flushMu is a step of its own.           *)
(***************************************************************************)
EXTENDS Integers, Sequences, FiniteSets

CONSTANTS
    Writers,      \* goroutines executing write commands
    Background,   \* the goroutine of background()
    Closer,       \* the goroutine that calls Close
    Nobody,       \* flushMu is free
    Policy,       \* "always", "everysec" or "no"
    StartLSN,     \* the argument of Open
    MaxBuffer,    \* MaxBufferBytes
    SegmentSize,  \* SegmentSize
    MaxLSN,       \* bound: no append is issued past this LSN
    Faults        \* what may fail: "write", "fsync", "open" (closing and creating a segment)

Procs == Writers \cup {Background, Closer}

Torn == -1

ASSUME ConstantsAssumption ==
    /\ Policy \in {"always", "everysec", "no"}
    /\ StartLSN \in Nat /\ MaxLSN \in Nat
    /\ MaxBuffer \in Nat \ {0} /\ SegmentSize \in Nat \ {0}
    /\ Faults \subseteq {"write", "fsync", "open"}
    /\ Background # Closer
    /\ Background \notin Writers /\ Closer \notin Writers
    /\ Nobody \notin Procs

VARIABLES
    buf,          \* l.buf: records appended and not yet handed to the kernel
    nextLSN,
    lastAppended, writtenLSN, syncedLSN,
    flushMu,      \* the process holding the gate, or Nobody
    pending,      \* the buffer drainLocked swapped out (owned by the holder)
    upto,         \* drainLocked's result (owned by the holder)
    file, durable, base,
    segs,         \* the segments: first LSN, start position, header written
    segLen,
    open,         \* l.f is an open file
    fatal, closed,
    pc, call,     \* where each process is, and in which call of the log
    lsn,          \* the LSN each writer is waiting for
    acked,        \* LSNs whose client has been answered "success"
    snapLSN,      \* the LSN the running snapshot covers, -1 when none runs
    covered       \* the LSN of the newest durable snapshot

logVars  == <<buf, nextLSN, lastAppended>>
gateVars == <<pending, upto>>
diskVars == <<file, durable, base, segs, segLen, open>>
snapVars == <<snapLSN, covered>>
vars == <<logVars, writtenLSN, syncedLSN, flushMu, gateVars, diskVars,
          fatal, closed, pc, call, lsn, acked, snapVars>>

FlushCalls == {"overflow", "finish", "tickFlush"}
SyncCalls  == {"sync", "tickSync", "close"}
Calls      == FlushCalls \cup SyncCalls \cup {"none"}
InGate     == {"write", "rotate", "create", "header", "fsync"}
PCs        == {"idle", "append", "enter", "lock"} \cup InGate

Init ==
    /\ buf = <<>> /\ nextLSN = StartLSN + 1
    /\ lastAppended = StartLSN /\ writtenLSN = StartLSN /\ syncedLSN = StartLSN
    /\ flushMu = Nobody /\ pending = <<>> /\ upto = StartLSN
    /\ file = <<>> /\ durable = {} /\ base = 0
    /\ segs = <<[first |-> StartLSN + 1, start |-> 1, header |-> TRUE]>>
    /\ segLen = 0 /\ open = TRUE /\ fatal = FALSE /\ closed = FALSE
    /\ pc = [p \in Procs |-> "idle"] /\ call = [p \in Procs |-> "none"]
    /\ lsn = [p \in Procs |-> 0]
    /\ acked = {} /\ snapLSN = -1 /\ covered = StartLSN

-----------------------------------------------------------------------------
(* What follows a call of the log.  A writer's request is an append, then  *)
(* Await (an fsync wait under "always" only), then the Flush the server    *)
(* makes before it writes the reply; an error anywhere ends it unanswered. *)

AwaitCall == IF Policy = "always" THEN "sync" ELSE "finish"

NextCall(p, ok) ==
    CASE ok /\ call[p] = "overflow" -> AwaitCall
      [] ok /\ call[p] = "sync"     -> "finish"
      [] OTHER                      -> "none"

Goto(p, where, what) ==
    /\ pc' = [pc EXCEPT ![p] = where]
    /\ call' = [call EXCEPT ![p] = what]

Return(p, ok) ==
    /\ Goto(p, IF NextCall(p, ok) = "none" THEN "idle" ELSE "enter",
            NextCall(p, ok))
    /\ acked' = IF ok /\ call[p] = "finish" THEN acked \cup {lsn[p]} ELSE acked

Step(p, where) == Goto(p, where, call[p]) /\ UNCHANGED acked

(* Variant of AfterDrain: Flush returns without releasing flushMu. *)
AfterDrainKeepsGate(p) ==
    IF call[p] \in SyncCalls
    THEN Step(p, "fsync") /\ UNCHANGED flushMu
    ELSE Return(p, TRUE) /\ UNCHANGED flushMu

(* drainLocked has succeeded: syncLocked goes on to fsync, Flush is done. *)
AfterDrain(p) ==
    IF call[p] \in SyncCalls
    THEN Step(p, "fsync") /\ UNCHANGED flushMu
    ELSE Return(p, TRUE) /\ flushMu' = Nobody

-----------------------------------------------------------------------------
(* append: the closed and fatal checks come before mu is taken. *)
BeginAppend(w) ==
    /\ pc[w] = "idle" /\ ~closed /\ ~fatal
    /\ nextLSN + Cardinality({v \in Writers : pc[v] = "append"}) <= MaxLSN
    /\ Step(w, "append")
    /\ UNCHANGED <<logVars, writtenLSN, syncedLSN, flushMu, gateVars, diskVars,
                   fatal, closed, lsn, snapVars>>

(* append, under mu; a full buffer makes the writer call Flush itself. *)
AppendRecord(w) ==
    /\ pc[w] = "append"
    /\ buf' = Append(buf, nextLSN)
    /\ nextLSN' = nextLSN + 1 /\ lastAppended' = nextLSN
    /\ lsn' = [lsn EXCEPT ![w] = nextLSN]
    /\ Goto(w, "enter", IF Len(buf') >= MaxBuffer THEN "overflow" ELSE AwaitCall)
    /\ UNCHANGED <<writtenLSN, syncedLSN, flushMu, gateVars, diskVars,
                   fatal, closed, acked, snapVars>>

(* Variant of Tick: the fsync tick runs under the wrong policy. *)
TickWrongPolicy(what) ==
    /\ pc[Background] = "idle" /\ ~closed
    /\ what = "tickSync" => Policy = "always"
    /\ Goto(Background, "enter", what)
    /\ UNCHANGED <<logVars, writtenLSN, syncedLSN, flushMu, gateVars, diskVars,
                   fatal, closed, lsn, acked, snapVars>>

(* The two ticks of background(); "everysec" is the policy that fsyncs. *)
Tick(what) ==
    /\ pc[Background] = "idle" /\ ~closed
    /\ what = "tickSync" => Policy = "everysec"
    /\ Goto(Background, "enter", what)
    /\ UNCHANGED <<logVars, writtenLSN, syncedLSN, flushMu, gateVars, diskVars,
                   fatal, closed, lsn, acked, snapVars>>

(* Close: the compare-and-swap, then the wait for background() in Lock. *)
BeginClose ==
    /\ ~closed /\ closed' = TRUE
    /\ Goto(Closer, "lock", "close")
    /\ UNCHANGED <<logVars, writtenLSN, syncedLSN, flushMu, gateVars, diskVars,
                   fatal, lsn, acked, snapVars>>

-----------------------------------------------------------------------------
(* Variant of NothingToDo: Sync is content once the record is written. *)
NothingToDoOnceWritten(p) ==
    \/ call[p] \in FlushCalls /\ lastAppended <= writtenLSN
    \/ call[p] = "sync" /\ writtenLSN >= lsn[p]

(* Flush, Sync and SyncAll up to the gate, and again behind it. *)
NothingToDo(p) ==
    \/ call[p] \in FlushCalls /\ lastAppended <= writtenLSN
    \/ call[p] = "sync" /\ syncedLSN >= lsn[p]

Enter(p) ==
    /\ pc[p] = "enter"
    /\ IF closed THEN Return(p, FALSE)
       ELSE IF NothingToDo(p) THEN Return(p, TRUE)
       ELSE Step(p, "lock")
    /\ UNCHANGED <<logVars, writtenLSN, syncedLSN, flushMu, gateVars, diskVars,
                   fatal, closed, lsn, snapVars>>

(* Variant of Lock: the swapped-out buffer is not emptied. *)
LockKeepsBuffer(p) ==
    /\ pc[p] = "lock" /\ flushMu = Nobody /\ buf # <<>>
    /\ flushMu' = p
    /\ pending' = buf /\ upto' = nextLSN - 1
    /\ Step(p, "write")
    /\ UNCHANGED <<logVars, writtenLSN, syncedLSN, diskVars,
                   fatal, closed, lsn, snapVars>>

(* Taking flushMu, the second check, and drainLocked's buffer swap. *)
Lock(p) ==
    /\ pc[p] = "lock" /\ flushMu = Nobody
    /\ call[p] = "close" => pc[Background] = "idle"
    /\ \/ /\ NothingToDo(p)
          /\ Return(p, TRUE)
          /\ UNCHANGED <<buf, flushMu, gateVars>>
       \/ /\ ~NothingToDo(p) /\ buf = <<>>
          /\ upto' = writtenLSN
          /\ IF call[p] \in SyncCalls
             THEN Step(p, "fsync") /\ flushMu' = p
             ELSE Return(p, TRUE) /\ UNCHANGED flushMu
          /\ UNCHANGED <<buf, pending>>
       \/ /\ ~NothingToDo(p) /\ buf # <<>>
          /\ flushMu' = p
          /\ pending' = buf /\ upto' = nextLSN - 1 /\ buf' = <<>>
          /\ Step(p, "write")
    /\ UNCHANGED <<nextLSN, lastAppended, writtenLSN, syncedLSN, diskVars,
                   fatal, closed, lsn, snapVars>>

-----------------------------------------------------------------------------
(* Variant of WriteOK: the LSN is read after the write, not at the swap. *)
WriteOKReadsLateLSN(p) ==
    /\ pc[p] = "write" /\ open
    /\ file' = file \o pending /\ pending' = <<>>
    /\ segLen' = segLen + Len(pending)
    /\ writtenLSN' = nextLSN - 1
    /\ IF segLen' >= SegmentSize
       THEN Step(p, "rotate") /\ UNCHANGED flushMu
       ELSE AfterDrain(p)
    /\ UNCHANGED <<logVars, syncedLSN, upto, durable, base, segs, open,
                   fatal, closed, lsn, snapVars>>

(* drainLocked after the swap: the write, and rotation when it is due. *)
WriteOK(p) ==
    /\ pc[p] = "write" /\ open
    /\ file' = file \o pending /\ pending' = <<>>
    /\ segLen' = segLen + Len(pending)
    /\ writtenLSN' = upto
    /\ IF segLen' >= SegmentSize
       THEN Step(p, "rotate") /\ UNCHANGED flushMu
       ELSE AfterDrain(p)
    /\ UNCHANGED <<logVars, syncedLSN, upto, durable, base, segs, open,
                   fatal, closed, lsn, snapVars>>

(* Variant of WriteFails: what the segment held is cut off with the tail.  *)
WriteFailsTruncates(p) ==
    /\ pc[p] = "write" /\ ("write" \in Faults \/ ~open)
    /\ file' = SubSeq(file, 1, segs[Len(segs)].start - 1)
    /\ pending' = <<>>
    /\ fatal' = TRUE /\ open' = (open /\ call[p] # "close")
    /\ flushMu' = Nobody /\ Return(p, FALSE)
    /\ UNCHANGED <<logVars, writtenLSN, syncedLSN, upto, durable, base, segs,
                   segLen, closed, lsn, snapVars>>

(* A failed write leaves a proper prefix of the buffer, possibly torn; the *)
(* rest is gone.  The error is latched and the gate released.              *)
WriteFails(p) ==
    /\ pc[p] = "write" /\ ("write" \in Faults \/ ~open)
    /\ \E n \in 0 .. Len(pending) - 1, torn \in {<<>>, <<Torn>>} :
          /\ ~open => n = 0 /\ torn = <<>>
          /\ file' = file \o SubSeq(pending, 1, n) \o torn
    /\ pending' = <<>>
    /\ fatal' = TRUE /\ open' = (open /\ call[p] # "close")
    /\ flushMu' = Nobody /\ Return(p, FALSE)
    /\ UNCHANGED <<logVars, writtenLSN, syncedLSN, upto, durable, base, segs,
                   segLen, closed, lsn, snapVars>>

CurrentSegment == segs[Len(segs)].start .. Len(file)

(* Variant of Rotate: the sealed segment is closed without an fsync. *)
RotateUnsynced(p) ==
    /\ pc[p] = "rotate"
    /\ syncedLSN' = writtenLSN
    /\ open' = FALSE
    /\ Step(p, "create")
    /\ UNCHANGED <<logVars, writtenLSN, flushMu, gateVars, file, durable, base,
                   segs, segLen, fatal, closed, lsn, snapVars>>

(* Variant of Rotate: the fsync is left to a later Sync. *)
RotateDefersSync(p) ==
    /\ pc[p] = "rotate"
    /\ open' = FALSE
    /\ Step(p, "create")
    /\ UNCHANGED <<logVars, writtenLSN, syncedLSN, flushMu, gateVars, file, durable,
                   base, segs, segLen, fatal, closed, lsn, snapVars>>

(* rotateLocked: fsync and close the full segment.  Its errors, unlike     *)
(* those of drainLocked and syncLocked, are returned without being latched.*)
Rotate(p) ==
    /\ pc[p] = "rotate"
    /\ durable' = durable \cup CurrentSegment
    /\ syncedLSN' = writtenLSN
    /\ open' = FALSE
    /\ Step(p, "create")
    /\ UNCHANGED <<logVars, writtenLSN, flushMu, gateVars, file, base, segs,
                   segLen, fatal, closed, lsn, snapVars>>

(* openSegment: the file exists before its header does. *)
Create(p) ==
    /\ pc[p] = "create"
    /\ segs' = Append(segs, [first |-> upto + 1, start |-> Len(file) + 1,
                             header |-> FALSE])
    /\ Step(p, "header")
    /\ UNCHANGED <<logVars, writtenLSN, syncedLSN, flushMu, gateVars, file,
                   durable, base, segLen, open, fatal, closed, lsn, snapVars>>

(* openSegment: header written and fsynced, directory synced, file in use. *)
Header(p) ==
    /\ pc[p] = "header"
    /\ segs' = [segs EXCEPT ![Len(segs)].header = TRUE]
    /\ segLen' = 0 /\ open' = TRUE
    /\ AfterDrain(p)
    /\ UNCHANGED <<logVars, writtenLSN, syncedLSN, gateVars, file, durable,
                   base, fatal, closed, lsn, snapVars>>

(* An error on the way: the fsync; the close of the old segment, which     *)
(* leaves a closed os.File like a close that succeeds; the creation of the *)
(* new file; its header, its fsync or that of the directory.               *)
RotationFails(p) ==
    /\ \/ pc[p] = "rotate" /\ "fsync" \in Faults
       \/ pc[p] \in {"create", "header"} /\ "open" \in Faults
    /\ open' = (open /\ call[p] # "close")
    /\ flushMu' = Nobody /\ Return(p, FALSE)
    /\ UNCHANGED <<logVars, writtenLSN, syncedLSN, gateVars, file, durable,
                   base, segs, segLen, fatal, closed, lsn, snapVars>>

-----------------------------------------------------------------------------
(* syncLocked after the drain, and the tail of Close, which always fsyncs, *)
(* does not latch, and closes the file.                                    *)
AlreadySynced(p) == call[p] # "close" /\ syncedLSN >= upto

FsyncOK(p) ==
    /\ pc[p] = "fsync"
    /\ AlreadySynced(p) \/ open
    /\ IF AlreadySynced(p) THEN UNCHANGED <<durable, syncedLSN>>
       ELSE durable' = durable \cup CurrentSegment /\ syncedLSN' = upto
    /\ open' = (open /\ call[p] # "close")
    /\ flushMu' = Nobody /\ Return(p, TRUE)
    /\ UNCHANGED <<logVars, writtenLSN, gateVars, file, base, segs, segLen,
                   fatal, closed, lsn, snapVars>>

(* A failed fsync is taken to leave the pages dirty, so that a retry by a  *)
(* waiter behind the gate, which does not ask for the latch, writes them.  *)
FsyncFails(p) ==
    /\ pc[p] = "fsync" /\ ~AlreadySynced(p)
    /\ "fsync" \in Faults \/ ~open
    /\ fatal' = (fatal \/ call[p] # "close")
    /\ open' = (open /\ call[p] # "close")
    /\ flushMu' = Nobody /\ Return(p, FALSE)
    /\ UNCHANGED <<logVars, writtenLSN, syncedLSN, gateVars, file, durable,
                   base, segs, segLen, closed, lsn, snapVars>>

-----------------------------------------------------------------------------
(* persist.Snapshot reads LastLSN before its walk ... *)
BeginSnapshot ==
    /\ snapLSN = -1
    /\ snapLSN' = nextLSN - 1
    /\ UNCHANGED <<logVars, writtenLSN, syncedLSN, flushMu, gateVars, diskVars,
                   fatal, closed, pc, call, lsn, acked, covered>>

(* TrimTo may remove segment i: the next one starts inside the snapshot.   *)
(* It lists the headers first and gives up if one cannot be read.          *)
Removable(i, safe) ==
    /\ i + 1 <= Len(segs) /\ segs[i + 1].first <= safe + 1
    /\ \A j \in 1 .. Len(segs) : segs[j].header

(* Variant of TrimTo: the current segment is removed as well. *)
TrimToWholeLog ==
    /\ snapLSN # -1 /\ flushMu = Nobody
    /\ IF snapLSN >= writtenLSN
       THEN segs' = <<>> /\ base' = Len(file)
       ELSE UNCHANGED <<segs, base>>
    /\ covered' = snapLSN /\ snapLSN' = -1
    /\ UNCHANGED <<logVars, writtenLSN, syncedLSN, flushMu, gateVars, file,
                   durable, segLen, open, fatal, closed, pc, call, lsn, acked>>

(* ... and calls TrimTo when it is durable.  os.Remove may fail part way.  *)
TrimTo ==
    /\ snapLSN # -1 /\ flushMu = Nobody
    /\ \E n \in 0 .. Len(segs) - 1 :
          /\ \A i \in 1 .. n : Removable(i, snapLSN)
          /\ segs' = SubSeq(segs, n + 1, Len(segs))
          /\ base' = segs[n + 1].start - 1
    /\ covered' = snapLSN /\ snapLSN' = -1
    /\ UNCHANGED <<logVars, writtenLSN, syncedLSN, flushMu, gateVars, file,
                   durable, segLen, open, fatal, closed, pc, call, lsn, acked>>

-----------------------------------------------------------------------------
InCall(p) ==
    \/ Enter(p) \/ Lock(p) \/ WriteOK(p) \/ WriteFails(p)
    \/ Rotate(p) \/ Create(p) \/ Header(p) \/ RotationFails(p)
    \/ FsyncOK(p) \/ FsyncFails(p)

Next ==
    \/ \E w \in Writers : BeginAppend(w) \/ AppendRecord(w)
    \/ \E what \in {"tickFlush", "tickSync"} : Tick(what)
    \/ BeginClose
    \/ \E p \in Procs : InCall(p)
    \/ BeginSnapshot \/ TrimTo

(* The scheduler runs every goroutine that can run; sync.Mutex serves a    *)
(* starving waiter first and select picks at random among ready tickers,   *)
(* so neither the gate nor a tick is missed for ever.                      *)
Fairness ==
    /\ \A w \in Writers : WF_vars(AppendRecord(w))
    /\ \A p \in Procs : WF_vars(InCall(p)) /\ SF_vars(Lock(p))
    /\ SF_vars(Tick("tickFlush")) /\ SF_vars(Tick("tickSync"))

Spec     == Init /\ [][Next]_vars
FairSpec == Spec /\ Fairness
-----------------------------------------------------------------------------
(* What recovery makes of the directory (internal/wal/replay.go) if the    *)
(* surviving positions are S.  Position q can be read: it is there, is not *)
(* torn, and continues the LSNs before it.                                 *)
Whole(S, q) ==
    /\ q \in S /\ file[q] # Torn
    /\ q > base + 1 => file[q] = file[q - 1] + 1

(* Everything up to the first damage. *)
Readable(S) == {p \in base + 1 .. Len(file) : \A q \in base + 1 .. p : Whole(S, q)}

(* ErrTornMidLog: Replay starts over damage in the last segment only. *)
Accepted(S) == \A q \in base + 1 .. segs[Len(segs)].start - 1 : Whole(S, q)

(* Replay and Open read the header of every segment first. *)
HeadersReadable == \A i \in 1 .. Len(segs) : segs[i].header

(* The records a restart has back: none when Replay returns an error. *)
Recovered(S) ==
    IF HeadersReadable /\ Accepted(S) THEN {file[p] : p \in Readable(S)} ELSE {}

(* A kill keeps the page cache; a power cut keeps what was fsynced and, of *)
(* each segment, possibly a longer prefix.                                 *)
Written == 1 .. Len(file)

PowerCutImages ==
    {S \in SUBSET Written :
        /\ durable \subseteq S
        /\ \A p \in S : p > 1 =>
              \/ p - 1 \in S
              \/ \E i \in 1 .. Len(segs) : segs[i].start = p}

-----------------------------------------------------------------------------
TypeOK ==
    /\ buf \in Seq(Nat) /\ pending \in Seq(Nat) /\ file \in Seq(Nat \cup {Torn})
    /\ nextLSN \in Nat /\ lastAppended \in Nat
    /\ writtenLSN \in Nat /\ syncedLSN \in Nat /\ upto \in Nat
    /\ flushMu \in Procs \cup {Nobody}
    /\ durable \subseteq Nat /\ base \in Nat /\ segLen \in Nat
    /\ segs \in Seq([first : Nat, start : Nat, header : BOOLEAN]) /\ segs # <<>>
    /\ open \in BOOLEAN /\ fatal \in BOOLEAN /\ closed \in BOOLEAN
    /\ pc \in [Procs -> PCs] /\ call \in [Procs -> Calls]
    /\ lsn \in [Procs -> Nat] /\ acked \subseteq Nat
    /\ snapLSN \in Nat \cup {-1} /\ covered \in Nat

(* Writes and file creation succeed; only an fsync may fail. *)
NoLoss == Faults \subseteq {"fsync"}

Lost ==
    {l \in StartLSN + 1 .. nextLSN - 1 :
        \A s \in {file, pending, buf} : \A i \in 1 .. Len(s) : s[i] # l}

(* No failed write has cost a record so far. *)
Intact == NoLoss \/ Lost = {}

(* The buffer swap and the writes behind the gate never reorder, repeat or *)
(* skip a record: what is in the files, in the drained buffer and in the   *)
(* append buffer is, in this order, every LSN handed out.  Once Close has  *)
(* begun, a late append may be dropped, but never out of the middle.  From *)
(* a write that failed on, DamageIsBounded is what is left.                *)
LogOrder ==
    Intact =>
    LET all == file \o pending \o buf IN
    /\ \A i \in 1 .. Len(file) : file[i] = StartLSN + i
    /\ ~closed => /\ \A i \in 1 .. Len(all) : all[i] = StartLSN + i
                  /\ Len(all) = nextLSN - 1 - StartLSN

(* The everysec promise: killing the process loses nothing acknowledged.   *)
(* Every answered write is in what a restart replays or in the snapshot;   *)
(* that the header of a new segment may be missing is StartsAfterKill.     *)
AckedSurvivesKill ==
    HeadersReadable => \A l \in acked : l <= covered \/ l \in Recovered(Written)

(* The always promise: a power cut loses nothing acknowledged either,      *)
(* whichever of the unsynced bytes happen to have reached the disk.        *)
AckedSurvivesPowerCut ==
    Policy = "always" /\ Intact /\ HeadersReadable =>
        \A S \in PowerCutImages, l \in acked :
            l <= covered \/ l \in Recovered(S)

(* SyncedLSN reports the highest LSN on stable storage, under every policy *)
(* and across rotations.                                                   *)
SyncedIsStable ==
    Intact /\ HeadersReadable => \A S \in PowerCutImages, l \in StartLSN + 1 .. syncedLSN :
        l <= covered \/ l \in Recovered(S)

(* A crash damages the last segment only, which Replay cuts off; it would  *)
(* refuse to start over a gap before it (rotateLocked's fsync, Replay).    *)
DamageIsInTail == Intact => \A S \in PowerCutImages : Accepted(S)

(* The comment in drainLocked: recovery truncates what a failed write tore *)
(* off, so that the server starts after it.                                *)
TornTailIsTruncated == Accepted(Written)

(* Whatever fails, and whatever rotation, trimming and the waiters behind  *)
(* the gate do after it, the damage stops at the records of the failed     *)
(* write and the later ones: no step takes an answered write that lies in  *)
(* front of the damage out of the directory, or puts damage in front of it *)
(* (drainLocked, rotateLocked, TrimTo).  Replay may still refuse to start  *)
(* over the damage behind it: TornTailIsTruncated.                         *)
InFront(l) == l <= covered \/ \E p \in Readable(Written) : file[p] = l
DamageIsBounded == [][\A l \in acked : InFront(l) => InFront(l)']_vars

(* Segment headers tell the truth about where a segment starts; TrimTo     *)
(* decides from them.                                                      *)
HeaderNamesFirstRecord ==
    Intact => \A i \in 1 .. Len(segs) :
        segs[i].start <= Len(file) => file[segs[i].start] = segs[i].first

(* Killing the process at any instant leaves a directory the server can    *)
(* start from.                                                             *)
StartsAfterKill == HeadersReadable

(* No writer waits behind the gate for ever, whoever else uses it. *)
EveryCallReturns ==
    \A w \in Writers : pc[w] # "idle" ~> pc[w] = "idle"

(* everysec: what has been appended becomes stable without any further     *)
(* request, unless the log is closed.                                      *)
EverythingHardens ==
    \A l \in StartLSN + 1 .. MaxLSN :
        lastAppended = l ~> (syncedLSN >= l \/ closed)

(* The log makes progress for those who wait and for those who do not. *)
LogMakesProgress == EveryCallReturns /\ EverythingHardens
=============================================================================
