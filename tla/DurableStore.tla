---------------------------- MODULE DurableStore ----------------------------
(***************************************************************************)
(* The durable engine of the Go server: the sharded memory store           *)
(* (internal/store/memory) journalling into the write-ahead log, fuzzy     *)
(* snapshots (internal/snapshot, internal/persist), crashes and recovery   *)
(* (internal/wal/replay.go, persist.Open), over several incarnations.      *)
(*                                                                         *)
(* Data.  A log record carries a delta: the keys it writes, each mapped to *)
(* a record or to Absent.  A put and a delete touch one key, a batch       *)
(* several, FLUSHALL every key.  Clock readings are small naturals.        *)
(*                                                                         *)
(* The log is used here through what WalLog shows of it: append under mu,  *)
(* drain (with rotation) and fsync are each one step.  `hist` is the       *)
(* history variable the properties compare with: every delta accepted, in  *)
(* LSN order, on the timeline the current state descends from.             *)
(***************************************************************************)
EXTENDS Integers, Sequences, FiniteSets, FiniteSetsExt

CONSTANTS
    Clients, Keys, Shards,  \* Shards = 1..n, visited in this order
    ShardOf,                \* [Keys -> Shards]
    Records,                \* the records written: [val, exp], exp = 0 is "never"
    Commands,               \* those issued: "put", "delete", "update", "batch", "flushall"
    Batches,                \* the deltas MultiWrite is called with
    Absent, Nobody,
    Policy,                 \* "always", "everysec" or "no"
    SegmentSize,
    MaxLSN, MaxNow,         \* bounds: LSNs handed out, clock readings
    MaxSnapshots,           \* bound: snapshots begun
    MaxCrashes, CrashKinds  \* bound on crashes; subset of {"kill", "power"}

ASSUME DurableAssumption ==
    /\ Policy \in {"always", "everysec", "no"}
    /\ CrashKinds \subseteq {"kill", "power"}
    /\ IsFiniteSet(Shards) /\ Shards = 1 .. Cardinality(Shards)
    /\ ShardOf \in [Keys -> Shards]
    /\ Absent \notin Records /\ \A r \in Records : r.exp \in Nat
    /\ \A delta \in Batches :
          /\ DOMAIN delta # {} /\ DOMAIN delta \subseteq Keys /\ IsFiniteSet(DOMAIN delta)
          /\ delta \in [DOMAIN delta -> Records \cup {Absent}]
    /\ IsFiniteSet(Clients) /\ Nobody \notin Clients
    /\ MaxLSN \in Nat /\ MaxNow \in Nat

VARIABLES
    mem,        \* the maps of all shards together
    lock,       \* shard -> client holding its mutex for writing, or Nobody
    now,
    buf, nextLSN,
    segs,       \* segment files: first LSN, records, how many are on stable storage
    pc, op,     \* per client: progress, and the operation it executes
    snap,       \* the snapshot file a process sees
    snapOld,    \* the one a power cut may bring back until the directory is synced
    saver,      \* the goroutine inside persist.Snapshot (snapMu admits one)
    dirty,      \* mutations since the last snapshot, which decide whether to take one
    saves, crashes,
    mode,       \* "up", "down", or "refused" when recovery returned an error
    hist, acked \* history variables: see above; the indices in hist answered

storeVars == <<mem, lock>>
logVars   == <<buf, nextLSN, segs>>
snapVars  == <<snap, snapOld, saver, saves>>
histVars  == <<hist, acked>>
vars == <<storeVars, now, logVars, pc, op, snapVars, dirty, crashes, mode, histVars>>

Empty == [k \in Keys |-> Absent]
NoOp  == [delta |-> <<>>, lsn |-> 0, index |-> 0, wiped |-> 0]
NoSave == [at |-> "idle", lsn |-> 0, dirty |-> 0, image |-> Empty, next |-> 1]

Only(k, r) == [x \in {k} |-> r]
ShardsOf(delta) == {ShardOf[k] : k \in DOMAIN delta}
Overlay(m, delta) == [k \in Keys |-> IF k \in DOMAIN delta THEN delta[k] ELSE m[k]]

(* store.Record.Expired, and what a reader sees of a map at time t. *)
Expired(r, t) == r # Absent /\ r.exp # 0 /\ r.exp <= t
View(m, t) == [k \in Keys |-> IF Expired(m[k], t) THEN Absent ELSE m[k]]

NewSegment(first) == [first |-> first, recs |-> <<>>, stable |-> 0]

Init ==
    /\ mem = Empty /\ lock = [s \in Shards |-> Nobody] /\ now = 0
    /\ buf = <<>> /\ nextLSN = 1 /\ segs = <<NewSegment(1)>>
    /\ pc = [c \in Clients |-> "idle"] /\ op = [c \in Clients |-> NoOp]
    /\ snap = [lsn |-> 0, image |-> Empty] /\ snapOld = snap
    /\ saver = NoSave /\ saves = 0 /\ dirty = 0 /\ crashes = 0 /\ mode = "up"
    /\ hist = <<>> /\ acked = {}

-----------------------------------------------------------------------------
(* The log, at the granularity WalLog refines. *)

(* The bound MaxLSN, leaving room for the batches already under way. *)
Room(c) == nextLSN + Cardinality({d \in Clients \ {c} : pc[d] = "batch"}) <= MaxLSN

(* What LogPut, LogDelete, LogFlushAll and LogBatch count a delta as. *)
Mutations(delta) == IF delta = Empty THEN 1 ELSE Cardinality(DOMAIN delta)

(* Count the mutations, then append: the next LSN, into the buffer. *)
Journal(c, delta) ==
    /\ Room(c)
    /\ dirty' = dirty + Mutations(delta)
    /\ buf' = Append(buf, [lsn |-> nextLSN, delta |-> delta])
    /\ nextLSN' = nextLSN + 1
    /\ hist' = Append(hist, delta)
    /\ op' = [op EXCEPT ![c] = [delta |-> delta, lsn |-> nextLSN,
                                index |-> Len(hist) + 1, wiped |-> 0]]

Drained(ss) ==
    LET n == Len(ss) IN [ss EXCEPT ![n].recs = @ \o buf]

(* Variant of Synced: one record more than was written is reported stable. *)
SyncedPastEnd(ss) ==
    LET n == Len(ss) IN [ss EXCEPT ![n].stable = Len(ss[n].recs) + 1]

Synced(ss) ==
    LET n == Len(ss) IN [ss EXCEPT ![n].stable = Len(ss[n].recs)]

(* Variant of AfterFlush: a sealed segment is not fsynced. *)
AfterFlushNoSync ==
    LET ss == Drained(segs) IN
    IF buf # <<>> /\ Len(ss[Len(ss)].recs) >= SegmentSize
    THEN Append(ss, NewSegment(nextLSN))
    ELSE ss

(* drainLocked: write the buffer, and rotate a segment that is full. *)
AfterFlush ==
    LET ss == Drained(segs) IN
    IF buf # <<>> /\ Len(ss[Len(ss)].recs) >= SegmentSize
    THEN Append(Synced(ss), NewSegment(nextLSN))
    ELSE ss

FlushLog ==
    /\ mode = "up" /\ buf # <<>>
    /\ segs' = AfterFlush /\ buf' = <<>>
    /\ UNCHANGED <<storeVars, now, nextLSN, pc, op, snapVars, dirty, crashes, mode, histVars>>

SyncLog ==
    /\ mode = "up" /\ Policy = "everysec"
    /\ segs' = Synced(AfterFlush) /\ buf' = <<>>
    /\ UNCHANGED <<storeVars, now, nextLSN, pc, op, snapVars, dirty, crashes, mode, histVars>>

-----------------------------------------------------------------------------
(* Commands on the memory store.  The shard mutex is taken, the delta      *)
(* journalled, the map changed and the mutex released, in this order;      *)
(* Await and the reply follow with no mutex held.                          *)

Goto(c, where) == pc' = [pc EXCEPT ![c] = where]
Free(s) == lock[s] = Nobody

(* Variant of Put: the shard's mutex is not held across the append. *)
PutUnlocked(c, k, r) ==
    /\ "put" \in Commands
    /\ mode = "up" /\ pc[c] = "idle" /\ Free(ShardOf[k])
    /\ Journal(c, Only(k, r)) /\ Goto(c, "apply")
    /\ UNCHANGED <<storeVars, now, segs, snapVars, crashes, mode, acked>>

Put(c, k, r) ==
    /\ "put" \in Commands
    /\ mode = "up" /\ pc[c] = "idle" /\ Free(ShardOf[k])
    /\ lock' = [lock EXCEPT ![ShardOf[k]] = c]
    /\ Journal(c, Only(k, r)) /\ Goto(c, "apply")
    /\ UNCHANGED <<mem, now, segs, snapVars, crashes, mode, acked>>

(* Delete of a key with no record returns before journalling; one that has *)
(* expired but is still in the map is journalled like a live one.          *)
Delete(c, k) ==
    /\ "delete" \in Commands
    /\ mode = "up" /\ pc[c] = "idle" /\ Free(ShardOf[k]) /\ mem[k] # Absent
    /\ lock' = [lock EXCEPT ![ShardOf[k]] = c]
    /\ Journal(c, Only(k, Absent)) /\ Goto(c, "apply")
    /\ UNCHANGED <<mem, now, segs, snapVars, crashes, mode, acked>>

(* Update: an expired record is dropped, unjournalled, before fn runs; fn  *)
(* answers with a record, a deletion or "no change".                       *)
Update(c, k) ==
    /\ "update" \in Commands
    /\ mode = "up" /\ pc[c] = "idle" /\ Free(ShardOf[k])
    /\ mem' = [mem EXCEPT ![k] = View(mem, now)[k]]
    /\ \/ \E r \in Records \cup {Absent} :
             /\ r = Absent => mem'[k] # Absent
             /\ Journal(c, Only(k, r)) /\ Goto(c, "apply")
             /\ lock' = [lock EXCEPT ![ShardOf[k]] = c]
       \/ UNCHANGED <<lock, buf, nextLSN, dirty, hist, op, pc>>
    /\ UNCHANGED <<now, segs, snapVars, crashes, mode, acked>>

(* MultiWrite: every shard of the batch is locked, in ascending order, ... *)
BeginBatch(c, delta) ==
    /\ "batch" \in Commands
    /\ mode = "up" /\ pc[c] = "idle"
    /\ Room(c)
    /\ op' = [op EXCEPT ![c].delta = delta] /\ Goto(c, "batch")
    /\ UNCHANGED <<storeVars, now, logVars, snapVars, dirty, crashes, mode, histVars>>

(* Variant of NextShard: shards are locked in the order of the batch. *)
NextShardUnsorted(c) ==
    LET left == {s \in ShardsOf(op[c].delta) : lock[s] # c}
    IN IF c = CHOOSE d \in Clients : TRUE THEN Max(left) ELSE Min(left)

NextShard(c) == Min({s \in ShardsOf(op[c].delta) : lock[s] # c})

LockShard(c) ==
    /\ pc[c] = "batch" /\ \E s \in ShardsOf(op[c].delta) : lock[s] # c
    /\ Free(NextShard(c))
    /\ lock' = [lock EXCEPT ![NextShard(c)] = c]
    /\ UNCHANGED <<mem, now, logVars, pc, op, snapVars, dirty, crashes, mode, histVars>>

(* ... before the batch is journalled as one record. *)
JournalBatch(c) ==
    /\ pc[c] = "batch" /\ \A s \in ShardsOf(op[c].delta) : lock[s] = c
    /\ Journal(c, op[c].delta) /\ Goto(c, "apply")
    /\ UNCHANGED <<storeVars, now, segs, snapVars, crashes, mode, acked>>

(* putLocked and evictLocked, then the unlocks. *)
Apply(c) ==
    /\ pc[c] = "apply"
    /\ mem' = Overlay(mem, op[c].delta)
    /\ lock' = [s \in Shards |-> IF lock[s] = c THEN Nobody ELSE lock[s]]
    /\ Goto(c, "await")
    /\ UNCHANGED <<now, logVars, op, snapVars, dirty, crashes, mode, histVars>>

(* FlushAll is journalled with no mutex held, then wipes shard after shard.*)
FlushAll(c) ==
    /\ "flushall" \in Commands
    /\ mode = "up" /\ pc[c] = "idle"
    /\ Journal(c, Empty) /\ Goto(c, "wipe")
    /\ UNCHANGED <<storeVars, now, segs, snapVars, crashes, mode, acked>>

Wipe(c) ==
    LET s == op[c].wiped + 1 IN
    /\ pc[c] = "wipe" /\ Free(s)
    /\ mem' = [k \in Keys |-> IF ShardOf[k] = s THEN Absent ELSE mem[k]]
    /\ op' = [op EXCEPT ![c].wiped = s]
    /\ IF s + 1 \in Shards THEN UNCHANGED pc ELSE Goto(c, "await")
    /\ UNCHANGED <<lock, now, logVars, snapVars, dirty, crashes, mode, histVars>>

(* Await: Sync(lsn) under "always".  Then the server's Flush, and only     *)
(* then the reply.                                                         *)
Unstable(lsn) ==
    \/ \E i \in 1 .. Len(buf) : buf[i].lsn = lsn
    \/ \E i \in 1 .. Len(segs) : \E j \in segs[i].stable + 1 .. Len(segs[i].recs) :
          segs[i].recs[j].lsn = lsn

(* Variant of Reply: the reply is written before the log is flushed. *)
ReplyBeforeFlush(c) ==
    /\ pc[c] = "await"
    /\ acked' = acked \cup {op[c].index}
    /\ op' = [op EXCEPT ![c] = NoOp] /\ Goto(c, "idle")
    /\ UNCHANGED <<storeVars, now, logVars, snapVars, dirty, crashes, mode, hist>>

Reply(c) ==
    /\ pc[c] = "await"
    /\ segs' = IF Policy = "always" /\ Unstable(op[c].lsn)
               THEN Synced(AfterFlush) ELSE AfterFlush
    /\ buf' = <<>>
    /\ acked' = acked \cup {op[c].index}
    /\ op' = [op EXCEPT ![c] = NoOp] /\ Goto(c, "idle")
    /\ UNCHANGED <<storeVars, now, nextLSN, snapVars, dirty, crashes, mode, hist>>

(* Get (and the expiry cycle through it) drops an expired record under the *)
(* shard's mutex without journalling it.                                   *)
Reclaim(k) ==
    /\ mode = "up" /\ Free(ShardOf[k]) /\ Expired(mem[k], now)
    /\ mem' = [mem EXCEPT ![k] = Absent]
    /\ UNCHANGED <<lock, now, logVars, pc, op, snapVars, dirty, crashes, mode, histVars>>

Tick ==
    /\ now < MaxNow /\ now' = now + 1
    /\ UNCHANGED <<storeVars, logVars, pc, op, snapVars, dirty, crashes, mode, histVars>>

-----------------------------------------------------------------------------
(* persist.Snapshot: the LSN is read first; the walk takes one shard at a  *)
(* time; the image is fsynced and renamed into place, the directory        *)
(* synced, and only then is the log trimmed.                               *)
SaveBegin ==
    /\ mode = "up" /\ saver.at = "idle" /\ saves < MaxSnapshots
    /\ saver' = [NoSave EXCEPT !.at = "count", !.lsn = nextLSN - 1]
    /\ saves' = saves + 1
    /\ UNCHANGED <<storeVars, now, logVars, pc, op, snap, snapOld, dirty, crashes, mode, histVars>>

(* dirtyAtStart, also before the walk. *)
SaveCount ==
    /\ saver.at = "count"
    /\ saver' = [saver EXCEPT !.at = "walk", !.dirty = dirty]
    /\ UNCHANGED <<storeVars, now, logVars, pc, op, snap, snapOld, saves, dirty, crashes, mode, histVars>>

SaveShard ==
    /\ saver.at = "walk" /\ saver.next \in Shards /\ Free(saver.next)
    /\ saver' = [saver EXCEPT
          !.image = [k \in Keys |-> IF ShardOf[k] = saver.next THEN mem[k] ELSE @[k]],
          !.next = @ + 1]
    /\ UNCHANGED <<storeVars, now, logVars, pc, op, snap, snapOld, saves, dirty, crashes, mode, histVars>>

(* Variant of SaveRename: the LSN is read after the walk. *)
SaveRenameLateLSN ==
    /\ saver.at = "walk" /\ saver.next \notin Shards
    /\ snap' = [lsn |-> nextLSN - 1, image |-> saver.image]
    /\ saver' = [saver EXCEPT !.at = "syncdir", !.lsn = nextLSN - 1]
    /\ UNCHANGED <<storeVars, now, logVars, pc, op, snapOld, saves, dirty, crashes, mode, histVars>>

(* Variant of SaveRename: the directory is not synced before the trim. *)
SaveRenameNoSyncDir ==
    /\ saver.at = "walk" /\ saver.next \notin Shards
    /\ snap' = [lsn |-> saver.lsn, image |-> saver.image]
    /\ saver' = [saver EXCEPT !.at = "trim"]
    /\ UNCHANGED <<storeVars, now, logVars, pc, op, snapOld, saves, dirty, crashes, mode, histVars>>

SaveRename ==
    /\ saver.at = "walk" /\ saver.next \notin Shards
    /\ snap' = [lsn |-> saver.lsn, image |-> saver.image]
    /\ saver' = [saver EXCEPT !.at = "syncdir"]
    /\ UNCHANGED <<storeVars, now, logVars, pc, op, snapOld, saves, dirty, crashes, mode, histVars>>

SaveSyncDir ==
    /\ saver.at = "syncdir"
    /\ snapOld' = snap
    /\ saver' = [saver EXCEPT !.at = "trim"]
    /\ UNCHANGED <<storeVars, now, logVars, pc, op, snap, saves, dirty, crashes, mode, histVars>>

(* Variant of Remaining: the counter is reset. *)
RemainingNone == 0

(* Only what was counted before the walk is subtracted: the image may miss *)
(* what came later.                                                        *)
Remaining == dirty - saver.dirty

SaveTrim ==
    /\ saver.at = "trim"
    /\ \E n \in 0 .. Len(segs) - 1 :
          /\ \A i \in 1 .. n : segs[i + 1].first <= saver.lsn + 1
          /\ segs' = SubSeq(segs, n + 1, Len(segs))
    /\ dirty' = Remaining /\ saver' = NoSave
    /\ UNCHANGED <<storeVars, now, buf, nextLSN, pc, op, snap, snapOld, saves, crashes, mode, histVars>>

(* Any step of snapshot.Write may fail; the temporary file is abandoned. *)
SaveFails ==
    /\ saver.at \in {"walk", "syncdir"}
    /\ saver' = NoSave
    /\ UNCHANGED <<storeVars, now, logVars, pc, op, snap, snapOld, saves, dirty, crashes, mode, histVars>>
-----------------------------------------------------------------------------
(* Crashes.  A kill loses the process: maps, buffer, calls in flight.  A   *)
(* power cut also loses the page cache: of every segment, a prefix no      *)
(* shorter than its stable part survives, perhaps ending in a torn record. *)

TornRecord == [lsn |-> -1, delta |-> <<>>]

Cut(seg, n, torn) ==
    [first |-> seg.first, recs |-> SubSeq(seg.recs, 1, n) \o torn, stable |-> n + Len(torn)]

Cuts(seg) ==
    {Cut(seg, n, <<>>) : n \in seg.stable .. Len(seg.recs)}
    \cup {Cut(seg, n, <<TornRecord>>) : n \in seg.stable .. Len(seg.recs) - 1}

(* A segment that is wholly on stable storage stays as it is. *)
PowerCutImages ==
    LET open == {i \in 1 .. Len(segs) : segs[i].stable < Len(segs[i].recs)}
        cuts == {c \in [open -> UNION {Cuts(segs[i]) : i \in open}] :
                    \A i \in open : c[i] \in Cuts(segs[i])}
    IN {[i \in 1 .. Len(segs) |-> IF i \in open THEN c[i] ELSE segs[i]] : c \in cuts}

Down ==
    /\ crashes < MaxCrashes /\ crashes' = crashes + 1
    /\ mode' = "down"
    /\ mem' = Empty /\ lock' = [s \in Shards |-> Nobody] /\ buf' = <<>>
    /\ pc' = [c \in Clients |-> "idle"] /\ op' = [c \in Clients |-> NoOp]
    /\ saver' = NoSave
    /\ dirty' = 0
    /\ UNCHANGED <<now, nextLSN, saves, histVars>>

Kill ==
    /\ mode = "up" /\ "kill" \in CrashKinds /\ Down
    /\ UNCHANGED <<segs, snap, snapOld>>

PowerCut ==
    /\ mode = "up" /\ "power" \in CrashKinds /\ Down
    /\ segs' \in PowerCutImages
    /\ snap' \in {snap, snapOld} /\ snapOld' = snap'

(* persist.Close on an idle server: log.Close drains and fsyncs; the final *)
(* snapshot, when one is due, is a run of the Save actions before it.      *)
Shutdown ==
    /\ mode = "up" /\ saver.at = "idle" /\ \A c \in Clients : pc[c] = "idle"
    /\ Down /\ segs' = Synced(AfterFlush)
    /\ UNCHANGED <<snap, snapOld>>

-----------------------------------------------------------------------------
(* Recovery: snapshot.Load, wal.Replay and wal.Open, from segments ss and  *)
(* snapshot sn.                                                            *)

(* The records, by segment and by position in it, in the order they are    *)
(* read.                                                                   *)
Places(ss) == UNION {{<<i, j>> : j \in 1 .. Len(ss[i].recs)} : i \in 1 .. Len(ss)}
Earlier(p, q) == p[1] < q[1] \/ (p[1] = q[1] /\ p[2] < q[2])
RecordAt(ss, p) == ss[p[1]].recs[p[2]]
Latest(P) == CHOOSE p \in P : \A q \in P : p = q \/ Earlier(q, p)

(* The record at q is read right after the one at p. *)
Follows(ss, p, q) ==
    \/ p[1] = q[1] /\ p[2] + 1 = q[2]
    \/ /\ p[1] < q[1] /\ p[2] = Len(ss[p[1]].recs) /\ q[2] = 1
       /\ \A i \in p[1] + 1 .. q[1] - 1 : ss[i].recs = <<>>

(* A record that is torn, or whose LSN does not continue the sequence. *)
Damaged(ss, q) ==
    \/ RecordAt(ss, q).lsn = TornRecord.lsn
    \/ \E p \in Places(ss) :
          Follows(ss, p, q) /\ RecordAt(ss, q).lsn # RecordAt(ss, p).lsn + 1

(* Replay stops at the first of those. *)
Good(ss) ==
    LET bad == {q \in Places(ss) : Damaged(ss, q)}
    IN {q \in Places(ss) : \A p \in bad : Earlier(q, p)}

(* Damage before the last segment is ErrTornMidLog. *)
Refuses(ss) == \E p \in Places(ss) \ Good(ss) : p[1] < Len(ss)

(* Damage in the last segment is truncated away, durably. *)
Repaired(ss) ==
    LET n == Len(ss)
        keep == Cardinality({p \in Good(ss) : p[1] = n})
    IN IF keep = Len(ss[n].recs) THEN ss
       ELSE [ss EXCEPT ![n] = [first |-> ss[n].first, stable |-> keep,
                               recs |-> SubSeq(ss[n].recs, 1, keep)]]

(* The snapshot, overlaid by the records it does not cover. *)
Recovered(ss, sn) ==
    LET good == Good(ss) IN
    [k \in Keys |->
        LET P == {p \in good : RecordAt(ss, p).lsn > sn.lsn /\ k \in DOMAIN RecordAt(ss, p).delta}
        IN IF P = {} THEN sn.image[k] ELSE RecordAt(ss, Latest(P)).delta[k]]

(* ReplayResult.LastLSN: every record read sets it, skipped ones included. *)
LastLSN(ss, sn) == IF Good(ss) = {} THEN sn.lsn ELSE RecordAt(ss, Latest(Good(ss))).lsn

(* The map after the first n deltas of the history. *)
After(n) ==
    [k \in Keys |->
        LET I == {i \in 1 .. n : k \in DOMAIN hist[i]}
        IN IF I = {} THEN Absent ELSE hist[Max(I)][k]]

(* The prefixes of the history that look like map m, at all the keys in K. *)
Matches(m, K) ==
    LET seen == View(m, now) IN
    {n \in 0 .. Len(hist) :
        LET then == View(After(n), now) IN \A k \in K : seen[k] = then[k]}

Recover ==
    /\ mode = "down"
    /\ IF Refuses(segs)
       THEN mode' = "refused" /\ UNCHANGED <<mem, nextLSN, segs, hist, acked>>
       ELSE /\ mode' = "up"
            /\ mem' = Recovered(segs, snap)
            /\ nextLSN' = LastLSN(segs, snap) + 1
            /\ segs' = Append(Repaired(segs), NewSegment(nextLSN'))
            /\ hist' = SubSeq(hist, 1, Max(Matches(mem', Keys) \cup {0}))
            /\ acked' = acked \cap (1 .. Len(hist'))
    /\ UNCHANGED <<lock, now, buf, pc, op, snapVars, dirty, crashes>>

-----------------------------------------------------------------------------
ClientStep(c) ==
    \/ LockShard(c) \/ JournalBatch(c) \/ Apply(c) \/ Wipe(c) \/ Reply(c)

Next ==
    \/ \E c \in Clients :
          \/ \E k \in Keys, r \in Records : Put(c, k, r)
          \/ \E k \in Keys : Delete(c, k) \/ Update(c, k)
          \/ \E delta \in Batches : BeginBatch(c, delta)
          \/ FlushAll(c)
          \/ ClientStep(c)
    \/ \E k \in Keys : Reclaim(k)
    \/ Tick \/ FlushLog \/ SyncLog
    \/ SaveBegin \/ SaveCount \/ SaveShard \/ SaveRename \/ SaveSyncDir \/ SaveTrim \/ SaveFails
    \/ Kill \/ PowerCut \/ Shutdown \/ Recover

Spec == Init /\ [][Next]_vars

(* sync.Mutex serves a starving waiter first, so a client that can run and *)
(* whose next mutex is released again and again gets it.                   *)
FairSpec == Spec /\ \A c \in Clients : SF_vars(ClientStep(c))

-----------------------------------------------------------------------------
TypeOK ==
    /\ mem \in [Keys -> Records \cup {Absent}]
    /\ lock \in [Shards -> Clients \cup {Nobody}]
    /\ now \in 0 .. MaxNow /\ nextLSN \in 1 .. MaxLSN + 1
    /\ \A i \in 1 .. Len(segs) : segs[i].stable \in 0 .. Len(segs[i].recs)
    /\ pc \in [Clients -> {"idle", "batch", "apply", "wipe", "await"}]
    /\ mode \in {"up", "down", "refused"}
    /\ acked \subseteq 1 .. Len(hist)

(* Journalling under the key: whenever no operation holds a key's shard,   *)
(* what readers see of the key is what replaying the log would rebuild.    *)
MemoryMatchesLog ==
    mode = "up" /\ (\A c \in Clients : pc[c] # "wipe") =>
        \A k \in Keys : Free(ShardOf[k]) =>
            View(mem, now)[k] = View(After(Len(hist)), now)[k]

(* The last acknowledged entry of the history that writes a key of K. *)
LastAcked(K) == Max({0} \cup {i \in acked : DOMAIN hist[i] \cap K # {}})

(* Without a snapshot, a kill at any instant: recovery starts and rebuilds *)
(* a prefix of the history that holds every acknowledged command.          *)
PrefixSurvivesKill ==
    mode = "up" =>
        ~Refuses(segs) /\ \E n \in Matches(Recovered(segs, snap), Keys) : n >= LastAcked(Keys)

(* Without a snapshot, a power cut at any instant: the same under          *)
(* "always"; under the other policies some prefix of the history.          *)
PrefixSurvivesPowerCut ==
    mode = "up" => \A ss \in PowerCutImages :
        /\ ~Refuses(ss)
        /\ \E n \in Matches(Recovered(ss, snap), Keys) :
              Policy = "always" => n >= LastAcked(Keys)

(* With snapshots being taken, renamed and the log trimmed behind them, a  *)
(* kill never takes a key back to a value older than the last acknowledged.*)
KeysSurviveKill ==
    mode = "up" => \A k \in Keys :
        ~Refuses(segs) /\ \E n \in Matches(Recovered(segs, snap), {k}) : n >= LastAcked({k})

(* The same for a power cut under "always", which may also bring back the  *)
(* previous snapshot until the directory is synced.                        *)
KeysSurvivePowerCut ==
    mode = "up" => \A ss \in PowerCutImages, sn \in {snap, snapOld}, k \in Keys :
        /\ ~Refuses(ss)
        /\ \E n \in Matches(Recovered(ss, sn), {k}) :
              Policy = "always" => n >= LastAcked({k})

(* Dirty: a count of zero on a quiet server means the snapshot file holds  *)
(* what the store does, so save points and Close may skip the next one.    *)
(* FLUSHALL, journalled with no mutex held, is outside this.               *)
CleanMeansSaved ==
    mode = "up" /\ dirty = 0 /\ (\A c \in Clients : pc[c] \in {"idle", "await"}) =>
        View(snap.image, now) = View(mem, now)

(* LogBatch records mutations that must replay atomically: what a crash    *)
(* leaves is the outcome of whole commands.                                *)
WholeCommandsSurviveKill ==
    mode = "up" => Matches(Recovered(segs, snap), Keys) # {}

(* SyncAlways: a power cut loses nothing that was acknowledged, or else    *)
(* recovery says so by refusing to start.                                  *)
AckedSurvivesPowerCut ==
    mode = "up" => \A ss \in PowerCutImages, k \in Keys :
        Refuses(ss) \/ \E n \in Matches(Recovered(ss, snap), {k}) : n >= LastAcked({k})

(* Lock ordering: no set of clients waits on each other's shards for ever. *)
EveryCommandCompletes ==
    \A c \in Clients : pc[c] # "idle" ~> pc[c] = "idle"
=============================================================================
