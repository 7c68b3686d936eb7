--------------------------- MODULE DurableProofs ---------------------------
(***************************************************************************)
(* What the shard mutexes and the order of a snapshot's steps give the     *)
(* durable engine, for any number of clients, keys, shards and snapshots,  *)
(* until the first crash and without FLUSHALL: the maps are what the log   *)
(* would rebuild, a snapshot lags behind them at each key by no more than  *)
(* the log still holds, and a dirty count of zero means it does not lag.   *)
(***************************************************************************)
EXTENDS DurableLog

\* What a reader sees of a record at time t.
Seen(r, t) == IF Expired(r, t) THEN Absent ELSE r

\* The value of a key after the first n deltas of a history.
Upto(h, n, k) ==
    LET I == {i \in 1 .. n : k \in DOMAIN h[i]} IN IF I = {} THEN Absent ELSE h[Max(I)][k]

\* A shard's mutex is held by a command that is in the log and not yet in
\* the map.
Applies(s) == lock[s] \in Clients /\ pc[lock[s]] = "apply"

\* The mutexes: a logged command holds those of its keys, and no one holds
\* one who is not in the middle of a command.
LocksInv ==
    /\ \A c \in Clients : pc[c] # "wipe"
    /\ \A c \in Clients : pc[c] = "apply" => \A k \in DOMAIN op[c].delta : lock[ShardOf[k]] = c
    /\ \A s \in Shards : lock[s] # Nobody => pc[lock[s]] \in {"batch", "apply"}

\* The value of a key once the command that holds its mutex, if it is in the
\* log, has changed the map.
Settled(k) ==
    LET c == lock[ShardOf[k]]
    IN IF Applies(ShardOf[k]) /\ k \in DOMAIN op[c].delta THEN op[c].delta[k] ELSE mem[k]

MemInv == \A k \in Keys : Seen(Settled(k), now) = Seen(Upto(hist, Len(hist), k), now)

\* A value looks like what the key held at some instant since LSN l.
Covers(h, t, l, v, k) == \E m \in l .. Len(h) : Seen(v, t) = Seen(Upto(h, m, k), t)

\* The snapshots, and the one being taken: each key at some instant since
\* the LSN read first, and the log from that LSN on.
Saver == [at : {"idle", "count", "walk", "syncdir", "trim"}, lsn : Nat, dirty : Nat,
          image : [Keys -> Value], next : Nat]
Sound(sn) ==
    /\ sn \in [lsn : Nat, image : [Keys -> Value]]
    /\ sn.lsn <= Len(hist) /\ segs[1].first <= sn.lsn + 1
    /\ \A k \in Keys : Covers(hist, now, sn.lsn, sn.image[k], k)
SnapInv ==
    /\ saver \in Saver /\ saver.next >= 1
    /\ Sound(snap) /\ Sound(snapOld)
    /\ saver.at # "idle" => saver.lsn <= Len(hist) /\ segs[1].first <= saver.lsn + 1
    /\ saver.at = "count" => saver.next = 1
    /\ saver.at = "walk" =>
          \A k \in Keys : ShardOf[k] < saver.next => Covers(hist, now, saver.lsn, saver.image[k], k)
    /\ saver.at \in {"syncdir", "trim"} => snap.lsn = saver.lsn
    /\ saver.at = "trim" => snapOld.lsn = saver.lsn

\* An image has what the map holds of a key, and no command is about to
\* change it.
Saved(image, k) == Seen(image[k], now) = Seen(mem[k], now) /\ ~Applies(ShardOf[k])
CleanInv ==
    /\ dirty \in Nat
    /\ saver.at \in {"walk", "syncdir", "trim"} => saver.dirty <= dirty
    /\ dirty = 0 => \A k \in Keys : Saved(snap.image, k)
    /\ saver.at = "walk" /\ dirty = saver.dirty =>
          \A k \in Keys : ShardOf[k] < saver.next => Saved(saver.image, k)
    /\ saver.at \in {"syncdir", "trim"} /\ dirty = saver.dirty =>
          \A k \in Keys : Saved(snap.image, k)

\* The invariant of the first incarnation without FLUSHALL.
KeyInv == LocksInv /\ MemInv /\ SnapInv /\ CleanInv
StoreInv == FirstLife /\ (crashes = 0 => KeyInv)

-----------------------------------------------------------------------------
(* Lemmas on the operators. *)

\* What is seen of a record, and how the clock changes it.
LEMMA SeenFacts ==
  /\ \A t : Seen(Absent, t) = Absent
  /\ \A r, t : Seen(Seen(r, t), t) = Seen(r, t)
  /\ \A r, t : Expired(r, t) => Seen(r, t) = Absent
  /\ \A r, q \in Value, t \in Nat : Seen(r, t) = Seen(q, t) => Seen(r, t + 1) = Seen(q, t + 1)
  /\ \A m, t : \A k \in Keys : View(m, t)[k] = Seen(m[k], t)
  /\ \A r \in Value, t \in Nat : Seen(r, t) \in Value
<1>1. \A t : Seen(Absent, t) = Absent
  BY Zenon DEF Seen, Expired
<1>2. \A r, t : Seen(Seen(r, t), t) = Seen(r, t)
  BY Zenon DEF Seen, Expired
<1>3. \A r \in Value, t \in Nat : Expired(r, t) => Expired(r, t + 1)
  <2>1. \A r \in Value : r # Absent => r.exp \in Nat
    BY DurableAssumption DEF Value
  <2> QED BY <2>1 DEF Expired
<1>4. \A r, q \in Value, t \in Nat : Seen(r, t) = Seen(q, t) => Seen(r, t + 1) = Seen(q, t + 1)
  <2> SUFFICES ASSUME NEW r \in Value, NEW q \in Value, NEW t \in Nat, Seen(r, t) = Seen(q, t)
               PROVE  Seen(r, t + 1) = Seen(q, t + 1)
    BY Zenon
  <2>1. ASSUME NEW x \in Value, Seen(x, t) = Absent PROVE Seen(x, t + 1) = Absent
    <3>1. x = Absent \/ Expired(x, t)
      BY <2>1, Zenon DEF Seen
    <3>2. x = Absent \/ Expired(x, t + 1)
      BY <1>3, <3>1, Zenon
    <3> QED BY <1>1, <3>2, Zenon DEF Seen
  <2>2. CASE Seen(r, t) = Absent
    BY <2>1, <2>2, Zenon
  <2>3. CASE Seen(r, t) # Absent
    BY <2>3, Zenon DEF Seen
  <2> QED BY <2>2, <2>3
<1>5. \A m, t : \A k \in Keys : View(m, t)[k] = Seen(m[k], t)
  BY Zenon DEF View, Seen
<1> QED BY <1>1, <1>2, <1>4, <1>5, Zenon DEF Seen, Value

\* What a view shows of a key.
LEMMA ViewSeen ==
  ASSUME NEW m, NEW t, NEW k \in Keys
  PROVE  View(m, t)[k] = Seen(m[k], t)
  BY SeenFacts

\* The writes of a key after LSN l, up to n.
Writes(h, l, n, k) == {i \in l + 1 .. n : k \in DOMAIN h[i]}

\* The last write of a key is the last one after l, if there is one.
LEMMA UptoSplit ==
  ASSUME NEW h, NEW k, NEW l \in Nat, NEW n \in Nat, l <= n
  PROVE  /\ Writes(h, l, n, k) = {} => Upto(h, n, k) = Upto(h, l, k)
         /\ Writes(h, l, n, k) # {} => Upto(h, n, k) = h[Max(Writes(h, l, n, k))][k]
<1> DEFINE I == {i \in l + 1 .. n : k \in DOMAIN h[i]}
           J == {i \in 1 .. n : k \in DOMAIN h[i]}
           H == {i \in 1 .. l : k \in DOMAIN h[i]}
<1>0. Writes(h, l, n, k) = I
  BY DEF Writes
<1>1. Upto(h, n, k) = (IF J = {} THEN Absent ELSE h[Max(J)][k])
      /\ Upto(h, l, k) = (IF H = {} THEN Absent ELSE h[Max(H)][k])
  BY Zenon DEF Upto
<1>2. CASE I = {}
  <2>1. \A i \in 1 .. n : i \in 1 .. l \/ i \in l + 1 .. n
    OBVIOUS
  <2>2. \A i \in 1 .. l : i \in 1 .. n
    OBVIOUS
  <2>3. J = H
    BY <1>2, <2>1, <2>2, Zenon
  <2>4. Upto(h, n, k) = Upto(h, l, k)
    <3> HIDE DEF J, H
    <3>1. Upto(h, n, k) = IF H = {} THEN Absent ELSE h[Max(H)][k]
      BY <1>1, <2>3
    <3> QED BY <1>1, <3>1
  <2> HIDE DEF I
  <2> QED BY <1>0, <1>2, <2>4, Zenon
<1>3. CASE I # {}
  <2>1. \A i \in l + 1 .. n : i \in 0 .. n /\ i \in 1 .. n
    OBVIOUS
  <2>2. \A i \in 1 .. n : i \in 0 .. n /\ (i > l => i \in l + 1 .. n)
    OBVIOUS
  <2>3. I \subseteq 0 .. n /\ I \subseteq J /\ J \subseteq 0 .. n /\ J # {}
    BY <1>3, <2>1, <2>2, Zenon
  <2>4. Max(I) \in I /\ \A y \in I : y <= Max(I)
    BY <1>3, <2>3, GreatestOf, Zenon
  <2>5. Max(J) \in J /\ \A y \in J : y <= Max(J)
    BY <2>3, GreatestOf, Zenon
  <2>6. Max(I) \in Nat /\ Max(J) \in Nat /\ Max(I) > l /\ Max(I) <= Max(J)
    <3>1. Max(I) \in l + 1 .. n /\ Max(J) \in 1 .. n /\ Max(I) <= Max(J)
      BY <2>3, <2>4, <2>5, Zenon
    <3> HIDE DEF I, J
    <3> QED BY <3>1
  <2>7. Max(J) > l
    <3> HIDE DEF I, J
    <3> QED BY <2>6
  <2>8. Max(J) \in I
    BY <2>2, <2>5, <2>7, Zenon
  <2>9. Max(J) <= Max(I)
    BY <2>4, <2>8, Zenon
  <2>10. Max(J) = Max(I)
    <3> HIDE DEF I, J
    <3> QED BY <2>6, <2>9
  <2>11. Upto(h, n, k) = h[Max(I)][k]
    <3> HIDE DEF I, J, H
    <3> QED BY <1>1, <2>3, <2>10, Zenon
  <2> HIDE DEF I
  <2> QED BY <1>0, <1>3, <2>11, Zenon
<1> QED BY <1>2, <1>3

\* A history's values, and what appending a delta does to them.
LEMMA UptoFacts ==
  ASSUME NEW h \in Seq(Delta), NEW k \in Keys
  PROVE  /\ \A n \in 0 .. Len(h) : Upto(h, n, k) \in Value
         /\ \A d \in Delta :
               /\ Append(h, d) \in Seq(Delta) /\ Len(Append(h, d)) = Len(h) + 1
               /\ \A n \in 0 .. Len(h) : Upto(Append(h, d), n, k) = Upto(h, n, k)
               /\ Upto(Append(h, d), Len(h) + 1, k) =
                     IF k \in DOMAIN d THEN d[k] ELSE Upto(h, Len(h), k)
<1>0. Len(h) \in Nat
  OBVIOUS
<1>1. ASSUME NEW n \in 0 .. Len(h) PROVE Upto(h, n, k) \in Value
  <2> DEFINE J == {i \in 1 .. n : k \in DOMAIN h[i]}
  <2>1. Upto(h, n, k) = IF J = {} THEN Absent ELSE h[Max(J)][k]
    BY Zenon DEF Upto
  <2>2. CASE J = {}
    BY <2>1, <2>2, Zenon DEF Value
  <2>3. CASE J # {}
    <3>1. J \subseteq 0 .. n /\ n \in Nat
      OBVIOUS
    <3>2. Max(J) \in J
      BY <2>3, <3>1, GreatestOf, Zenon
    <3>3. Max(J) \in 1 .. n /\ k \in DOMAIN h[Max(J)]
      BY <3>2, Zenon
    <3> HIDE DEF J
    <3>4. h[Max(J)] \in Delta
      BY <3>3
    <3>5. h[Max(J)][k] \in Value
      BY <3>3, <3>4, Zenon DEF Delta
    <3> QED BY <2>1, <2>3, <3>5, Zenon
  <2> QED BY <2>2, <2>3
<1>2. ASSUME NEW d \in Delta
      PROVE  /\ Append(h, d) \in Seq(Delta) /\ Len(Append(h, d)) = Len(h) + 1
             /\ \A n \in 0 .. Len(h) : Upto(Append(h, d), n, k) = Upto(h, n, k)
             /\ Upto(Append(h, d), Len(h) + 1, k) =
                   IF k \in DOMAIN d THEN d[k] ELSE Upto(h, Len(h), k)
  <2> DEFINE g == Append(h, d)
             L == Len(h)
  <2>1. g \in Seq(Delta) /\ Len(g) = L + 1 /\ g[L + 1] = d /\ \A i \in 1 .. L : g[i] = h[i]
    OBVIOUS
  <2> HIDE DEF g, L
  <2>2. L \in Nat
    BY <1>0 DEF L
  <2>3. ASSUME NEW n \in 0 .. L PROVE Upto(g, n, k) = Upto(h, n, k)
    <3>1. \A i \in 1 .. n : i \in 1 .. L
      BY <2>2
    <3> DEFINE G == {i \in 1 .. n : k \in DOMAIN g[i]}
               H == {i \in 1 .. n : k \in DOMAIN h[i]}
    <3>2. G = H
      BY <2>1, <3>1, Zenon
    <3>3. CASE H = {}
      BY <3>2, <3>3, Zenon DEF Upto
    <3>4. CASE H # {}
      <4>1. H \subseteq 0 .. n /\ n \in Nat
        OBVIOUS
      <4>2. Max(H) \in H
        BY <3>4, <4>1, GreatestOf, Zenon
      <4>3. g[Max(H)] = h[Max(H)]
        BY <2>1, <3>1, <4>2, Zenon
      <4> QED BY <3>2, <3>4, <4>3, Zenon DEF Upto
    <3> QED BY <3>3, <3>4
  <2>4. Upto(g, L + 1, k) = IF k \in DOMAIN d THEN d[k] ELSE Upto(h, L, k)
    <3> DEFINE I == Writes(g, L, L + 1, k)
    <3>1. L + 1 \in Nat /\ L <= L + 1 /\ L \in 0 .. L /\ \A i : i \in L + 1 .. L + 1 <=> i = L + 1
      BY <2>2
    <3>2. (I = {} => Upto(g, L + 1, k) = Upto(g, L, k)) /\ (I # {} => Upto(g, L + 1, k) = g[Max(I)][k])
      BY <2>2, <3>1, UptoSplit, Zenon
    <3>3. Upto(g, L, k) = Upto(h, L, k)
      BY <2>3, <3>1, Zenon
    <3>4. CASE k \in DOMAIN d
      <4>1. I = {L + 1}
        BY <2>1, <3>1, <3>4, Zenon DEF Writes
      <4>2. I \subseteq 0 .. L + 1 /\ I # {}
        BY <2>2, <4>1, SMTT(60)
      <4>3. Max(I) \in I
        BY <3>1, <4>2, GreatestOf, Zenon
      <4> QED BY <2>1, <3>2, <3>4, <4>1, <4>2, <4>3, Zenon
    <3>5. CASE k \notin DOMAIN d
      <4>1. I = {}
        BY <2>1, <3>1, <3>5, Zenon DEF Writes
      <4> QED BY <3>2, <3>3, <3>5, <4>1, Zenon
    <3> QED BY <3>4, <3>5
  <2> QED BY <2>1, <2>3, <2>4, Zenon DEF g, L
<1> QED BY <1>1, <1>2, Zenon

\* What a snapshot covers it goes on covering.
LEMMA CoversStays ==
  ASSUME NEW h \in Seq(Delta), NEW k \in Keys, NEW v \in Value, NEW t \in Nat, NEW l \in Nat,
         Covers(h, t, l, v, k)
  PROVE  Covers(h, t + 1, l, v, k) /\ \A d \in Delta : Covers(Append(h, d), t, l, v, k)
<1>1. PICK m \in l .. Len(h) : Seen(v, t) = Seen(Upto(h, m, k), t)
  BY Zenon DEF Covers
<1>2. Len(h) \in Nat /\ m \in 0 .. Len(h)
  BY <1>1
<1>3. Upto(h, m, k) \in Value
  BY <1>2, UptoFacts, Zenon
<1>4. Seen(v, t + 1) = Seen(Upto(h, m, k), t + 1)
  BY <1>1, <1>3, SeenFacts, Zenon
<1>5. ASSUME NEW d \in Delta PROVE Covers(Append(h, d), t, l, v, k)
  <2>1. Upto(Append(h, d), m, k) = Upto(h, m, k) /\ Len(Append(h, d)) = Len(h) + 1
    BY <1>2, UptoFacts, Zenon
  <2>2. m \in l .. Len(Append(h, d))
    BY <1>1, <1>2, <2>1
  <2> QED BY <1>1, <2>1, <2>2, Zenon DEF Covers
<1> QED BY <1>1, <1>4, <1>5, Zenon DEF Covers

-----------------------------------------------------------------------------
(* What a step has to leave alone. *)

\* The types the first incarnation's invariant gives.
LEMMA LogFacts ==
  ASSUME LogInv
  PROVE  /\ hist \in Seq(Delta) /\ Len(hist) \in Nat /\ nextLSN = Len(hist) + 1
         /\ mem \in [Keys -> Value] /\ lock \in [Shards -> Clients \cup {Nobody}] /\ now \in Nat
         /\ pc \in [Clients -> {"idle", "batch"} \cup Logged] /\ op \in [Clients -> Ops]
         /\ \A c \in Clients : op[c].delta \in Delta
         /\ \A c \in Clients : pc[c] = "batch" => op[c].delta \in Batches
         /\ \A k \in Keys : ShardOf[k] \in Shards
         /\ Nobody \notin Clients
<1>1. Log(segs, buf) /\ OpsInv /\ StoreTypes
  BY DEF LogInv
<1>2. hist \in Seq(Delta) /\ nextLSN = Len(hist) + 1
  BY <1>1, Zenon DEF Log
<1>3. Len(hist) \in Nat
  BY <1>2
<1>4. mem \in [Keys -> Value] /\ lock \in [Shards -> Clients \cup {Nobody}]
  BY <1>1, Zenon DEF StoreTypes
<1>5. now \in Nat
  BY <1>1 DEF StoreTypes
<1>6. pc \in [Clients -> {"idle", "batch"} \cup Logged] /\ op \in [Clients -> Ops]
      /\ \A c \in Clients : pc[c] = "batch" => op[c].delta \in Batches
  BY <1>1, Zenon DEF OpsInv, Ops
<1>7. \A c \in Clients : op[c] \in Ops
  BY <1>6, Zenon
<1>8. \A o \in Ops : o.delta \in Delta
  BY DEF Ops
<1>9. (\A k \in Keys : ShardOf[k] \in Shards) /\ Nobody \notin Clients
  BY DurableAssumption
<1> QED BY <1>2, <1>3, <1>4, <1>5, <1>6, <1>7, <1>8, <1>9, Zenon

\* A key's settled value is a value.
LEMMA SettledIsValue ==
  ASSUME LogInv, NEW k \in Keys
  PROVE  Settled(k) \in Value
<1>1. mem[k] \in Value /\ \A c \in Clients : op[c].delta \in Delta
  BY LogFacts, Zenon
<1>2. \A c \in Clients : k \in DOMAIN op[c].delta => op[c].delta[k] \in Value
  BY <1>1, DeltaFacts, Zenon
<1>3. CASE Applies(ShardOf[k]) /\ k \in DOMAIN op[lock[ShardOf[k]]].delta
  BY <1>2, <1>3, Zenon DEF Settled, Applies
<1>4. CASE ~(Applies(ShardOf[k]) /\ k \in DOMAIN op[lock[ShardOf[k]]].delta)
  BY <1>1, <1>4, Zenon DEF Settled
<1> QED BY <1>3, <1>4

\* The history grows, or the clock ticks, or neither.
Moves ==
    \/ hist' = hist /\ now' = now
    \/ hist' = hist /\ now' = now + 1
    \/ (\E d \in Delta : hist' = Append(hist, d)) /\ now' = now

\* None of these makes a snapshot lose a key.
LEMMA CoversMoves ==
  ASSUME LogInv, Moves
  PROVE  /\ \A l \in Nat, v \in Value, k \in Keys :
               Covers(hist, now, l, v, k) => Covers(hist', now', l, v, k)
         /\ Len(hist') \in Nat /\ Len(hist) \in Nat /\ Len(hist') >= Len(hist)
<1>1. hist \in Seq(Delta) /\ now \in Nat /\ Len(hist) \in Nat
  BY LogFacts
<1>2. ASSUME NEW l \in Nat, NEW v \in Value, NEW k \in Keys, Covers(hist, now, l, v, k)
      PROVE  Covers(hist', now', l, v, k)
  <2>1. Covers(hist, now + 1, l, v, k) /\ \A d \in Delta : Covers(Append(hist, d), now, l, v, k)
    BY <1>1, <1>2, CoversStays, Zenon
  <2> QED BY <1>2, <2>1, Zenon DEF Moves
<1>3. Len(hist') \in Nat /\ Len(hist') >= Len(hist)
  <2>1. CASE hist' = hist
    BY <1>1, <2>1
  <2>2. CASE \E d \in Delta : hist' = Append(hist, d)
    BY <1>1, <2>2
  <2> QED BY <2>1, <2>2 DEF Moves
<1> QED BY <1>1, <1>2, <1>3, Zenon

\* A snapshot that is sound stays so while the log's front stays put.
LEMMA SoundStays ==
  ASSUME LogInv, Moves, segs'[1].first = segs[1].first, NEW sn, Sound(sn)
  PROVE  /\ sn \in [lsn : Nat, image : [Keys -> Value]]
         /\ sn.lsn <= Len(hist') /\ segs'[1].first <= sn.lsn + 1
         /\ \A k \in Keys : Covers(hist', now', sn.lsn, sn.image[k], k)
<1>1. /\ sn \in [lsn : Nat, image : [Keys -> Value]]
      /\ sn.lsn <= Len(hist) /\ segs[1].first <= sn.lsn + 1
      /\ \A k \in Keys : Covers(hist, now, sn.lsn, sn.image[k], k)
  BY Zenon DEF Sound
<1>2. sn.lsn \in Nat /\ \A k \in Keys : sn.image[k] \in Value
  BY <1>1
<1>3. \A k \in Keys : Covers(hist', now', sn.lsn, sn.image[k], k)
  BY <1>1, <1>2, CoversMoves, Zenon
<1>4. sn.lsn <= Len(hist')
  <2>1. Len(hist') \in Nat /\ Len(hist) \in Nat /\ Len(hist') >= Len(hist)
    BY CoversMoves, Zenon
  <2> DEFINE a == sn.lsn
             b == Len(hist)
             e == Len(hist')
  <2>2. a \in Nat /\ b \in Nat /\ e \in Nat /\ a <= b /\ e >= b
    BY <1>1, <1>2, <2>1, Zenon
  <2> HIDE DEF a, b, e
  <2>3. a <= e
    BY <2>2
  <2> QED BY <2>3 DEF a, e
<1> QED BY <1>1, <1>3, <1>4, Zenon

\* A step that is not one of a snapshot's.
LEMMA SnapStays ==
  ASSUME LogInv, SnapInv, Moves, UNCHANGED <<snap, snapOld, saver>>, segs'[1].first = segs[1].first
  PROVE  SnapInv'
<1>1. /\ saver \in Saver /\ saver.next >= 1
      /\ Sound(snap) /\ Sound(snapOld)
      /\ saver.at # "idle" => saver.lsn <= Len(hist) /\ segs[1].first <= saver.lsn + 1
      /\ saver.at = "count" => saver.next = 1
      /\ saver.at = "walk" =>
          \A k \in Keys : ShardOf[k] < saver.next => Covers(hist, now, saver.lsn, saver.image[k], k)
      /\ saver.at \in {"syncdir", "trim"} => snap.lsn = saver.lsn
      /\ saver.at = "trim" => snapOld.lsn = saver.lsn
  BY Zenon DEF SnapInv
<1>2. Sound(snap)' /\ Sound(snapOld)'
  <2>1. ASSUME NEW sn, Sound(sn)
        PROVE  /\ sn \in [lsn : Nat, image : [Keys -> Value]]
               /\ sn.lsn <= Len(hist') /\ segs'[1].first <= sn.lsn + 1
               /\ \A k \in Keys : Covers(hist', now', sn.lsn, sn.image[k], k)
    BY <2>1, SoundStays, Zenon
  <2> QED BY <1>1, <2>1, Zenon DEF Sound
<1>3. saver.lsn \in Nat /\ \A k \in Keys : saver.image[k] \in Value
  BY <1>1 DEF Saver
<1>4. \A k \in Keys : Covers(hist, now, saver.lsn, saver.image[k], k)
                      => Covers(hist', now', saver.lsn, saver.image[k], k)
  BY <1>3, CoversMoves, Zenon
<1>5. saver.lsn <= Len(hist) => saver.lsn <= Len(hist')
  <2>1. Len(hist') \in Nat /\ Len(hist) \in Nat /\ Len(hist') >= Len(hist)
    BY CoversMoves, Zenon
  <2>2. \A a, b, e \in Nat : a <= b /\ e >= b => a <= e
    OBVIOUS
  <2> QED BY <1>3, <2>1, <2>2, Zenon
<1> QED BY <1>1, <1>2, <1>4, <1>5, Zenon DEF SnapInv

\* A step that no mutation is counted in.
LEMMA CleanStays ==
  ASSUME LogInv, SnapInv, CleanInv, UNCHANGED <<snap, saver, dirty>>, now' = now,
         \A k \in Keys : ~Applies(ShardOf[k]) =>
             ~Applies(ShardOf[k])' /\ Seen(mem'[k], now) = Seen(mem[k], now)
  PROVE  CleanInv'
<1>1. \A image, k : k \in Keys /\ Saved(image, k) => Saved(image, k)'
  BY Zenon DEF Saved
<1>2. \A k \in Keys : (Saved(snap.image, k) => Saved(snap.image, k)')
                      /\ (Saved(saver.image, k) => Saved(saver.image, k)')
  BY <1>1, Zenon DEF Saved
<1> QED BY <1>2, Zenon DEF CleanInv

\* The clock ticks.
LEMMA CleanTicks ==
  ASSUME LogInv, SnapInv, CleanInv, UNCHANGED <<snap, saver, dirty, mem, lock, pc>>, now' = now + 1
  PROVE  CleanInv'
<1>1. now \in Nat /\ \A k \in Keys : mem[k] \in Value
  BY LogFacts, Zenon
<1>2. (\A k \in Keys : snap.image[k] \in Value) /\ (\A k \in Keys : saver.image[k] \in Value)
  <2>1. snap \in [lsn : Nat, image : [Keys -> Value]] /\ saver \in Saver
    BY Zenon DEF SnapInv, Sound
  <2> QED BY <2>1 DEF Saver
<1>3. \A k \in Keys : Applies(ShardOf[k])' <=> Applies(ShardOf[k])
  BY Zenon DEF Applies
<1>4. \A k \in Keys : (Saved(snap.image, k) => Saved(snap.image, k)')
                      /\ (Saved(saver.image, k) => Saved(saver.image, k)')
  BY <1>1, <1>2, <1>3, SeenFacts, Zenon DEF Saved
<1> QED BY <1>4, Zenon DEF CleanInv

\* A mutation is counted: neither the last snapshot nor the one being taken
\* is known to be up to date.
LEMMA CleanCounts ==
  ASSUME SnapInv, CleanInv, UNCHANGED <<snap, saver>>, dirty' \in Nat, dirty' > dirty
  PROVE  CleanInv'
<1>1. dirty \in Nat /\ saver.dirty \in Nat
  <2>1. saver \in Saver
    BY DEF SnapInv
  <2> QED BY <2>1 DEF Saver, CleanInv
<1>2. dirty' # 0 /\ (saver.dirty <= dirty => saver.dirty <= dirty' /\ dirty' # saver.dirty)
  <2> DEFINE a == saver.dirty
  <2>1. a \in Nat
    BY <1>1
  <2> HIDE DEF a
  <2>2. dirty' # 0 /\ (a <= dirty => a <= dirty' /\ dirty' # a)
    BY <1>1, <2>1
  <2> QED BY <2>2 DEF a
<1>3. "walk" \in {"walk", "syncdir", "trim"} /\ {"syncdir", "trim"} \subseteq {"walk", "syncdir", "trim"}
  OBVIOUS
<1>4. saver.at \in {"walk", "syncdir", "trim"} => saver.dirty <= dirty
  BY DEF CleanInv
<1> QED BY <1>2, <1>3, <1>4, Zenon DEF CleanInv

\* The maps and the log, when nothing is appended.
LEMMA MemStays ==
  ASSUME MemInv, hist' = hist, now' = now,
         \A k \in Keys : Seen(Settled(k)', now) = Seen(Settled(k), now)
  PROVE  MemInv'
BY Zenon DEF MemInv

\* A delta is appended, and a client that holds its keys' mutexes has it.
LEMMA MemAppends ==
  ASSUME LogInv, MemInv, NEW d \in Delta, hist' = Append(hist, d), now' = now,
         \A k \in Keys : IF k \in DOMAIN d THEN Settled(k)' = d[k]
                         ELSE Seen(Settled(k)', now) = Seen(Settled(k), now)
  PROVE  MemInv'
<1>1. hist \in Seq(Delta)
  BY LogFacts
<1> SUFFICES ASSUME NEW k \in Keys
             PROVE  Seen(Settled(k)', now') = Seen(Upto(hist', Len(hist'), k), now')
  BY Zenon DEF MemInv
<1>2. Len(hist') = Len(hist) + 1
      /\ Upto(hist', Len(hist) + 1, k) = IF k \in DOMAIN d THEN d[k] ELSE Upto(hist, Len(hist), k)
  BY <1>1, UptoFacts, Zenon
<1>3. Seen(Settled(k), now) = Seen(Upto(hist, Len(hist), k), now)
  BY Zenon DEF MemInv
<1>4. CASE k \in DOMAIN d
  <2>1. Settled(k)' = d[k] /\ Upto(hist', Len(hist'), k) = d[k]
    BY <1>2, <1>4, Zenon
  <2> QED BY <2>1, Zenon
<1>5. CASE k \notin DOMAIN d
  <2>1. /\ Seen(Settled(k)', now) = Seen(Settled(k), now)
        /\ Upto(hist', Len(hist'), k) = Upto(hist, Len(hist), k)
    BY <1>2, <1>5, Zenon
  <2> QED BY <1>3, <2>1, Zenon
<1> QED BY <1>4, <1>5

\* The clock ticks.
LEMMA MemTicks ==
  ASSUME LogInv, MemInv, UNCHANGED <<hist, mem, lock, pc, op>>, now' = now + 1
  PROVE  MemInv'
<1>1. hist \in Seq(Delta) /\ now \in Nat /\ Len(hist) \in Nat
  BY LogFacts
<1>2. Len(hist) \in 0 .. Len(hist)
  BY <1>1
<1>3. \A k \in Keys : Settled(k)' = Settled(k)
  BY Zenon DEF Settled, Applies
<1>4. \A k \in Keys : Settled(k) \in Value /\ Upto(hist, Len(hist), k) \in Value
  BY <1>1, <1>2, SettledIsValue, UptoFacts, Zenon
<1>5. \A k \in Keys : Seen(Settled(k), now) = Seen(Upto(hist, Len(hist), k), now)
  BY Zenon DEF MemInv
<1>6. \A k \in Keys : Seen(Settled(k), now + 1) = Seen(Upto(hist, Len(hist), k), now + 1)
  BY <1>1, <1>4, <1>5, SeenFacts, Zenon
<1> QED BY <1>3, <1>6, Zenon DEF MemInv

-----------------------------------------------------------------------------
(* The steps. *)

\* A logged delta counts for at least one mutation.
LEMMA JournalCounts ==
  ASSUME CleanInv, NEW c \in Clients, NEW d, IsFiniteSet(DOMAIN d), DOMAIN d # {}, Journal(c, d)
  PROVE  dirty' \in Nat /\ dirty' > dirty
<1>1. dirty \in Nat
  BY DEF CleanInv
<1>2. dirty' = dirty + Mutations(d)
  BY DEF Journal
<1>3. Cardinality(DOMAIN d) \in Nat /\ Cardinality(DOMAIN d) # 0
  BY FS_CardinalityType, FS_EmptySet, Zenon
<1>4. Mutations(d) \in Nat /\ Mutations(d) >= 1
  BY <1>3 DEF Mutations
<1> QED BY <1>1, <1>2, <1>4

\* Where a shard's mutex, its holder's progress and operation stay, so does
\* what its keys settle to, but for what the maps hold.
LEMMA SameHolder ==
  ASSUME NEW k, lock'[ShardOf[k]] = lock[ShardOf[k]],
         lock[ShardOf[k]] \in Clients =>
             /\ pc'[lock[ShardOf[k]]] = pc[lock[ShardOf[k]]]
             /\ op'[lock[ShardOf[k]]] = op[lock[ShardOf[k]]]
  PROVE  /\ Applies(ShardOf[k])' <=> Applies(ShardOf[k])
         /\ Settled(k)' = Settled(k) \/ (Settled(k)' = mem'[k] /\ Settled(k) = mem[k])
<1> DEFINE s == ShardOf[k]
<1>1. Applies(s)' <=> Applies(s)
  BY Zenon DEF Applies
<1>2. CASE Applies(s) /\ k \in DOMAIN op[lock[s]].delta
  <2>1. op'[lock'[s]] = op[lock[s]]
    BY <1>2, Zenon DEF Applies
  <2>2. Settled(k) = op[lock[s]].delta[k] /\ Settled(k)' = op[lock[s]].delta[k]
    BY <1>1, <1>2, <2>1, Zenon DEF Settled
  <2> QED BY <1>1, <2>2
<1>3. CASE ~Applies(s)
  BY <1>1, <1>3, Zenon DEF Settled
<1>4. CASE Applies(s) /\ k \notin DOMAIN op[lock[s]].delta
  <2>1. op'[lock'[s]] = op[lock[s]]
    BY <1>4, Zenon DEF Applies
  <2>2. Settled(k) = mem[k] /\ Settled(k)' = mem'[k]
    BY <1>4, <2>1, Zenon DEF Settled
  <2> QED BY <1>1, <2>2
<1> QED BY <1>2, <1>3, <1>4

\* Put, Delete and Update: the mutex of a free shard is taken and a delta of
\* one key logged.  Update may have dropped an expired record before.
LEMMA WriteStep ==
  ASSUME LogInv, KeyInv, NEW c \in Clients, NEW k0 \in Keys, NEW r \in Value,
         pc[c] = "idle", Free(ShardOf[k0]), lock' = [lock EXCEPT ![ShardOf[k0]] = c],
         Journal(c, Only(k0, r)), Goto(c, "apply"),
         UNCHANGED <<now, segs, snap, snapOld, saver>>,
         \A k \in Keys : Seen(mem'[k], now) = Seen(mem[k], now)
  PROVE  KeyInv'
<1> DEFINE s0 == ShardOf[k0]
           d == Only(k0, r)
<1>1. LocksInv /\ MemInv /\ SnapInv /\ CleanInv
  BY DEF KeyInv
<1>2. /\ mem \in [Keys -> Value] /\ lock \in [Shards -> Clients \cup {Nobody}]
      /\ pc \in [Clients -> {"idle", "batch"} \cup Logged] /\ op \in [Clients -> Ops]
      /\ (\A k \in Keys : ShardOf[k] \in Shards) /\ Nobody \notin Clients
      /\ \A x \in Clients : op[x].delta \in Delta
  BY LogFacts, Zenon
<1>3. d \in Delta /\ DOMAIN d = {k0} /\ d[k0] = r
  BY DeltaFacts, Zenon DEF Only
<1> HIDE DEF d
<1>4. /\ hist' = Append(hist, d) /\ now' = now
      /\ op' = [op EXCEPT ![c] = [delta |-> d, lsn |-> nextLSN, index |-> Len(hist) + 1, wiped |-> 0]]
      /\ pc' = [pc EXCEPT ![c] = "apply"]
  BY DEF Journal, Goto, d
<1>5. op'[c].delta = d
  BY <1>2, <1>4
<1>6. /\ pc'[c] = "apply" /\ \A x \in Clients : x # c => pc'[x] = pc[x] /\ op'[x] = op[x]
      /\ lock'[s0] = c /\ lock[s0] = Nobody
      /\ \A s \in Shards : s # s0 => lock'[s] = lock[s]
  BY <1>2, <1>4, Zenon DEF Free
<1>7. \A s \in Shards : lock[s] # c
  <2>1. "idle" \notin {"batch", "apply"}
    OBVIOUS
  <2> QED BY <1>1, <1>2, <2>1, Zenon DEF LocksInv
<1>8. LocksInv'
  <2>1. \A x \in Clients : pc'[x] # "wipe"
    BY <1>1, <1>6, SMTT(60) DEF LocksInv
  <2>2. ASSUME NEW x \in Clients, pc'[x] = "apply", NEW k \in DOMAIN op'[x].delta
        PROVE  lock'[ShardOf[k]] = x
    <3>1. CASE x = c
      BY <1>3, <1>5, <1>6, <2>2, <3>1, Zenon
    <3>2. CASE x # c
      <4>1. pc[x] = "apply" /\ k \in DOMAIN op[x].delta
        BY <1>6, <2>2, <3>2, Zenon
      <4>2. lock[ShardOf[k]] = x /\ ShardOf[k] \in Shards
        BY <1>1, <1>2, <4>1, DeltaFacts, Zenon DEF LocksInv
      <4> QED BY <1>2, <1>6, <4>2, Zenon
    <3> QED BY <3>1, <3>2
  <2>3. ASSUME NEW s \in Shards, lock'[s] # Nobody PROVE pc'[lock'[s]] \in {"batch", "apply"}
    <3>1. CASE s = s0
      BY <1>6, <3>1
    <3>2. CASE s # s0
      <4>1. lock'[s] = lock[s] /\ pc[lock[s]] \in {"batch", "apply"}
        BY <1>1, <1>6, <2>3, <3>2, Zenon DEF LocksInv
      <4>2. lock[s] \in Clients /\ lock[s] # c
        BY <1>2, <1>7, <2>3, <4>1, Zenon
      <4> QED BY <1>6, <4>1, <4>2, Zenon
    <3> QED BY <3>1, <3>2, SMTT(60)
  <2> QED BY <2>1, <2>2, <2>3, Zenon DEF LocksInv
<1>9. MemInv'
  <2>1. ASSUME NEW k \in Keys, k \in DOMAIN d PROVE Settled(k)' = d[k]
    <3>1. k = k0
      BY <1>3, <2>1, Zenon
    <3>2. Applies(ShardOf[k])' /\ lock'[ShardOf[k]] = c
      BY <1>6, <3>1, Zenon DEF Applies
    <3> QED BY <1>5, <2>1, <3>2, Zenon DEF Settled
  <2>2. ASSUME NEW k \in Keys, k \notin DOMAIN d
        PROVE  Seen(Settled(k)', now) = Seen(Settled(k), now)
    <3>1. CASE ShardOf[k] = s0
      <4>1. Settled(k) = mem[k]
        BY <1>2, <1>6, <3>1, Zenon DEF Settled, Applies
      <4>2. Settled(k)' = mem'[k]
        BY <1>5, <1>6, <2>2, <3>1, Zenon DEF Settled
      <4> QED BY <4>1, <4>2
    <3>2. CASE ShardOf[k] # s0
      <4>1. ShardOf[k] \in Shards /\ lock'[ShardOf[k]] = lock[ShardOf[k]] /\ lock[ShardOf[k]] # c
        BY <1>2, <1>6, <1>7, <3>2, Zenon
      <4>2. Settled(k)' = Settled(k) \/ (Settled(k)' = mem'[k] /\ Settled(k) = mem[k])
        BY <1>6, <4>1, SameHolder, Zenon
      <4> QED BY <4>2, Zenon
    <3> QED BY <3>1, <3>2
  <2> QED BY <1>1, <1>3, <1>4, <2>1, <2>2, MemAppends, Zenon
<1>10. SnapInv'
  <2>1. Moves
    BY <1>3, <1>4, Zenon DEF Moves
  <2> QED BY <1>1, <2>1, SnapStays, Zenon
<1>11. CleanInv'
  <2>1. IsFiniteSet(DOMAIN d) /\ DOMAIN d # {} /\ Journal(c, d)
    BY <1>3, FS_Singleton, Zenon DEF d
  <2>2. dirty' \in Nat /\ dirty' > dirty
    BY <1>1, <2>1, JournalCounts, Zenon
  <2> QED BY <1>1, <2>2, CleanCounts, Zenon
<1> QED BY <1>8, <1>9, <1>10, <1>11, Zenon DEF KeyInv

\* A step of a client that appends nothing and leaves the maps alone: no
\* mutex changes hands while its holder applies a delta.
LEMMA QuietStep ==
  ASSUME LogInv, KeyInv, Moves, UNCHANGED <<snap, snapOld, saver, dirty, hist, now>>,
         segs'[1].first = segs[1].first, LocksInv',
         \A k \in Keys : Seen(Settled(k)', now) = Seen(Settled(k), now),
         \A k \in Keys : ~Applies(ShardOf[k]) =>
             ~Applies(ShardOf[k])' /\ Seen(mem'[k], now) = Seen(mem[k], now)
  PROVE  KeyInv'
<1>1. LocksInv /\ MemInv /\ SnapInv /\ CleanInv
  BY DEF KeyInv
<1>2. MemInv'
  BY <1>1, MemStays, Zenon
<1>3. SnapInv'
  BY <1>1, SnapStays, Zenon
<1>4. CleanInv'
  BY <1>1, CleanStays, Zenon
<1> QED BY <1>2, <1>3, <1>4, SMTT(60) DEF KeyInv

\* MultiWrite begins, or a reply is sent: the client holds no mutex before
\* and after.
Unlocked(c, w, o) ==
  /\ pc[c] \in {"idle", "await"} /\ w \notin {"apply", "wipe"}
  /\ pc' = [pc EXCEPT ![c] = w] /\ op' = [op EXCEPT ![c] = o]
  /\ UNCHANGED <<mem, lock, snap, snapOld, saver, dirty, hist, now>>
  /\ segs'[1].first = segs[1].first

\* Such a step keeps what is known of every key.
LEMMA UnlockedStep ==
  ASSUME LogInv, KeyInv, NEW c \in Clients, NEW w, NEW o, Unlocked(c, w, o)
  PROVE  KeyInv'
<1> USE DEF Unlocked
<1>1. LocksInv
  BY DEF KeyInv
<1>2. /\ lock \in [Shards -> Clients \cup {Nobody}]
      /\ pc \in [Clients -> {"idle", "batch"} \cup Logged] /\ op \in [Clients -> Ops]
      /\ \A k \in Keys : ShardOf[k] \in Shards
      /\ Nobody \notin Clients /\ \A x \in Clients : op[x].delta \in Delta
  BY LogFacts, Zenon
<1>3. /\ pc'[c] = w /\ \A x \in Clients : x # c => pc'[x] = pc[x] /\ op'[x] = op[x]
  BY <1>2, Zenon
<1>4. \A s \in Shards : lock[s] # c
  <2>1. pc[c] \notin {"batch", "apply"}
    OBVIOUS
  <2> QED BY <1>1, <1>2, <2>1, Zenon DEF LocksInv
<1>5. LocksInv'
  <2>1. w # "apply" /\ w # "wipe"
    OBVIOUS
  <2>2. \A x \in Clients : pc'[x] # "wipe"
    BY <1>1, <1>3, <2>1, Zenon DEF LocksInv
  <2>3. \A x \in Clients : pc'[x] = "apply" => \A k \in DOMAIN op'[x].delta : lock'[ShardOf[k]] = x
    BY <1>1, <1>3, <2>1, Zenon DEF LocksInv
  <2>4. \A s \in Shards : lock'[s] # Nobody => pc'[lock'[s]] \in {"batch", "apply"}
    <3>1. \A s \in Shards : lock[s] # Nobody => lock[s] \in Clients /\ lock[s] # c
      BY <1>2, <1>4, Zenon
    <3> QED BY <1>1, <1>3, <3>1, Zenon DEF LocksInv
  <2> QED BY <2>2, <2>3, <2>4, Zenon DEF LocksInv
<1>6. \A k \in Keys : /\ Applies(ShardOf[k])' <=> Applies(ShardOf[k])
                      /\ Settled(k)' = Settled(k) \/ (Settled(k)' = mem'[k] /\ Settled(k) = mem[k])
  <2> TAKE k \in Keys
  <2>1. lock'[ShardOf[k]] = lock[ShardOf[k]] /\ lock[ShardOf[k]] # c
    BY <1>2, <1>4, Zenon
  <2> QED BY <1>3, <2>1, SameHolder, Zenon
<1>7. Moves
  BY DEF Moves
<1> QED BY <1>5, <1>6, <1>7, QuietStep, Zenon

\* MultiWrite takes the next mutex.
LEMMA LockStep ==
  ASSUME LogInv, KeyInv, NEW c \in Clients, LockShard(c)
  PROVE  KeyInv'
<1> DEFINE s0 == NextShard(c)
<1>1. LocksInv
  BY DEF KeyInv
<1>2. /\ lock \in [Shards -> Clients \cup {Nobody}]
      /\ \A k \in Keys : ShardOf[k] \in Shards
      /\ Nobody \notin Clients /\ \A x \in Clients : op[x].delta \in Delta
  BY LogFacts, Zenon
<1>3. /\ pc[c] = "batch" /\ Free(s0) /\ lock' = [lock EXCEPT ![s0] = c]
      /\ UNCHANGED <<mem, pc, op, snap, snapOld, saver, dirty, hist, now, segs>>
  BY Zenon DEF LockShard, snapVars, histVars, logVars
<1> HIDE DEF s0
<1>4. /\ \A s \in Shards : s = s0 => lock'[s] = c /\ lock[s] = Nobody
      /\ \A s \in Shards : s # s0 => lock'[s] = lock[s]
  BY <1>2, <1>3, Zenon DEF Free
<1>5. LocksInv'
  <2>1. \A x \in Clients : pc'[x] # "wipe"
    BY <1>1, <1>3, Zenon DEF LocksInv
  <2>2. ASSUME NEW x \in Clients, pc'[x] = "apply", NEW k \in DOMAIN op'[x].delta
        PROVE  lock'[ShardOf[k]] = x
    <3>1. lock[ShardOf[k]] = x /\ ShardOf[k] \in Shards
      BY <1>1, <1>2, <1>3, <2>2, DeltaFacts, Zenon DEF LocksInv
    <3> QED BY <1>2, <1>4, <3>1, Zenon
  <2>3. ASSUME NEW s \in Shards, lock'[s] # Nobody PROVE pc'[lock'[s]] \in {"batch", "apply"}
    <3>1. CASE s = s0
      BY <1>3, <1>4, <3>1
    <3>2. CASE s # s0
      BY <1>1, <1>3, <1>4, <2>3, <3>2, Zenon DEF LocksInv
    <3> QED BY <3>1, <3>2
  <2> QED BY <2>1, <2>2, <2>3, Zenon DEF LocksInv
<1>6. ASSUME NEW k \in Keys
      PROVE  /\ Applies(ShardOf[k])' <=> Applies(ShardOf[k])
             /\ Settled(k)' = Settled(k) \/ (Settled(k)' = mem'[k] /\ Settled(k) = mem[k])
  <2>1. CASE ShardOf[k] = s0
    <3>1. lock'[ShardOf[k]] = c /\ lock[ShardOf[k]] = Nobody
      BY <1>2, <1>4, <2>1, Zenon
    <3>2. pc'[c] # "apply"
      BY <1>3
    <3>3. ~Applies(ShardOf[k]) /\ ~Applies(ShardOf[k])'
      BY <1>2, <3>1, <3>2, Zenon DEF Applies
    <3> QED BY <3>3, Zenon DEF Settled
  <2>2. CASE ShardOf[k] # s0
    <3>1. lock'[ShardOf[k]] = lock[ShardOf[k]]
      BY <1>2, <1>4, <2>2, Zenon
    <3> QED BY <1>3, <3>1, SameHolder, Zenon
  <2> QED BY <2>1, <2>2
<1>7. Moves
  BY <1>3 DEF Moves
<1>8. segs'[1].first = segs[1].first
  BY <1>3
<1> QED BY <1>3, <1>5, <1>6, <1>7, <1>8, QuietStep, Zenon

\* MultiWrite logs its batch, every mutex of it held.
LEMMA BatchStep ==
  ASSUME LogInv, KeyInv, NEW c \in Clients, JournalBatch(c)
  PROVE  KeyInv'
<1> DEFINE d == op[c].delta
<1>1. LocksInv /\ MemInv /\ SnapInv /\ CleanInv
  BY DEF KeyInv
<1>2. /\ lock \in [Shards -> Clients \cup {Nobody}]
      /\ pc \in [Clients -> {"idle", "batch"} \cup Logged] /\ op \in [Clients -> Ops]
      /\ (\A k \in Keys : ShardOf[k] \in Shards) /\ Nobody \notin Clients
      /\ \A x \in Clients : pc[x] = "batch" => op[x].delta \in Batches
  BY LogFacts, Zenon
<1>3. /\ pc[c] = "batch" /\ \A s \in ShardsOf(d) : lock[s] = c
      /\ Journal(c, d) /\ pc' = [pc EXCEPT ![c] = "apply"]
      /\ UNCHANGED <<mem, lock, now, segs, snap, snapOld, saver>>
  BY Zenon DEF JournalBatch, Goto, snapVars, storeVars
<1>4. d \in Delta /\ DOMAIN d # {} /\ IsFiniteSet(DOMAIN d)
  BY <1>2, <1>3, DeltaFacts, DurableAssumption, Zenon
<1>5. \A k \in DOMAIN d : lock[ShardOf[k]] = c
  BY <1>3, Zenon DEF ShardsOf
<1> HIDE DEF d
<1>6. /\ hist' = Append(hist, d)
      /\ op' = [op EXCEPT ![c] = [delta |-> d, lsn |-> nextLSN, index |-> Len(hist) + 1, wiped |-> 0]]
  BY <1>3 DEF Journal
<1>7. op'[c].delta = d
  BY <1>2, <1>6
<1>8. pc'[c] = "apply" /\ \A x \in Clients : x # c => pc'[x] = pc[x] /\ op'[x] = op[x]
  BY <1>2, <1>3, <1>6, Zenon
<1>9. LocksInv'
  <2>1. \A x \in Clients : pc'[x] # "wipe"
    BY <1>1, <1>8 DEF LocksInv
  <2>2. ASSUME NEW x \in Clients, pc'[x] = "apply"
        PROVE  \A k \in DOMAIN op'[x].delta : lock'[ShardOf[k]] = x
    <3>1. CASE x = c
      BY <1>3, <1>5, <1>7, <3>1, Zenon
    <3>2. CASE x # c
      BY <1>1, <1>3, <1>8, <2>2, <3>2, Zenon DEF LocksInv
    <3> QED BY <3>1, <3>2
  <2>3. ASSUME NEW s \in Shards, lock'[s] # Nobody PROVE pc'[lock'[s]] \in {"batch", "apply"}
    <3>1. lock'[s] = lock[s] /\ lock[s] \in Clients /\ pc[lock[s]] \in {"batch", "apply"}
      BY <1>1, <1>2, <1>3, <2>3, Zenon DEF LocksInv
    <3>2. CASE lock[s] = c
      BY <1>8, <3>1, <3>2
    <3>3. CASE lock[s] # c
      BY <1>8, <3>1, <3>3, Zenon
    <3> QED BY <3>2, <3>3
  <2> QED BY <2>1, <2>2, <2>3, Zenon DEF LocksInv
<1>10. MemInv'
  <2>1. ASSUME NEW k \in Keys, k \in DOMAIN d PROVE Settled(k)' = d[k]
    <3>1. Applies(ShardOf[k])' /\ lock'[ShardOf[k]] = c
      BY <1>3, <1>5, <1>8, <2>1, Zenon DEF Applies
    <3> QED BY <1>7, <2>1, <3>1, Zenon DEF Settled
  <2>2. ASSUME NEW k \in Keys, k \notin DOMAIN d
        PROVE  Seen(Settled(k)', now) = Seen(Settled(k), now)
    <3>1. CASE lock[ShardOf[k]] = c
      <4>1. ~Applies(ShardOf[k])
        BY <1>3, <3>1 DEF Applies
      <4>2. Settled(k) = mem[k]
        BY <4>1, Zenon DEF Settled
      <4>3. Settled(k)' = mem'[k]
        BY <1>3, <1>7, <2>2, <3>1, Zenon DEF Settled
      <4> QED BY <1>3, <4>2, <4>3, Zenon
    <3>2. CASE lock[ShardOf[k]] # c
      <4>1. Settled(k)' = Settled(k) \/ (Settled(k)' = mem'[k] /\ Settled(k) = mem[k])
        BY <1>3, <1>8, <3>2, SameHolder, Zenon
      <4> QED BY <1>3, <4>1, Zenon
    <3> QED BY <3>1, <3>2
  <2> QED BY <1>1, <1>3, <1>4, <1>6, <2>1, <2>2, MemAppends, Zenon
<1>11. SnapInv'
  <2>1. Moves
    BY <1>3, <1>4, <1>6, Zenon DEF Moves
  <2>2. segs'[1].first = segs[1].first
    BY <1>3
  <2> QED BY <1>1, <1>3, <2>1, <2>2, SnapStays, Zenon
<1>12. CleanInv'
  <2>1. dirty' \in Nat /\ dirty' > dirty
    BY <1>1, <1>3, <1>4, JournalCounts, Zenon
  <2> QED BY <1>1, <1>3, <2>1, CleanCounts, Zenon
<1> QED BY <1>9, <1>10, <1>11, <1>12, Zenon DEF KeyInv

\* A logged command changes the maps and releases its mutexes.
LEMMA ApplyStep ==
  ASSUME LogInv, KeyInv, NEW c \in Clients, Apply(c)
  PROVE  KeyInv'
<1> DEFINE d == op[c].delta
<1>1. LocksInv
  BY DEF KeyInv
<1>2. /\ mem \in [Keys -> Value] /\ lock \in [Shards -> Clients \cup {Nobody}]
      /\ pc \in [Clients -> {"idle", "batch"} \cup Logged]
      /\ (\A k \in Keys : ShardOf[k] \in Shards) /\ Nobody \notin Clients
      /\ \A x \in Clients : op[x].delta \in Delta
  BY LogFacts, Zenon
<1>3. /\ pc[c] = "apply" /\ mem' = Overlay(mem, d)
      /\ lock' = [s \in Shards |-> IF lock[s] = c THEN Nobody ELSE lock[s]]
      /\ pc' = [pc EXCEPT ![c] = "await"]
      /\ UNCHANGED <<op, snap, snapOld, saver, dirty, hist, now, segs>>
  BY Zenon DEF Apply, Goto, snapVars, histVars, logVars
<1>4. \A k \in DOMAIN d : lock[ShardOf[k]] = c
  BY <1>1, <1>3, Zenon DEF LocksInv
<1>5. \A k \in Keys : mem'[k] = IF k \in DOMAIN d THEN d[k] ELSE mem[k]
  BY <1>3, Zenon DEF Overlay
<1>6. /\ pc'[c] = "await" /\ \A x \in Clients : x # c => pc'[x] = pc[x]
      /\ \A s \in Shards : lock[s] = c => lock'[s] = Nobody
      /\ \A s \in Shards : lock[s] # c => lock'[s] = lock[s]
  BY <1>2, <1>3, Zenon
<1>7. LocksInv'
  <2>1. \A x \in Clients : pc'[x] # "wipe"
    BY <1>1, <1>6 DEF LocksInv
  <2>2. ASSUME NEW x \in Clients, pc'[x] = "apply", NEW k \in DOMAIN op'[x].delta
        PROVE  lock'[ShardOf[k]] = x
    <3>1. x # c
      BY <1>6, <2>2
    <3>2. lock[ShardOf[k]] = x /\ ShardOf[k] \in Shards
      BY <1>1, <1>2, <1>3, <1>6, <2>2, <3>1, DeltaFacts, Zenon DEF LocksInv
    <3> QED BY <1>6, <3>1, <3>2, Zenon
  <2>3. ASSUME NEW s \in Shards, lock'[s] # Nobody PROVE pc'[lock'[s]] \in {"batch", "apply"}
    <3>1. lock'[s] = lock[s] /\ lock[s] # c
      BY <1>6, <2>3, Zenon
    <3>2. lock[s] \in Clients
      BY <1>2, <2>3, <3>1, Zenon
    <3> QED BY <1>1, <1>6, <2>3, <3>1, <3>2, Zenon DEF LocksInv
  <2> QED BY <2>1, <2>2, <2>3, Zenon DEF LocksInv
<1>8. ASSUME NEW k \in Keys
      PROVE  /\ Seen(Settled(k)', now) = Seen(Settled(k), now)
             /\ ~Applies(ShardOf[k]) =>
                   ~Applies(ShardOf[k])' /\ Seen(mem'[k], now) = Seen(mem[k], now)
  <2>1. CASE lock[ShardOf[k]] = c
    <3>1. Applies(ShardOf[k])
      BY <1>3, <2>1, Zenon DEF Applies
    <3>2. lock'[ShardOf[k]] = Nobody
      BY <1>2, <1>6, <2>1, Zenon
    <3>3. Settled(k)' = mem'[k]
      BY <1>2, <3>2, Zenon DEF Settled, Applies
    <3>4. Settled(k) = IF k \in DOMAIN d THEN d[k] ELSE mem[k]
      BY <2>1, <3>1, Zenon DEF Settled
    <3>5. Settled(k)' = Settled(k)
      BY <1>5, <3>3, <3>4, Zenon
    <3> QED BY <3>1, <3>5
  <2>2. CASE lock[ShardOf[k]] # c
    <3>1. lock'[ShardOf[k]] = lock[ShardOf[k]]
      BY <1>2, <1>6, <2>2, Zenon
    <3>2. mem'[k] = mem[k]
      BY <1>4, <1>5, <2>2, Zenon
    <3>3. /\ Applies(ShardOf[k])' <=> Applies(ShardOf[k])
          /\ Settled(k)' = Settled(k) \/ (Settled(k)' = mem'[k] /\ Settled(k) = mem[k])
      BY <1>3, <1>6, <2>2, <3>1, SameHolder, Zenon
    <3> QED BY <3>2, <3>3, Zenon
  <2> QED BY <2>1, <2>2, Zenon
<1>9. Moves
  BY <1>3 DEF Moves
<1>10. segs'[1].first = segs[1].first
  BY <1>3
<1> QED BY <1>3, <1>7, <1>8, <1>9, <1>10, QuietStep, Zenon

-----------------------------------------------------------------------------
(* The steps of a snapshot. *)

\* The saver, by its fields.
SaverOf(a, l, d, m, n) == [at |-> a, lsn |-> l, dirty |-> d, image |-> m, next |-> n]

\* The updates of a snapshot's steps.
LEMMA SaverExcept ==
  ASSUME NEW g \in Saver, NEW u, NEW v
  PROVE  /\ [g EXCEPT !.at = u] = SaverOf(u, g.lsn, g.dirty, g.image, g.next)
         /\ [g EXCEPT !.at = u, !.dirty = v] = SaverOf(u, g.lsn, v, g.image, g.next)
         /\ [g EXCEPT !.at = u, !.lsn = v] = SaverOf(u, v, g.dirty, g.image, g.next)
<1> DEFINE a == g.at
           b == g.lsn
           c == g.dirty
           d == g.image
           e == g.next
           t == SaverOf(a, b, c, d, e)
<1>1. g = t
  BY DEF Saver, SaverOf
<1>2. [t EXCEPT !.at = u] = SaverOf(u, b, c, d, e)
  <2> HIDE DEF a, b, c, d, e
  <2> QED BY DEF SaverOf
<1>3. [g EXCEPT !.at = u] = [t EXCEPT !.at = u]
  <2> HIDE DEF t
  <2> QED BY <1>1, Zenon
<1> HIDE DEF a, b, c, d, e
<1>4. [g EXCEPT !.at = u] = SaverOf(u, b, c, d, e)
  BY <1>2, <1>3, Zenon
<1>5. /\ [[g EXCEPT !.at = u] EXCEPT !.dirty = v] = [SaverOf(u, b, c, d, e) EXCEPT !.dirty = v]
      /\ [[g EXCEPT !.at = u] EXCEPT !.lsn = v] = [SaverOf(u, b, c, d, e) EXCEPT !.lsn = v]
  BY <1>4, Zenon
<1>6. [SaverOf(u, b, c, d, e) EXCEPT !.dirty = v] = SaverOf(u, b, v, d, e)
  BY DEF SaverOf
<1>7. [SaverOf(u, b, c, d, e) EXCEPT !.lsn = v] = SaverOf(u, v, c, d, e)
  BY DEF SaverOf
<1> QED BY <1>4, <1>5, <1>6, <1>7, Zenon DEF a, b, c, d, e

\* The walk copies a shard and goes on to the next.
LEMMA SaverWalks ==
  ASSUME NEW g \in Saver, NEW u, NEW v
  PROVE  [g EXCEPT !.image = u, !.next = v] = SaverOf(g.at, g.lsn, g.dirty, u, v)
<1> DEFINE a == g.at
           b == g.lsn
           c == g.dirty
           d == g.image
           e == g.next
           t == SaverOf(a, b, c, d, e)
<1>1. g = t
  BY DEF Saver, SaverOf
<1>2. [t EXCEPT !.image = u] = SaverOf(a, b, c, u, e)
  <2> HIDE DEF a, b, c, d, e
  <2> QED BY DEF SaverOf
<1>3. [g EXCEPT !.image = u] = [t EXCEPT !.image = u]
  <2> HIDE DEF t
  <2> QED BY <1>1, Zenon
<1> HIDE DEF a, b, c, d, e
<1>4. [g EXCEPT !.image = u] = SaverOf(a, b, c, u, e)
  BY <1>2, <1>3, Zenon
<1>5. [[g EXCEPT !.image = u] EXCEPT !.next = v] = [SaverOf(a, b, c, u, e) EXCEPT !.next = v]
  BY <1>4, Zenon
<1>6. [SaverOf(a, b, c, u, e) EXCEPT !.next = v] = SaverOf(a, b, c, u, v)
  BY DEF SaverOf
<1> QED BY <1>5, <1>6, Zenon DEF a, b, c, d, e

\* No snapshot is being taken.
LEMMA NoSaveFacts == NoSave \in Saver /\ NoSave.at = "idle" /\ NoSave.next = 1
<1>1. Empty \in [Keys -> Value] /\ "idle" \in {"idle", "count", "walk", "syncdir", "trim"}
  BY DEF Empty, Value
<1> QED BY <1>1 DEF NoSave, Saver

\* The front of the log is no later than the next LSN.
LEMMA FrontFacts ==
  ASSUME LogInv
  PROVE  segs[1].first \in Nat /\ segs[1].first <= Len(hist) + 1
<1>1. /\ Chained(segs) /\ buf \in Seq(Rec) /\ hist \in Seq(Delta)
      /\ End(segs) + Len(buf) = nextLSN /\ nextLSN = Len(hist) + 1
  BY Zenon DEF LogInv, Log
<1> DEFINE n == Len(segs)
           f == segs[1].first
           g == segs[n].first
           z == Len(segs[n].recs)
           y == Len(segs[1].recs)
           b == Len(buf)
           h == Len(hist)
<1>2. /\ n \in Nat /\ n >= 1 /\ f \in Nat /\ g \in Nat /\ z \in Nat /\ y \in Nat
      /\ 1 \in 1 .. n /\ n \in 1 .. n
      /\ \A i, j \in 1 .. n : i < j => segs[i].first + Len(segs[i].recs) <= segs[j].first
  BY <1>1, ChainFacts, Zenon
<1>3. b \in Nat /\ h \in Nat
  BY <1>1
<1>4. g + z + b = h + 1
  BY <1>1, Zenon DEF End
<1>5. f <= g
  <2>1. CASE n = 1
    BY <1>2, <2>1
  <2>2. CASE n # 1
    <3>1. 1 < n
      <4>1. n \in Nat /\ n >= 1
        BY <1>2
      <4> HIDE DEF n
      <4> QED BY <2>2, <4>1
    <3>2. f + y <= g
      BY <1>2, <3>1, Zenon
    <3> HIDE DEF f, y, g, n
    <3> QED BY <1>2, <3>2
  <2> QED BY <2>1, <2>2
<1>6. f <= h + 1
  <2> HIDE DEF f, g, z, b, h
  <2> QED BY <1>2, <1>3, <1>4, <1>5, SMTT(60)
<1> QED BY <1>2, <1>6

\* Shards are numbered from one.
LEMMA ShardFacts == \A s \in Shards : s \in Nat /\ s >= 1
<1> DEFINE z == Cardinality(Shards)
<1>1. IsFiniteSet(Shards) /\ Shards = 1 .. z
  BY DurableAssumption
<1>2. z \in Nat
  BY <1>1, FS_CardinalityType, Zenon
<1> HIDE DEF z
<1> QED BY <1>1, <1>2

\* Once the walk has passed every shard, it has passed that of every key.
LEMMA WalkIsOver ==
  ASSUME SnapInv, saver.next \notin Shards, NEW k \in Keys
  PROVE  ShardOf[k] < saver.next
<1> DEFINE n == saver.next
           s == ShardOf[k]
<1>1. n \in Nat /\ n >= 1
  <2>1. saver \in Saver /\ saver.next >= 1
    BY DEF SnapInv
  <2> QED BY <2>1 DEF Saver
<1>2. s \in Shards /\ IsFiniteSet(Shards) /\ Shards = 1 .. Cardinality(Shards)
  BY DurableAssumption
<1>3. Cardinality(Shards) \in Nat
  BY <1>2, FS_CardinalityType, Zenon
<1> DEFINE z == Cardinality(Shards)
<1>4. s \in 1 .. z /\ n \notin 1 .. z
  BY <1>2, Zenon
<1> HIDE DEF n, s, z
<1>5. s < n
  BY <1>1, <1>3, <1>4, SMTT(60) DEF z
<1> QED BY <1>5 DEF n, s

\* Each step of a snapshot keeps the invariant.
LEMMA SnapshotStep ==
  ASSUME LogInv, KeyInv,
         SaveBegin \/ SaveCount \/ SaveShard \/ SaveRename \/ SaveSyncDir \/ SaveTrim \/ SaveFails
  PROVE  KeyInv'
<1>1. LocksInv /\ MemInv /\ SnapInv /\ CleanInv
  BY DEF KeyInv
<1>2. UNCHANGED <<mem, lock, now, pc, op, hist>>
  BY Zenon DEF SaveBegin, SaveCount, SaveShard, SaveRename, SaveSyncDir, SaveTrim, SaveFails,
               storeVars, histVars
<1>3. LocksInv' /\ MemInv'
  BY <1>1, <1>2, Zenon DEF LocksInv, MemInv, Settled, Applies
<1>4. \A image, k : (Saved(image, k) => Saved(image, k)') /\ Applies(ShardOf[k])' = Applies(ShardOf[k])
  BY <1>2, Zenon DEF Saved, Applies
<1>5. /\ saver \in Saver /\ saver.next >= 1
      /\ Sound(snap) /\ Sound(snapOld)
      /\ saver.at # "idle" => saver.lsn <= Len(hist) /\ segs[1].first <= saver.lsn + 1
      /\ saver.at = "count" => saver.next = 1
      /\ saver.at = "walk" =>
          \A k \in Keys : ShardOf[k] < saver.next => Covers(hist, now, saver.lsn, saver.image[k], k)
      /\ saver.at \in {"syncdir", "trim"} => snap.lsn = saver.lsn
      /\ saver.at = "trim" => snapOld.lsn = saver.lsn
  BY <1>1, Zenon DEF SnapInv
<1>6. /\ dirty \in Nat
      /\ saver.at \in {"walk", "syncdir", "trim"} => saver.dirty <= dirty
      /\ dirty = 0 => \A k \in Keys : Saved(snap.image, k)
      /\ saver.at = "walk" /\ dirty = saver.dirty =>
          \A k \in Keys : ShardOf[k] < saver.next => Saved(saver.image, k)
      /\ saver.at \in {"syncdir", "trim"} /\ dirty = saver.dirty =>
          \A k \in Keys : Saved(snap.image, k)
  BY <1>1, Zenon DEF CleanInv
<1>7. /\ saver.lsn \in Nat /\ saver.dirty \in Nat /\ saver.next \in Nat
      /\ saver.image \in [Keys -> Value]
  BY <1>5 DEF Saver
<1>8. ASSUME NEW sn, Sound(sn), segs'[1].first = segs[1].first
      PROVE  /\ sn \in [lsn : Nat, image : [Keys -> Value]]
             /\ sn.lsn <= Len(hist') /\ segs'[1].first <= sn.lsn + 1
             /\ \A k \in Keys : Covers(hist', now', sn.lsn, sn.image[k], k)
  BY <1>2, <1>8, Zenon DEF Sound
<1>9. Len(hist) \in Nat /\ nextLSN = Len(hist) + 1 /\ (\A k \in Keys : ShardOf[k] \in Shards)
      /\ mem \in [Keys -> Value] /\ Nobody \notin Clients
  BY LogFacts, Zenon
<1>10. CASE SaveBegin
  <2>1. /\ saver' = [NoSave EXCEPT !.at = "count", !.lsn = nextLSN - 1]
        /\ UNCHANGED <<segs, snap, snapOld, dirty>>
    BY <1>10, Zenon DEF SaveBegin, logVars
  <2>2. nextLSN - 1 = Len(hist)
    BY <1>9, SMTT(60)
  <2>3. NoSave \in Saver /\ NoSave.next = 1
    BY NoSaveFacts
  <2>4. saver' = SaverOf("count", Len(hist), NoSave.dirty, NoSave.image, 1)
    <3>1. [NoSave EXCEPT !.at = "count", !.lsn = nextLSN - 1] =
             SaverOf("count", nextLSN - 1, NoSave.dirty, NoSave.image, NoSave.next)
      BY <2>3, SaverExcept, Zenon
    <3> QED BY <2>1, <2>2, <2>3, <3>1, Zenon
  <2>5. NoSave.dirty \in Nat /\ NoSave.image \in [Keys -> Value] /\ 1 \in Nat
    BY <2>3 DEF Saver
  <2>6. saver' \in Saver /\ saver'.at = "count" /\ saver'.lsn = Len(hist) /\ saver'.next = 1
    <3> DEFINE l == Len(hist)
               d == NoSave.dirty
               i == NoSave.image
               n == 1
               t == SaverOf("count", l, d, i, n)
    <3>0. l \in Nat /\ d \in Nat /\ i \in [Keys -> Value] /\ n \in Nat
      BY <1>9, <2>5, Zenon
    <3>1. t \in Saver /\ t.at = "count" /\ t.lsn = l /\ t.dirty = d /\ t.image = i /\ t.next = n
      <4> HIDE DEF l, d, i, n
      <4> QED BY <3>0 DEF SaverOf, Saver
    <3> HIDE DEF t
    <3>2. saver' = t
      BY <2>4 DEF t
    <3> QED BY <3>1, <3>2, Zenon
  <2>7. saver'.next >= 1 /\ saver'.lsn <= Len(hist) /\ segs[1].first <= saver'.lsn + 1
    BY <1>9, <2>6, FrontFacts, SMTT(60)
  <2>8. saver'.at # "walk" /\ saver'.at \notin {"syncdir", "trim"} /\ saver'.at # "trim"
        /\ saver'.at \notin {"walk", "syncdir", "trim"}
    BY <2>6
  <2>9. Sound(snap)' /\ Sound(snapOld)'
    BY <1>5, <1>8, <2>1, Zenon DEF Sound
  <2>10. SnapInv'
    BY <1>2, <2>1, <2>6, <2>7, <2>8, <2>9, Zenon DEF SnapInv
  <2>11. CleanInv'
    BY <1>4, <1>6, <2>1, <2>8, Zenon DEF CleanInv
  <2> QED BY <1>3, <2>10, <2>11, Zenon DEF KeyInv
<1>11. CASE SaveCount
  <2>1. /\ saver.at = "count" /\ saver' = [saver EXCEPT !.at = "walk", !.dirty = dirty]
        /\ UNCHANGED <<segs, snap, snapOld, dirty>>
    BY <1>11, Zenon DEF SaveCount, logVars
  <2>2. saver' = SaverOf("walk", saver.lsn, dirty, saver.image, saver.next)
    BY <1>5, <2>1, SaverExcept, Zenon
  <2>4. /\ saver' \in Saver /\ saver'.at = "walk" /\ saver'.lsn = saver.lsn
        /\ saver'.dirty = dirty /\ saver'.next = saver.next
    <3> DEFINE l == saver.lsn
               d == dirty
               i == saver.image
               n == saver.next
               t == SaverOf("walk", l, d, i, n)
    <3>0. l \in Nat /\ d \in Nat /\ i \in [Keys -> Value] /\ n \in Nat
      BY <1>6, <1>7, Zenon
    <3>1. t \in Saver /\ t.at = "walk" /\ t.lsn = l /\ t.dirty = d /\ t.image = i /\ t.next = n
      <4> HIDE DEF l, d, i, n
      <4> QED BY <3>0 DEF SaverOf, Saver
    <3> HIDE DEF t
    <3>2. saver' = t
      BY <2>2 DEF t
    <3> QED BY <3>1, <3>2, Zenon
  <2>5. saver'.at # "count" /\ saver'.at \notin {"syncdir", "trim"} /\ saver'.at # "trim"
        /\ saver.at # "idle"
    BY <2>1, <2>4
  <2>6. \A k \in Keys : ~(ShardOf[k] < saver'.next)
    <3>1. \A s \in Shards : ~(s < 1)
      BY ShardFacts
    <3>2. saver'.next = 1
      BY <1>5, <2>1, <2>4, Zenon
    <3> QED BY <1>9, <3>1, <3>2, Zenon
  <2>7. Sound(snap)' /\ Sound(snapOld)'
    BY <1>5, <1>8, <2>1, Zenon DEF Sound
  <2>8. SnapInv'
    BY <1>2, <1>5, <2>1, <2>4, <2>5, <2>6, <2>7, Zenon DEF SnapInv
  <2>9. dirty <= dirty
    BY <1>6
  <2>10. CleanInv'
    BY <1>4, <1>6, <2>1, <2>4, <2>5, <2>6, <2>9, Zenon DEF CleanInv
  <2> QED BY <1>3, <2>8, <2>10 DEF KeyInv
<1>12. CASE SaveShard
  <2> DEFINE m == [k \in Keys |-> IF ShardOf[k] = saver.next THEN mem[k] ELSE saver.image[k]]
  <2>1. /\ saver.at = "walk" /\ saver.next \in Shards /\ Free(saver.next)
        /\ saver' = [saver EXCEPT !.image = m, !.next = saver.next + 1]
        /\ UNCHANGED <<segs, snap, snapOld, dirty>>
    BY <1>12, Zenon DEF SaveShard, logVars
  <2>2. m \in [Keys -> Value]
    BY <1>7, <1>9, Zenon
  <2>3. \A k \in Keys : (ShardOf[k] = saver.next => m[k] = mem[k])
                        /\ (ShardOf[k] # saver.next => m[k] = saver.image[k])
    BY Zenon
  <2> HIDE DEF m
  <2>4. saver' = SaverOf("walk", saver.lsn, saver.dirty, m, saver.next + 1)
    <3>1. [saver EXCEPT !.image = m, !.next = saver.next + 1] =
             SaverOf(saver.at, saver.lsn, saver.dirty, m, saver.next + 1)
      <4> DEFINE x == saver.next + 1
      <4> HIDE DEF x
      <4>1. [saver EXCEPT !.image = m, !.next = x] = SaverOf(saver.at, saver.lsn, saver.dirty, m, x)
        <5>1. saver \in Saver
          BY <1>5, Zenon
        <5> QED BY <5>1, SaverWalks, Zenon
      <4> QED BY <4>1 DEF x
    <3> QED BY <2>1, <3>1, Zenon
  <2>5. saver.next + 1 \in Nat
    BY <1>7
  <2>6. /\ saver' \in Saver /\ saver'.at = "walk" /\ saver'.lsn = saver.lsn
        /\ saver'.dirty = saver.dirty /\ saver'.image = m /\ saver'.next = saver.next + 1
    <3> DEFINE l == saver.lsn
               d == saver.dirty
               i == m
               n == saver.next + 1
               t == SaverOf("walk", l, d, i, n)
    <3>0. l \in Nat /\ d \in Nat /\ i \in [Keys -> Value] /\ n \in Nat
      BY <1>7, <2>2, <2>5, Zenon
    <3>1. t \in Saver /\ t.at = "walk" /\ t.lsn = l /\ t.dirty = d /\ t.image = i /\ t.next = n
      <4> HIDE DEF l, d, i, n
      <4> QED BY <3>0 DEF SaverOf, Saver
    <3> HIDE DEF t
    <3>2. saver' = t
      BY <2>4 DEF t
    <3> QED BY <3>1, <3>2, Zenon
  <2>7. saver'.at # "count" /\ saver'.at \notin {"syncdir", "trim"} /\ saver'.at # "trim"
        /\ saver.at # "idle" /\ saver'.next >= 1 /\ saver.at \in {"walk", "syncdir", "trim"}
    BY <1>7, <2>1, <2>6, SMTT(60)
  <2>8. \A k \in Keys : ShardOf[k] < saver'.next => ShardOf[k] = saver.next \/ ShardOf[k] < saver.next
    <3>1. \A s \in Shards : s \in Nat
      BY ShardFacts
    <3>2. \A a, b \in Nat : a < b + 1 => a = b \/ a < b
      OBVIOUS
    <3> QED BY <1>7, <1>9, <2>6, <3>1, <3>2, Zenon
  <2>9. \A k \in Keys : ShardOf[k] < saver.next => ShardOf[k] # saver.next
    <3>1. \A s \in Shards : s \in Nat
      BY ShardFacts
    <3>2. \A a, b \in Nat : a < b => a # b
      OBVIOUS
    <3> QED BY <1>7, <1>9, <3>1, <3>2, Zenon
  <2>10. ASSUME NEW k \in Keys, ShardOf[k] = saver.next
         PROVE  ~Applies(ShardOf[k]) /\ Covers(hist, now, saver.lsn, mem[k], k)
    <3>1. ~Applies(ShardOf[k])
      BY <1>9, <2>1, <2>10, Zenon DEF Free, Applies
    <3>2. Settled(k) = mem[k]
      BY <3>1, Zenon DEF Settled
    <3>3. Seen(mem[k], now) = Seen(Upto(hist, Len(hist), k), now)
      BY <1>1, <3>2, Zenon DEF MemInv
    <3>4. Len(hist) \in saver.lsn .. Len(hist)
      <4> DEFINE l == saver.lsn
                 h == Len(hist)
      <4>1. l \in Nat /\ h \in Nat /\ l <= h
        BY <1>5, <1>7, <1>9, <2>7, Zenon
      <4> HIDE DEF l, h
      <4>2. h \in l .. h
        BY <4>1
      <4> QED BY <4>2 DEF l, h
    <3> QED BY <3>1, <3>3, <3>4, Zenon DEF Covers
  <2>11. \A k \in Keys : ShardOf[k] < saver'.next => Covers(hist, now, saver.lsn, m[k], k)
    BY <1>5, <2>1, <2>3, <2>8, <2>9, <2>10, Zenon
  <2>12. Sound(snap)' /\ Sound(snapOld)'
    BY <1>5, <1>8, <2>1, Zenon DEF Sound
  <2>13. SnapInv'
    BY <1>2, <1>5, <2>1, <2>6, <2>7, <2>11, <2>12, Zenon DEF SnapInv
  <2>14. dirty = saver.dirty => \A k \in Keys : ShardOf[k] < saver'.next => Saved(m, k)
    <3> SUFFICES ASSUME dirty = saver.dirty, NEW k \in Keys, ShardOf[k] < saver'.next
                 PROVE  Saved(m, k)
      BY Zenon
    <3>1. CASE ShardOf[k] = saver.next
      BY <2>3, <2>10, <3>1, Zenon DEF Saved
    <3>2. CASE ShardOf[k] < saver.next
      <4>1. Saved(saver.image, k) /\ m[k] = saver.image[k]
        BY <1>6, <2>1, <2>3, <2>9, <3>2, Zenon
      <4> QED BY <4>1, Zenon DEF Saved
    <3> QED BY <2>8, <3>1, <3>2, Zenon
  <2>15. CleanInv'
    BY <1>4, <1>6, <2>1, <2>6, <2>7, <2>14, Zenon DEF CleanInv
  <2> QED BY <1>3, <2>13, <2>15 DEF KeyInv
<1>13. CASE SaveRename
  <2>1. /\ saver.at = "walk" /\ saver.next \notin Shards
        /\ snap' = [lsn |-> saver.lsn, image |-> saver.image]
        /\ saver' = [saver EXCEPT !.at = "syncdir"]
        /\ UNCHANGED <<segs, snapOld, dirty>>
    BY <1>13, Zenon DEF SaveRename, logVars
  <2>2. saver' = SaverOf("syncdir", saver.lsn, saver.dirty, saver.image, saver.next)
    BY <1>5, <2>1, SaverExcept, Zenon
  <2>4. /\ saver' \in Saver /\ saver'.at = "syncdir" /\ saver'.lsn = saver.lsn
        /\ saver'.dirty = saver.dirty /\ saver'.next = saver.next
    <3> DEFINE l == saver.lsn
               d == saver.dirty
               i == saver.image
               n == saver.next
               t == SaverOf("syncdir", l, d, i, n)
    <3>0. l \in Nat /\ d \in Nat /\ i \in [Keys -> Value] /\ n \in Nat
      BY <1>7
    <3>1. t \in Saver /\ t.at = "syncdir" /\ t.lsn = l /\ t.dirty = d /\ t.image = i /\ t.next = n
      <4> HIDE DEF l, d, i, n
      <4> QED BY <3>0 DEF SaverOf, Saver
    <3> HIDE DEF t
    <3>2. saver' = t
      BY <2>2 DEF t
    <3> QED BY <3>1, <3>2, Zenon
  <2>5. saver'.at # "count" /\ saver'.at # "walk" /\ saver'.at # "trim" /\ saver.at # "idle"
        /\ saver.at \in {"walk", "syncdir", "trim"}
    BY <2>1, <2>4
  <2>6. \A k \in Keys : ShardOf[k] < saver.next
    BY <1>1, <2>1, WalkIsOver, Zenon
  <2>7. snap'.lsn = saver.lsn /\ snap'.image = saver.image
        /\ snap' \in [lsn : Nat, image : [Keys -> Value]]
    BY <1>7, <2>1
  <2>8. Sound(snap)'
    BY <1>2, <1>5, <2>1, <2>5, <2>6, <2>7, Zenon DEF Sound
  <2>9. Sound(snapOld)'
    BY <1>5, <1>8, <2>1, Zenon DEF Sound
  <2>10. SnapInv'
    BY <1>2, <1>5, <2>1, <2>4, <2>5, <2>7, <2>8, <2>9, Zenon DEF SnapInv
  <2>11. dirty = saver.dirty => \A k \in Keys : Saved(saver.image, k)
    BY <1>6, <2>1, <2>6, Zenon
  <2>12. dirty = 0 => dirty = saver.dirty
    <3> DEFINE a == saver.dirty
    <3>1. a \in Nat /\ a <= dirty
      BY <1>6, <1>7, <2>5, Zenon
    <3> HIDE DEF a
    <3>2. dirty = 0 => dirty = a
      BY <1>6, <3>1
    <3> QED BY <3>2 DEF a
  <2>13. \A k \in Keys : Saved(saver.image, k) => Saved(snap.image, k)'
    BY <1>4, <2>7, Zenon DEF Saved
  <2>14. CleanInv'
    BY <1>6, <2>1, <2>4, <2>5, <2>11, <2>12, <2>13, Zenon DEF CleanInv
  <2> QED BY <1>3, <2>10, <2>14 DEF KeyInv
<1>14. CASE SaveSyncDir
  <2>1. /\ saver.at = "syncdir" /\ snapOld' = snap /\ saver' = [saver EXCEPT !.at = "trim"]
        /\ UNCHANGED <<segs, snap, dirty>>
    BY <1>14, Zenon DEF SaveSyncDir, logVars
  <2>2. saver' = SaverOf("trim", saver.lsn, saver.dirty, saver.image, saver.next)
    BY <1>5, <2>1, SaverExcept, Zenon
  <2>4. /\ saver' \in Saver /\ saver'.at = "trim" /\ saver'.lsn = saver.lsn
        /\ saver'.dirty = saver.dirty /\ saver'.next = saver.next
    <3> DEFINE l == saver.lsn
               d == saver.dirty
               i == saver.image
               n == saver.next
               t == SaverOf("trim", l, d, i, n)
    <3>0. l \in Nat /\ d \in Nat /\ i \in [Keys -> Value] /\ n \in Nat
      BY <1>7
    <3>1. t \in Saver /\ t.at = "trim" /\ t.lsn = l /\ t.dirty = d /\ t.image = i /\ t.next = n
      <4> HIDE DEF l, d, i, n
      <4> QED BY <3>0 DEF SaverOf, Saver
    <3> HIDE DEF t
    <3>2. saver' = t
      BY <2>2 DEF t
    <3> QED BY <3>1, <3>2, Zenon
  <2>5. saver'.at # "count" /\ saver'.at # "walk" /\ saver.at # "idle"
        /\ saver.at \in {"syncdir", "trim"} /\ saver.at \in {"walk", "syncdir", "trim"}
    BY <2>1, <2>4
  <2>6. Sound(snap)' /\ Sound(snapOld)'
    BY <1>5, <1>8, <2>1, Zenon DEF Sound
  <2>7. SnapInv'
    BY <1>2, <1>5, <2>1, <2>4, <2>5, <2>6, Zenon DEF SnapInv
  <2>8. CleanInv'
    BY <1>4, <1>6, <2>1, <2>4, <2>5, Zenon DEF CleanInv
  <2> QED BY <1>3, <2>7, <2>8 DEF KeyInv
<1>15. CASE SaveTrim
  <2>1. /\ saver.at = "trim" /\ dirty' = dirty - saver.dirty /\ saver' = NoSave
        /\ UNCHANGED <<snap, snapOld>>
        /\ \E n \in 0 .. Len(segs) - 1 :
              /\ \A i \in 1 .. n : segs[i + 1].first <= saver.lsn + 1
              /\ segs' = SubSeq(segs, n + 1, Len(segs))
    BY <1>15, Zenon DEF SaveTrim, Remaining
  <2>2. PICK n \in 0 .. Len(segs) - 1 : /\ \A i \in 1 .. n : segs[i + 1].first <= saver.lsn + 1
                                        /\ segs' = SubSeq(segs, n + 1, Len(segs))
    BY <2>1
  <2>3. segs'[1].first = segs[n + 1].first
    BY <2>2, TrimmedIsLog, Zenon DEF LogInv
  <2>4. saver.at # "idle" /\ saver.at \in {"syncdir", "trim"}
        /\ saver.at \in {"walk", "syncdir", "trim"}
    BY <2>1
  <2>5. segs'[1].first <= saver.lsn + 1
    <3>1. CASE n = 0
      <4>1. n + 1 = 1
        BY <3>1
      <4> QED BY <1>5, <2>3, <2>4, <4>1, Zenon
    <3>2. CASE n # 0
      <4>1. n \in 1 .. n
        BY <3>2
      <4> QED BY <2>2, <2>3, <4>1, Zenon
    <3> QED BY <3>1, <3>2
  <2>6. snap.lsn = saver.lsn /\ snapOld.lsn = saver.lsn
    BY <1>5, <2>1, <2>4, Zenon
  <2>7. Sound(snap)' /\ Sound(snapOld)'
    BY <1>2, <1>5, <2>1, <2>5, <2>6, Zenon DEF Sound
  <2>8. saver' \in Saver /\ saver'.at = "idle" /\ saver'.next = 1
    BY <2>1, NoSaveFacts
  <2>9. saver'.next >= 1 /\ saver'.at # "count" /\ saver'.at # "walk" /\ saver'.at # "trim"
        /\ saver'.at \notin {"syncdir", "trim"} /\ saver'.at \notin {"walk", "syncdir", "trim"}
    BY <2>8
  <2>10. SnapInv'
    BY <2>7, <2>8, <2>9, Zenon DEF SnapInv
  <2>11. dirty' \in Nat /\ (dirty' = 0 => dirty = saver.dirty)
    <3> DEFINE a == saver.dirty
    <3>1. a \in Nat /\ a <= dirty /\ dirty' = dirty - a
      BY <1>6, <1>7, <2>1, <2>4, Zenon
    <3> HIDE DEF a
    <3>2. dirty' \in Nat /\ (dirty' = 0 => dirty = a)
      BY <1>6, <3>1
    <3> QED BY <3>2 DEF a
  <2>12. CleanInv'
    BY <1>4, <1>6, <2>1, <2>4, <2>9, <2>11, Zenon DEF CleanInv
  <2> QED BY <1>3, <2>10, <2>12, Zenon DEF KeyInv
<1>16. CASE SaveFails
  <2>1. saver' = NoSave /\ UNCHANGED <<segs, snap, snapOld, dirty>>
    BY <1>16, Zenon DEF SaveFails, logVars
  <2>2. saver' \in Saver /\ saver'.at = "idle" /\ saver'.next = 1
    BY <2>1, NoSaveFacts
  <2>3. saver'.next >= 1 /\ saver'.at # "count" /\ saver'.at # "walk" /\ saver'.at # "trim"
        /\ saver'.at \notin {"syncdir", "trim"} /\ saver'.at \notin {"walk", "syncdir", "trim"}
    BY <2>2
  <2>4. Sound(snap)' /\ Sound(snapOld)'
    BY <1>5, <1>8, <2>1, Zenon DEF Sound
  <2>5. SnapInv'
    BY <2>2, <2>3, <2>4, Zenon DEF SnapInv
  <2>6. CleanInv'
    BY <1>4, <1>6, <2>1, <2>3, Zenon DEF CleanInv
  <2> QED BY <1>3, <2>5, <2>6 DEF KeyInv
<1> QED BY <1>10, <1>11, <1>12, <1>13, <1>14, <1>15, <1>16, Zenon

-----------------------------------------------------------------------------
(* The other steps. *)

\* Nothing a reader can tell changes in the maps.
LEMMA UnseenStep ==
  ASSUME LogInv, KeyInv, UNCHANGED <<lock, pc, op, snap, snapOld, saver, dirty, hist, now>>,
         segs'[1].first = segs[1].first,
         \A k \in Keys : Seen(mem'[k], now) = Seen(mem[k], now)
  PROVE  KeyInv'
<1>1. LocksInv'
  BY Zenon DEF KeyInv, LocksInv
<1>2. \A k \in Keys : /\ Applies(ShardOf[k])' <=> Applies(ShardOf[k])
                      /\ Settled(k)' = Settled(k) \/ (Settled(k)' = mem'[k] /\ Settled(k) = mem[k])
  BY SameHolder, Zenon
<1>3. \A k \in Keys : Seen(Settled(k)', now) = Seen(Settled(k), now)
  BY <1>2, Zenon
<1>4. Moves
  BY DEF Moves
<1> QED BY <1>1, <1>2, <1>3, <1>4, QuietStep, Zenon

\* An expired record is dropped by Get, by the expiry cycle or by Update.
LEMMA DropIsUnseen ==
  ASSUME LogInv, NEW k0 \in Keys,
         \/ mem' = [mem EXCEPT ![k0] = View(mem, now)[k0]]
         \/ Expired(mem[k0], now) /\ mem' = [mem EXCEPT ![k0] = Absent]
  PROVE  \A k \in Keys : Seen(mem'[k], now) = Seen(mem[k], now)
<1>1. mem \in [Keys -> Value]
  BY LogFacts, Zenon
<1>2. View(mem, now)[k0] = Seen(mem[k0], now)
  BY ViewSeen, Zenon
<1>3. mem'[k0] = Seen(mem[k0], now) \/ (Expired(mem[k0], now) /\ mem'[k0] = Absent)
  BY <1>1, <1>2, Zenon
<1>4. Seen(mem'[k0], now) = Seen(mem[k0], now)
  BY <1>3, SeenFacts
<1>5. \A k \in Keys : k # k0 => mem'[k] = mem[k]
  BY <1>1, Zenon
<1> QED BY <1>4, <1>5, Zenon

\* The steps of the store and the log that no client takes.
LEMMA BackgroundKeeps ==
  ASSUME LogInv, KeyInv, (\E k \in Keys : Reclaim(k)) \/ Tick \/ FlushLog \/ SyncLog
  PROVE  KeyInv'
<1>1. CASE \E k \in Keys : Reclaim(k)
  <2>1. PICK k \in Keys : Reclaim(k)
    BY <1>1
  <2>2. /\ Expired(mem[k], now) /\ mem' = [mem EXCEPT ![k] = Absent]
        /\ UNCHANGED <<lock, pc, op, snap, snapOld, saver, dirty, hist, now, segs>>
    BY <2>1, Zenon DEF Reclaim, snapVars, histVars, logVars
  <2>3. \A x \in Keys : Seen(mem'[x], now) = Seen(mem[x], now)
    BY <2>2, DropIsUnseen, Zenon
  <2>4. segs'[1].first = segs[1].first
    BY <2>2
  <2> QED BY <2>2, <2>3, <2>4, UnseenStep, Zenon
<1>2. CASE Tick
  <2>1. now' = now + 1 /\ UNCHANGED <<mem, lock, pc, op, snap, snapOld, saver, dirty, hist, segs>>
    BY <1>2, Zenon DEF Tick, storeVars, snapVars, histVars, logVars
  <2>2. LocksInv /\ MemInv /\ SnapInv /\ CleanInv
    BY DEF KeyInv
  <2>3. LocksInv'
    BY <2>1, <2>2, Zenon DEF LocksInv
  <2>4. MemInv'
    BY <2>1, <2>2, MemTicks, Zenon
  <2>5. SnapInv'
    <3>1. Moves
      BY <2>1, Zenon DEF Moves
    <3>2. segs'[1].first = segs[1].first
      BY <2>1
    <3> QED BY <2>1, <2>2, <3>1, <3>2, SnapStays, Zenon
  <2>6. CleanInv'
    BY <2>1, <2>2, CleanTicks, Zenon
  <2> QED BY <2>3, <2>4, <2>5, <2>6, Zenon DEF KeyInv
<1>3. CASE FlushLog \/ SyncLog
  <2>1. /\ segs' = AfterFlush \/ segs' = Synced(AfterFlush)
        /\ buf' = <<>>
        /\ UNCHANGED <<mem, lock, pc, op, snap, snapOld, saver, dirty, hist, now, nextLSN>>
    BY <1>3, Zenon DEF FlushLog, SyncLog, storeVars, snapVars, histVars
  <2>2. segs'[1].first = segs[1].first
    BY <2>1, FlushStep, Zenon
  <2> QED BY <2>1, <2>2, UnseenStep, Zenon
<1> QED BY <1>1, <1>2, <1>3

\* The commands.
LEMMA CommandKeeps ==
  ASSUME "flushall" \notin Commands, LogInv, KeyInv, NEW c \in Clients,
         \/ \E k \in Keys, r \in Records : Put(c, k, r)
         \/ \E k \in Keys : Delete(c, k) \/ Update(c, k)
         \/ \E delta \in Batches : BeginBatch(c, delta)
         \/ FlushAll(c) \/ LockShard(c) \/ JournalBatch(c) \/ Apply(c) \/ Wipe(c) \/ Reply(c)
  PROVE  KeyInv'
<1>1. Absent \in Value /\ \A r \in Records : r \in Value
  BY Zenon DEF Value
<1>2. CASE \E k \in Keys, r \in Records : Put(c, k, r)
  <2>1. PICK k \in Keys, r \in Records : Put(c, k, r)
    BY <1>2
  <2>2. /\ pc[c] = "idle" /\ Free(ShardOf[k]) /\ lock' = [lock EXCEPT ![ShardOf[k]] = c]
        /\ Journal(c, Only(k, r)) /\ Goto(c, "apply")
        /\ UNCHANGED <<mem, now, segs, snap, snapOld, saver>>
    BY <2>1, Zenon DEF Put, snapVars
  <2>3. r \in Value /\ \A x \in Keys : Seen(mem'[x], now) = Seen(mem[x], now)
    BY <1>1, <2>2, Zenon
  <2> QED BY <2>2, <2>3, WriteStep, Zenon
<1>3. CASE \E k \in Keys : Delete(c, k)
  <2>1. PICK k \in Keys : Delete(c, k)
    BY <1>3
  <2>2. /\ pc[c] = "idle" /\ Free(ShardOf[k]) /\ lock' = [lock EXCEPT ![ShardOf[k]] = c]
        /\ Journal(c, Only(k, Absent)) /\ Goto(c, "apply")
        /\ UNCHANGED <<mem, now, segs, snap, snapOld, saver>>
    BY <2>1, Zenon DEF Delete, snapVars
  <2>3. \A x \in Keys : Seen(mem'[x], now) = Seen(mem[x], now)
    BY <2>2, Zenon
  <2> QED BY <1>1, <2>2, <2>3, WriteStep, Zenon
<1>4. CASE \E k \in Keys : Update(c, k)
  <2>1. PICK k \in Keys : Update(c, k)
    BY <1>4
  <2>2. /\ pc[c] = "idle" /\ Free(ShardOf[k]) /\ mem' = [mem EXCEPT ![k] = View(mem, now)[k]]
        /\ UNCHANGED <<now, segs, snap, snapOld, saver>>
    BY <2>1, Zenon DEF Update, snapVars
  <2>3. \A x \in Keys : Seen(mem'[x], now) = Seen(mem[x], now)
    BY <2>2, DropIsUnseen, Zenon
  <2>4. \/ \E r \in Value : /\ Journal(c, Only(k, r)) /\ Goto(c, "apply")
                            /\ lock' = [lock EXCEPT ![ShardOf[k]] = c]
        \/ UNCHANGED <<lock, dirty, hist, op, pc>>
    BY <2>1, Zenon DEF Update, Value
  <2>5. CASE UNCHANGED <<lock, dirty, hist, op, pc>>
    <3>1. segs'[1].first = segs[1].first
      BY <2>2
    <3> QED BY <2>2, <2>3, <2>5, <3>1, UnseenStep, Zenon
  <2>6. CASE \E r \in Value : /\ Journal(c, Only(k, r)) /\ Goto(c, "apply")
                              /\ lock' = [lock EXCEPT ![ShardOf[k]] = c]
    <3>1. PICK r \in Value : /\ Journal(c, Only(k, r)) /\ Goto(c, "apply")
                             /\ lock' = [lock EXCEPT ![ShardOf[k]] = c]
      BY <2>6
    <3> QED BY <2>2, <2>3, <3>1, WriteStep, Zenon
  <2> QED BY <2>4, <2>5, <2>6, Zenon
<1>5. CASE \E delta \in Batches : BeginBatch(c, delta)
  <2>1. PICK delta \in Batches : BeginBatch(c, delta)
    BY <1>5
  <2>2. /\ pc[c] = "idle" /\ op' = [op EXCEPT ![c].delta = delta] /\ pc' = [pc EXCEPT ![c] = "batch"]
        /\ UNCHANGED <<mem, lock, snap, snapOld, saver, dirty, hist, now, segs>>
    BY <2>1, Zenon DEF BeginBatch, Goto, storeVars, snapVars, histVars, logVars
  <2>3. op' = [op EXCEPT ![c] = [op[c] EXCEPT !.delta = delta]]
    BY <2>2, Zenon
  <2>4. segs'[1].first = segs[1].first /\ "batch" \notin {"apply", "wipe"} /\ pc[c] \in {"idle", "await"}
    BY <2>2
  <2> DEFINE o == [op[c] EXCEPT !.delta = delta]
  <2> HIDE DEF o
  <2>5. op' = [op EXCEPT ![c] = o]
    BY <2>3 DEF o
  <2>6. UNCHANGED <<mem, lock, snap, snapOld, saver, dirty, hist, now>>
    BY <2>2
  <2> DEFINE w == "batch"
  <2>7. w \notin {"apply", "wipe"} /\ pc' = [pc EXCEPT ![c] = w]
    BY <2>2
  <2> HIDE DEF w
  <2>8. Unlocked(c, w, o)
    BY <2>4, <2>5, <2>6, <2>7, Zenon DEF Unlocked
  <2> QED BY <2>8, UnlockedStep, Zenon
<1>6. CASE FlushAll(c)
  BY <1>6 DEF FlushAll
<1>7. CASE LockShard(c)
  BY <1>7, LockStep
<1>8. CASE JournalBatch(c)
  BY <1>8, BatchStep, Zenon
<1>9. CASE Apply(c)
  BY <1>9, ApplyStep
<1>10. CASE Wipe(c)
  BY <1>10, Zenon DEF Wipe, KeyInv, LocksInv
<1>11. CASE Reply(c)
  <2>1. /\ pc[c] = "await" /\ op' = [op EXCEPT ![c] = NoOp] /\ pc' = [pc EXCEPT ![c] = "idle"]
        /\ UNCHANGED <<mem, lock, snap, snapOld, saver, dirty, hist, now>>
    BY <1>11, Zenon DEF Reply, Goto, storeVars, snapVars
  <2>2. segs'[1].first = segs[1].first
    BY <1>11, ReplyStep, Zenon
  <2> DEFINE w == "idle"
  <2>3. /\ w \notin {"apply", "wipe"} /\ pc[c] \in {"idle", "await"}
        /\ pc' = [pc EXCEPT ![c] = w] /\ op' = [op EXCEPT ![c] = NoOp]
    BY <2>1
  <2>4. UNCHANGED <<mem, lock, snap, snapOld, saver, dirty, hist, now>>
    BY <2>1
  <2> HIDE DEF w
  <2>5. Unlocked(c, w, NoOp)
    BY <2>2, <2>3, <2>4, Zenon DEF Unlocked
  <2> QED BY <2>5, UnlockedStep, Zenon
<1> QED BY <1>2, <1>3, <1>4, <1>5, <1>6, <1>7, <1>8, <1>9, <1>10, <1>11, Zenon

-----------------------------------------------------------------------------
(* The invariant. *)

\* A fresh data directory.
LEMMA FreshStore == Init => StoreInv
<1> SUFFICES ASSUME Init PROVE StoreInv
  OBVIOUS
<1>1. FirstLife
  BY FreshLog
<1>2. /\ mem = Empty /\ lock = [s \in Shards |-> Nobody] /\ now = 0 /\ segs = <<NewSegment(1)>>
      /\ pc = [c \in Clients |-> "idle"] /\ snap = [lsn |-> 0, image |-> Empty] /\ snapOld = snap
      /\ saver = NoSave /\ dirty = 0 /\ hist = <<>>
  BY Zenon DEF Init
<1>3. (\A k \in Keys : ShardOf[k] \in Shards) /\ Nobody \notin Clients
  BY DurableAssumption
<1>4. \A s \in Shards : lock[s] = Nobody /\ ~Applies(s)
  BY <1>2, <1>3, Zenon DEF Applies
<1>5. LocksInv
  <2>1. \A c \in Clients : pc[c] # "wipe" /\ pc[c] # "apply"
    BY <1>2
  <2> QED BY <1>4, <2>1, Zenon DEF LocksInv
<1>6. Len(hist) = 0 /\ hist \in Seq(Delta)
  BY <1>2
<1>7. \A k : Upto(hist, 0, k) = Absent
  <2>1. \A k : {i \in 1 .. 0 : k \in DOMAIN hist[i]} = {}
    OBVIOUS
  <2> QED BY <2>1, Zenon DEF Upto
<1>8. \A k \in Keys : mem[k] = Absent /\ Empty[k] = Absent
  BY <1>2, Zenon DEF Empty
<1>9. \A k \in Keys : Settled(k) = Absent
  BY <1>3, <1>4, <1>8, Zenon DEF Settled
<1>10. MemInv
  BY <1>6, <1>7, <1>9, Zenon DEF MemInv
<1>11. \A k \in Keys : Covers(hist, now, 0, Absent, k)
  <2>1. 0 \in 0 .. Len(hist)
    BY <1>6
  <2> QED BY <1>7, <2>1, Zenon DEF Covers
<1>12. Empty \in [Keys -> Value]
  BY Zenon DEF Empty, Value
<1>13. snap.lsn = 0 /\ snap.image = Empty /\ snap \in [lsn : Nat, image : [Keys -> Value]]
  BY <1>2, <1>12, Zenon
<1>14. segs[1].first = 1
  BY <1>2 DEF NewSegment
<1>15. Sound(snap) /\ Sound(snapOld)
  <2>1. 0 <= Len(hist) /\ segs[1].first <= 0 + 1
    BY <1>6, <1>14
  <2>2. \A k \in Keys : Covers(hist, now, snap.lsn, snap.image[k], k)
    BY <1>8, <1>11, <1>13, Zenon
  <2> QED BY <1>2, <1>13, <2>1, <2>2, Zenon DEF Sound
<1>16. saver \in Saver /\ saver.at = "idle" /\ saver.next = 1
  BY <1>2, NoSaveFacts
<1>17. saver.next >= 1 /\ saver.at # "count" /\ saver.at # "walk" /\ saver.at # "trim"
       /\ saver.at \notin {"syncdir", "trim"} /\ saver.at \notin {"walk", "syncdir", "trim"}
  BY <1>16
<1>18. SnapInv
  BY <1>15, <1>16, <1>17, Zenon DEF SnapInv
<1>19. CleanInv
  <2>1. dirty \in Nat
    BY <1>2
  <2>2. \A k \in Keys : Saved(snap.image, k)
    BY <1>3, <1>4, <1>8, <1>13, Zenon DEF Saved
  <2> QED BY <1>17, <2>1, <2>2, Zenon DEF CleanInv
<1> QED BY <1>1, <1>5, <1>10, <1>18, <1>19, Zenon DEF StoreInv, KeyInv

\* Every step keeps the invariant.
LEMMA StoreInvStep ==
  ASSUME "flushall" \notin Commands
  PROVE  StoreInv /\ [Next]_vars => StoreInv'
<1> SUFFICES ASSUME StoreInv, [Next]_vars PROVE StoreInv'
  OBVIOUS
<1>1. FirstLife /\ (crashes = 0 => KeyInv)
  BY DEF StoreInv
<1>2. FirstLife'
  BY <1>1, FirstLifeStep, Zenon
<1>3. crashes \in Nat /\ (crashes = 0 => mode = "up" /\ LogInv)
  BY <1>1 DEF FirstLife
<1> DEFINE Command ==
      \E c \in Clients :
          \/ \E k \in Keys, r \in Records : Put(c, k, r)
          \/ \E k \in Keys : Delete(c, k) \/ Update(c, k)
          \/ \E delta \in Batches : BeginBatch(c, delta)
          \/ FlushAll(c) \/ LockShard(c) \/ JournalBatch(c) \/ Apply(c) \/ Wipe(c) \/ Reply(c)
<1> DEFINE Background == (\E k \in Keys : Reclaim(k)) \/ Tick \/ FlushLog \/ SyncLog
<1> DEFINE Save == \/ SaveBegin \/ SaveCount \/ SaveShard \/ SaveRename
                   \/ SaveSyncDir \/ SaveTrim \/ SaveFails
<1>4. CASE Kill \/ PowerCut \/ Shutdown
  <2>1. crashes' = crashes + 1
    BY <1>4 DEF Kill, PowerCut, Shutdown, Down
  <2>2. crashes' # 0
    BY <1>3, <2>1, SMTT(60)
  <2> QED BY <1>2, <2>2, Zenon DEF StoreInv
<1>5. CASE Recover
  <2>1. mode = "down" /\ crashes' = crashes
    BY <1>5, Zenon DEF Recover
  <2>2. crashes' # 0
    BY <1>3, <2>1, Zenon
  <2> QED BY <1>2, <2>2 DEF StoreInv
<1>6. CASE UNCHANGED vars
  <2>1. /\ UNCHANGED <<mem, lock, now, pc, op, snap, snapOld, saver, dirty, hist, segs, crashes>>
    BY <1>6, Zenon DEF vars, snapVars, storeVars, logVars, histVars
  <2>2. ASSUME crashes = 0 PROVE KeyInv'
    <3>1. LogInv /\ KeyInv
      BY <1>1, <1>3, <2>2, Zenon
    <3>2. segs'[1].first = segs[1].first
      BY <2>1
    <3>3. \A k \in Keys : Seen(mem'[k], now) = Seen(mem[k], now)
      BY <2>1, Zenon
    <3> QED BY <2>1, <3>1, <3>2, <3>3, UnseenStep, Zenon
  <2> QED BY <1>2, <2>1, <2>2, Zenon DEF StoreInv
<1>7. CASE Command \/ Background \/ Save
  <2>1. crashes' = crashes
    <3>1. CASE Command
      BY <3>1, ZenonT(60) DEF Put, Delete, Update, BeginBatch, FlushAll, LockShard, JournalBatch,
                         Apply, Wipe, Reply
    <3>2. CASE Background
      BY <3>2, Zenon DEF Reclaim, Tick, FlushLog, SyncLog
    <3>3. CASE Save
      BY <3>3, Zenon DEF SaveBegin, SaveCount, SaveShard, SaveRename, SaveSyncDir, SaveTrim,
                         SaveFails
    <3> QED BY <1>7, <3>1, <3>2, <3>3, Zenon
  <2>2. ASSUME crashes = 0 PROVE KeyInv'
    <3>1. LogInv /\ KeyInv
      BY <1>1, <1>3, <2>2
    <3>2. CASE Command
      BY <3>1, <3>2, CommandKeeps, Zenon
    <3>3. CASE Background
      BY <3>1, <3>3, BackgroundKeeps, Zenon
    <3>4. CASE Save
      BY <3>1, <3>4, SnapshotStep, Zenon
    <3> QED BY <1>7, <3>2, <3>3, <3>4, Zenon
  <2> QED BY <1>2, <2>1, <2>2, Zenon DEF StoreInv
<1>8. Next => \/ Kill \/ PowerCut \/ Shutdown \/ Recover
              \/ Command \/ Background \/ Save
  BY Zenon DEF Next, ClientStep
<1> HIDE DEF Command, Background, Save
<1> QED BY <1>4, <1>5, <1>6, <1>7, <1>8, Zenon

\* Until the first crash, and without FLUSHALL, the mutexes keep maps and log
\* in step and the order of a snapshot's steps keeps every key.
THEOREM StoreInvHolds ==
  ASSUME "flushall" \notin Commands
  PROVE  Spec => []StoreInv
<1>1. Init => StoreInv
  BY FreshStore
<1>2. StoreInv /\ [Next]_vars => StoreInv'
  BY StoreInvStep
<1> QED BY <1>1, <1>2, PTL DEF Spec

-----------------------------------------------------------------------------
(* What it promises. *)

\* The map after n deltas, key by key.
LEMMA AfterFacts == \A n : \A k \in Keys : View(After(n), now)[k] = Seen(Upto(hist, n, k), now)
<1>1. \A n : \A k \in Keys : After(n)[k] = Upto(hist, n, k)
  BY Zenon DEF After, Upto
<1>2. ASSUME NEW n, NEW k \in Keys PROVE View(After(n), now)[k] = Seen(Upto(hist, n, k), now)
  <2>1. View(After(n), now)[k] = Seen(After(n)[k], now)
    BY ViewSeen, Zenon
  <2> QED BY <1>1, <2>1, Zenon
<1> QED BY <1>2, Zenon

\* Journalling under the key: whenever no command holds a key's mutex, what
\* readers see of it is what replaying the log would rebuild.
THEOREM MemoryMatchesLogHolds ==
  ASSUME "flushall" \notin Commands
  PROVE  Spec => [](crashes = 0 => MemoryMatchesLog)
<1>1. ASSUME StoreInv, crashes = 0 PROVE MemoryMatchesLog
  <2>1. LogInv /\ MemInv
    BY <1>1 DEF StoreInv, FirstLife, KeyInv
  <2>2. ASSUME NEW k \in Keys, Free(ShardOf[k])
        PROVE  View(mem, now)[k] = View(After(Len(hist)), now)[k]
    <3>1. Nobody \notin Clients
      BY DurableAssumption
    <3>2. Settled(k) = mem[k]
      BY <2>2, <3>1, Zenon DEF Settled, Applies, Free
    <3>3. Seen(mem[k], now) = Seen(Upto(hist, Len(hist), k), now)
      BY <2>1, <3>2, Zenon DEF MemInv
    <3>4. View(mem, now)[k] = Seen(mem[k], now)
      BY SeenFacts, ZenonT(60)
    <3> QED BY <3>3, <3>4, AfterFacts, Zenon
  <2> QED BY <2>2, Zenon DEF MemoryMatchesLog
<1>2. StoreInv => (crashes = 0 => MemoryMatchesLog)
  BY <1>1
<1> QED BY <1>2, StoreInvHolds, PTL

\* A dirty count of zero means that the snapshot file holds what the store
\* does, so that the save points and Close may skip the next one.
THEOREM CleanMeansSavedHolds ==
  ASSUME "flushall" \notin Commands
  PROVE  Spec => [](crashes = 0 => CleanMeansSaved)
<1>1. ASSUME StoreInv, crashes = 0, dirty = 0 PROVE View(snap.image, now) = View(mem, now)
  <2>1. CleanInv
    BY <1>1 DEF StoreInv, KeyInv
  <2>2. \A k \in Keys : Seen(snap.image[k], now) = Seen(mem[k], now)
    BY <1>1, <2>1, Zenon DEF CleanInv, Saved
  <2>3. \A m : View(m, now) = [k \in Keys |-> Seen(m[k], now)]
    BY Zenon DEF View, Seen
  <2>4. [k \in Keys |-> Seen(snap.image[k], now)] = [k \in Keys |-> Seen(mem[k], now)]
    BY <2>2, Zenon
  <2> QED BY <2>3, <2>4, Zenon
<1>2. StoreInv => (crashes = 0 => CleanMeansSaved)
  BY <1>1, Zenon DEF CleanMeansSaved
<1> QED BY <1>2, StoreInvHolds, PTL

\* Recovery from a log image that ends at n and a sound snapshot gives a key
\* the value it had after n or later.
LEMMA ImageKeepsKey ==
  ASSUME LogInv, NEW ss, NEW n, Image(ss, n), ss[1].first = segs[1].first,
         NEW sn, Sound(sn), NEW k \in Keys
  PROVE  ~Refuses(ss) /\ \E m \in Matches(Recovered(ss, sn), {k}) : m >= n
<1> DEFINE l == sn.lsn
           h == Len(hist)
           v == Recovered(ss, sn)[k]
           W == Writes(hist, l, n, k)
<1>1. /\ sn \in [lsn : Nat, image : [Keys -> Value]]
      /\ l <= h /\ segs[1].first <= l + 1
      /\ Covers(hist, now, l, sn.image[k], k)
  BY Zenon DEF Sound
<1>2. l \in Nat /\ h \in Nat
  BY <1>1, LogFacts, Zenon
<1>3. n \in 0 .. h
  BY Zenon DEF Image
<1>4. n \in Nat /\ n <= h
  BY <1>2, <1>3
<1>5. v = IF W = {} THEN sn.image[k] ELSE hist[Max(W)][k]
  <2>1. ss[1].first <= sn.lsn + 1
    BY <1>1, Zenon
  <2>2. Recovered(ss, sn)[k] = Rebuilt(sn, n, k)
    <3>1. Meets(ss, sn)
      BY <1>2, <2>1 DEF Meets
    <3> QED BY <3>1, ImageRecovers, ZenonT(60)
  <2> QED BY <2>2, ZenonT(60) DEF Writes, Rebuilt
<1>6. ~Refuses(ss)
  BY ImageIsRead
<1>7. ASSUME NEW m \in 0 .. h, Seen(v, now) = Seen(Upto(hist, m, k), now)
      PROVE  m \in Matches(Recovered(ss, sn), {k})
  <2>1. View(Recovered(ss, sn), now)[k] = Seen(v, now)
    BY SeenFacts, ZenonT(60)
  <2>2. View(After(m), now)[k] = Seen(Upto(hist, m, k), now)
    BY AfterFacts, Zenon
  <2> QED BY <1>7, <2>1, <2>2, Zenon DEF Matches
<1> HIDE DEF v, W
<1>8. CASE W # {}
  <2>1. l <= n
    <3>1. l > n => l + 1 .. n = {}
      BY <1>2, <1>4, SMTT(60)
    <3>2. l + 1 .. n # {}
      BY <1>8, Zenon DEF W, Writes
    <3> HIDE DEF l
    <3> QED BY <1>2, <1>4, <3>1, <3>2, SMTT(60)
  <2>2. Upto(hist, n, k) = hist[Max(W)][k]
    BY <1>2, <1>4, <1>8, <2>1, UptoSplit, Zenon DEF W
  <2>3. n \in Matches(Recovered(ss, sn), {k})
    BY <1>3, <1>5, <1>7, <1>8, <2>2, Zenon
  <2>4. n >= n
    BY <1>4, SMTT(60)
  <2> QED BY <1>6, <2>3, <2>4, Zenon
<1>9. CASE W = {}
  <2>1. v = sn.image[k]
    BY <1>5, <1>9, Zenon
  <2>2. PICK m \in l .. h : Seen(v, now) = Seen(Upto(hist, m, k), now)
    BY <1>1, <2>1, Zenon DEF Covers
  <2>3. m \in Nat /\ l <= m /\ m <= h /\ m \in 0 .. h
    <3>0. m \in l .. h
      BY <2>2
    <3> HIDE DEF l, h
    <3> QED BY <1>2, <3>0, SMTT(60)
  <2>4. CASE m >= n
    BY <1>6, <1>7, <2>2, <2>3, <2>4, Zenon
  <2>5. CASE m < n
    <3>1. l <= n
      <4> HIDE DEF l
      <4> QED BY <1>2, <1>4, <2>3, <2>5, SMTT(60)
    <3>2. Upto(hist, n, k) = Upto(hist, l, k)
      BY <1>2, <1>4, <1>9, <3>1, UptoSplit, Zenon DEF W
    <3>3. Writes(hist, l, m, k) = {}
      <4>1. \A i \in l + 1 .. m : i \in l + 1 .. n
        <5> HIDE DEF l
        <5> QED BY <1>2, <1>4, <2>3, <2>5, SMTT(60)
      <4> QED BY <1>9, <4>1, Zenon DEF W, Writes
    <3>4. Upto(hist, m, k) = Upto(hist, l, k)
      BY <1>2, <2>3, <3>3, UptoSplit, ZenonT(60)
    <3>5. n \in Matches(Recovered(ss, sn), {k})
      BY <1>3, <1>7, <2>2, <3>2, <3>4, Zenon
    <3>6. n >= n
      BY <1>4
    <3> QED BY <1>6, <3>5, <3>6, Zenon
  <2>6. m >= n \/ m < n
    BY <1>4, <2>3, SMTT(60)
  <2> QED BY <2>4, <2>5, <2>6, Zenon
<1> QED BY <1>8, <1>9

\* With snapshots being taken, renamed and the log trimmed behind them, a
\* kill never takes a key back to a value older than the last acknowledged.
THEOREM KeysSurviveKillHolds ==
  ASSUME "flushall" \notin Commands
  PROVE  Spec => [](crashes = 0 => KeysSurviveKill)
<1>1. ASSUME StoreInv, crashes = 0, NEW k \in Keys
      PROVE  ~Refuses(segs) /\ \E n \in Matches(Recovered(segs, snap), {k}) : n >= LastAcked({k})
  <2>1. LogInv /\ Sound(snap)
    BY <1>1 DEF StoreInv, FirstLife, KeyInv, SnapInv
  <2> DEFINE e == End(segs) - 1
  <2>2. e \in Nat /\ \A a \in acked : a <= e
    BY <2>1, EndFacts
  <2>3. Image(segs, e)
    BY <2>1, LogIsImage DEF LogInv
  <2> HIDE DEF e
  <2>4. ~Refuses(segs) /\ \E m \in Matches(Recovered(segs, snap), {k}) : m >= e
    BY <2>1, <2>3, ImageKeepsKey, Zenon
  <2>5. PICK m \in Matches(Recovered(segs, snap), {k}) : m >= e
    BY <2>4
  <2>6. m \in Nat
    <3>1. m \in 0 .. Len(hist)
      BY <2>5, Zenon DEF Matches
    <3> QED BY <3>1
  <2>7. m >= LastAcked({k})
    BY <2>1, <2>2, <2>5, <2>6, AckedBound, SMTT(60)
  <2> QED BY <2>4, <2>5, <2>7, Zenon
<1>2. StoreInv => (crashes = 0 => KeysSurviveKill)
  BY <1>1, Zenon DEF KeysSurviveKill
<1> QED BY <1>2, StoreInvHolds, PTL

\* The same for a power cut at any instant, which keeps of every segment file
\* at least what was fsynced and may bring back the previous snapshot.
THEOREM KeysSurvivePowerCutHolds ==
  ASSUME "flushall" \notin Commands
  PROVE  Spec => [](crashes = 0 => KeysSurvivePowerCut)
<1>1. ASSUME StoreInv, crashes = 0, NEW ss \in PowerCutImages, NEW sn \in {snap, snapOld},
             NEW k \in Keys
      PROVE  /\ ~Refuses(ss)
             /\ \E n \in Matches(Recovered(ss, sn), {k}) :
                   Policy = "always" => n >= LastAcked({k})
  <2>1. LogInv /\ Sound(sn)
    BY <1>1, Zenon DEF StoreInv, FirstLife, KeyInv, SnapInv
  <2>2. ss[1].first = segs[1].first /\ \E n \in Nat : n >= StableEnd(segs) - 1 /\ Image(ss, n)
    BY <2>1, PowerCutIsImage, Zenon DEF LogInv
  <2>3. PICK n \in Nat : n >= StableEnd(segs) - 1 /\ Image(ss, n)
    BY <2>2
  <2>4. ~Refuses(ss) /\ \E m \in Matches(Recovered(ss, sn), {k}) : m >= n
    BY <2>1, <2>2, <2>3, ImageKeepsKey, Zenon
  <2>5. PICK m \in Matches(Recovered(ss, sn), {k}) : m >= n
    BY <2>4, Zenon
  <2>6. m \in Nat
    <3>1. m \in 0 .. Len(hist)
      BY <2>5, Zenon DEF Matches
    <3> QED BY <3>1
  <2>7. ASSUME Policy = "always" PROVE m >= LastAcked({k})
    <3>1. \A a \in acked : a <= n
      BY <2>1, <2>3, <2>7, EndFacts, SMTT(60)
    <3> QED BY <2>1, <2>5, <2>6, <3>1, AckedBound, SMTT(60)
  <2> QED BY <2>4, <2>5, <2>7, Zenon
<1>2. StoreInv => (crashes = 0 => KeysSurvivePowerCut)
  BY <1>1, Zenon DEF KeysSurvivePowerCut
<1> QED BY <1>2, StoreInvHolds, PTL
============================================================================
