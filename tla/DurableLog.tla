----------------------------- MODULE DurableLog -----------------------------
(***************************************************************************)
(* What a crash leaves of the durable engine's log, for any number of      *)
(* clients, keys and records and any segment size: until the first crash   *)
(* the segment files hold the history, in order and without a gap, and     *)
(* recovery rebuilds from them the map after some prefix of it.            *)
(***************************************************************************)
EXTENDS DurableStore, FiniteSetTheorems, WellFoundedInduction, TLAPS

Value == Records \cup {Absent}
Delta == UNION {[K -> Value] : K \in SUBSET Keys}
Rec == [lsn : Int, delta : Delta]
Segment == [first : Nat, recs : Seq(Rec), stable : Nat]

\* The LSN after the last one in the files, and after the last one that a
\* power cut leaves there.
End(ss) == ss[Len(ss)].first + Len(ss[Len(ss)].recs)
StableEnd(ss) == ss[Len(ss)].first + ss[Len(ss)].stable

\* A record is the one the history has under its LSN.
InPlace(r, l) == l \in 1 .. Len(hist) /\ r.lsn = l /\ r.delta = hist[l]

\* Segments follow one another without a gap; only the last may be empty.
Chained(ss) ==
    /\ ss \in Seq(Segment) /\ Len(ss) >= 1
    /\ \A i \in 1 .. Len(ss) : ss[i].first >= 1
    /\ \A i \in 1 .. Len(ss) - 1 :
          Len(ss[i].recs) >= 1 /\ ss[i + 1].first = ss[i].first + Len(ss[i].recs)
    /\ \A i, j \in 1 .. Len(ss) : i < j => ss[i].first + Len(ss[i].recs) <= ss[j].first
    /\ \A l \in ss[1].first .. End(ss) - 1 :
          \E i \in 1 .. Len(ss) : l \in ss[i].first .. ss[i].first + Len(ss[i].recs) - 1

\* The log: files and buffer hold the history, each record under its LSN.
Log(ss, b) ==
    /\ Chained(ss) /\ b \in Seq(Rec)
    /\ hist \in Seq(Delta) /\ nextLSN = Len(hist) + 1
    /\ \A i \in 1 .. Len(ss) :
          /\ ss[i].stable <= Len(ss[i].recs)
          /\ i < Len(ss) => ss[i].stable = Len(ss[i].recs)
          /\ \A j \in 1 .. Len(ss[i].recs) : InPlace(ss[i].recs[j], ss[i].first + j - 1)
    /\ \A j \in 1 .. Len(b) : InPlace(b[j], End(ss) + j - 1)
    /\ End(ss) + Len(b) = nextLSN

\* What was answered is in the files, and under "always" on stable storage.
AckedIsLogged ==
    \A a \in acked :
        a \in 1 .. Len(hist) /\ a < End(segs) /\ (Policy = "always" => a < StableEnd(segs))

\* A command between its append and its reply knows its LSN.
Logged == {"apply", "wipe", "await"}
OpsInv ==
    /\ pc \in [Clients -> {"idle", "batch"} \cup Logged]
    /\ op \in [Clients -> [delta : Delta, lsn : Nat, index : Nat, wiped : Nat]]
    /\ \A c \in Clients :
          /\ pc[c] \in Logged => op[c].lsn \in 1 .. Len(hist) /\ op[c].index = op[c].lsn
          /\ pc[c] = "batch" => op[c].delta \in Batches

\* Before the first snapshot there is nothing to trim the log to.
NothingTrimmed ==
    saves = 0 => snap = [lsn |-> 0, image |-> Empty] /\ saver.at = "idle" /\ segs[1].first = 1

StoreTypes ==
    /\ mem \in [Keys -> Value]
    /\ lock \in [Shards -> Clients \cup {Nobody}]
    /\ now \in 0 .. MaxNow /\ nextLSN <= MaxLSN + 1
    /\ saves \in Nat

\* The invariant of the first incarnation.
LogInv == Log(segs, buf) /\ AckedIsLogged /\ OpsInv /\ NothingTrimmed /\ StoreTypes
FirstLife == crashes \in Nat /\ (crashes = 0 => mode = "up" /\ LogInv)

-----------------------------------------------------------------------------
(* Recovery from a log image. *)

\* The LSN the place of a record stands for.
PlaceLSN(ss, p) == ss[p[1]].first + p[2] - 1

\* A log image: the history up to n, perhaps followed by one torn record.
Image(ss, n) ==
    /\ Chained(ss) /\ hist \in Seq(Delta) /\ n \in 0 .. Len(hist) /\ n < End(ss)
    /\ \A i \in 1 .. Len(ss) : \A j \in 1 .. Len(ss[i].recs) :
          IF ss[i].first + j - 1 <= n
          THEN InPlace(ss[i].recs[j], ss[i].first + j - 1)
          ELSE i = Len(ss) /\ j = Len(ss[i].recs) /\ ss[i].recs[j].lsn = -1

\* The greatest element of a bounded set of naturals.
LEMMA GreatestOf ==
  ASSUME NEW S, NEW n \in Nat, S \subseteq 0 .. n, S # {}
  PROVE  Max(S) \in S /\ \A y \in S : y <= Max(S)
<1> DEFINE T == {n - x : x \in S}
<1>1. T \subseteq Nat /\ T # {}
  <2>1. \A x \in S : n - x \in Nat
    OBVIOUS
  <2> QED BY <2>1, Zenon
<1> HIDE DEF T
<1>2. \E x \in T : \A y \in T : <<y, x>> \notin OpToRel(<, Nat)
  BY <1>1, NatLessThanWellFounded, WFMin, Zenon
<1>3. \A x, y \in Nat : <<y, x>> \in OpToRel(<, Nat) <=> y < x
  BY DEF OpToRel
<1>4. PICK t \in T : \A y \in T : <<y, t>> \notin OpToRel(<, Nat)
  BY <1>2, Zenon
<1>5. \A y \in T : t \in Nat /\ y \in Nat
  BY <1>1, <1>4, Zenon
<1>6. \A y \in T : ~(y < t)
  BY <1>3, <1>4, <1>5, Zenon
<1>7. PICK x \in S : t = n - x
  BY <1>4, Zenon DEF T
<1>8. \A y \in S : x >= y
  <2>1. \A y \in S : n - y \in T
    BY DEF T
  <2> QED BY <1>6, <1>7, <2>1
<1>9. Max(S) \in S /\ \A y \in S : Max(S) >= y
  BY <1>8, Zenon DEF Max
<1> QED BY <1>9

\* The parts of a place.
LEMMA PlaceFacts ==
  ASSUME NEW ss
  PROVE  /\ \A p \in Places(ss) :
               p[1] \in 1 .. Len(ss) /\ p[2] \in 1 .. Len(ss[p[1]].recs) /\ p = <<p[1], p[2]>>
         /\ \A i \in 1 .. Len(ss) : \A j \in 1 .. Len(ss[i].recs) : <<i, j>> \in Places(ss)
BY DEF Places

\* The types of a chain of segments.
LEMMA ChainFacts ==
  ASSUME NEW ss, Chained(ss)
  PROVE  /\ ss \in Seq(Segment) /\ Len(ss) \in Nat /\ Len(ss) >= 1 /\ DOMAIN ss = 1 .. Len(ss)
         /\ 1 \in 1 .. Len(ss) /\ Len(ss) \in 1 .. Len(ss)
         /\ \A i \in 1 .. Len(ss) :
               /\ ss[i] \in Segment
               /\ ss[i].first \in Nat /\ ss[i].first >= 1 /\ ss[i].stable \in Nat
               /\ ss[i].recs \in Seq(Rec) /\ Len(ss[i].recs) \in Nat
         /\ \A i \in 1 .. Len(ss) - 1 :
               ss[i].recs # <<>> /\ ss[i + 1].first = ss[i].first + Len(ss[i].recs)
         /\ \A i, j \in 1 .. Len(ss) : i < j => ss[i].first + Len(ss[i].recs) <= ss[j].first
<1>1. /\ ss \in Seq(Segment) /\ Len(ss) >= 1
      /\ \A i \in 1 .. Len(ss) : ss[i].first >= 1
      /\ \A i \in 1 .. Len(ss) - 1 :
            Len(ss[i].recs) >= 1 /\ ss[i + 1].first = ss[i].first + Len(ss[i].recs)
      /\ \A i, j \in 1 .. Len(ss) : i < j => ss[i].first + Len(ss[i].recs) <= ss[j].first
  BY DEF Chained
<1>2. Len(ss) \in Nat /\ DOMAIN ss = 1 .. Len(ss) /\ \A i \in 1 .. Len(ss) : ss[i] \in Segment
  BY <1>1
<1>3. \A g \in Segment : g.first \in Nat /\ g.stable \in Nat /\ g.recs \in Seq(Rec)
  BY DEF Segment
<1>4. \A r \in Seq(Rec) : Len(r) \in Nat /\ (Len(r) >= 1 => r # <<>>)
  OBVIOUS
<1>5. \A i \in 1 .. Len(ss) :
         /\ ss[i].first \in Nat /\ ss[i].first >= 1 /\ ss[i].stable \in Nat
         /\ ss[i].recs \in Seq(Rec) /\ Len(ss[i].recs) \in Nat
  BY <1>1, <1>2, <1>3, <1>4
<1>6. \A i \in 1 .. Len(ss) - 1 : ss[i].recs # <<>>
  BY <1>1, <1>2, <1>4, <1>5
<1>7. 1 \in 1 .. Len(ss) /\ Len(ss) \in 1 .. Len(ss)
  BY <1>1, <1>2
<1> QED BY <1>1, <1>2, <1>5, <1>6, <1>7

\* Records are read in the order of their LSNs.
LEMMA PlacesAreOrdered ==
  ASSUME NEW ss, Chained(ss), NEW p \in Places(ss), NEW q \in Places(ss)
  PROVE  /\ PlaceLSN(ss, p) \in Nat
         /\ Earlier(p, q) => PlaceLSN(ss, p) < PlaceLSN(ss, q)
         /\ p = q \/ Earlier(p, q) \/ Earlier(q, p)
         /\ ~(Earlier(p, q) /\ Earlier(q, p)) /\ ~Earlier(p, p)
<1>1. /\ p[1] \in 1 .. Len(ss) /\ p[2] \in 1 .. Len(ss[p[1]].recs) /\ p = <<p[1], p[2]>>
      /\ q[1] \in 1 .. Len(ss) /\ q[2] \in 1 .. Len(ss[q[1]].recs) /\ q = <<q[1], q[2]>>
  BY PlaceFacts
<1>2. /\ Len(ss) \in Nat
      /\ \A i \in 1 .. Len(ss) : ss[i].first \in Nat /\ Len(ss[i].recs) \in Nat /\ ss[i].first >= 1
      /\ \A i, j \in 1 .. Len(ss) : i < j => ss[i].first + Len(ss[i].recs) <= ss[j].first
  BY ChainFacts
<1>3. PlaceLSN(ss, p) \in Nat
  BY <1>1, <1>2 DEF PlaceLSN
<1>4. Earlier(p, q) => PlaceLSN(ss, p) < PlaceLSN(ss, q)
  <2>1. CASE p[1] < q[1]
    <3>1. ss[p[1]].first + Len(ss[p[1]].recs) <= ss[q[1]].first
      BY <1>1, <1>2, <2>1
    <3>2. /\ ss[p[1]].first \in Nat /\ ss[q[1]].first \in Nat /\ Len(ss[p[1]].recs) \in Nat
          /\ p[2] \in Nat /\ p[2] <= Len(ss[p[1]].recs) /\ q[2] \in Nat /\ q[2] >= 1
      BY <1>1, <1>2
    <3>3. \A a, b, m, x, y \in Nat : a + m <= b /\ x <= m /\ 1 <= y => a + x - 1 < b + y - 1
      OBVIOUS
    <3>4. PlaceLSN(ss, p) < PlaceLSN(ss, q)
      BY <3>1, <3>2, <3>3, Zenon DEF PlaceLSN
    <3> QED BY <3>4
  <2>2. CASE p[1] = q[1] /\ p[2] < q[2]
    BY <1>1, <1>2, <2>2 DEF PlaceLSN
  <2> QED BY <2>1, <2>2 DEF Earlier
<1>5. p = q \/ Earlier(p, q) \/ Earlier(q, p)
  BY <1>1, <1>2 DEF Earlier
<1>6. ~(Earlier(p, q) /\ Earlier(q, p)) /\ ~Earlier(p, p)
  BY <1>1, <1>2 DEF Earlier
<1> QED BY <1>3, <1>4, <1>5, <1>6

\* Of an image, replay reads exactly the records up to n, and reports no
\* damage before the last segment.
LEMMA ImageIsRead ==
  ASSUME NEW ss, NEW n, Image(ss, n)
  PROVE  /\ Good(ss) = {p \in Places(ss) : PlaceLSN(ss, p) <= n}
         /\ ~Refuses(ss)
         /\ \A p \in Good(ss) : InPlace(RecordAt(ss, p), PlaceLSN(ss, p))
<1>1. /\ Chained(ss) /\ n \in Nat /\ n \in 0 .. Len(hist)
      /\ \A p \in Places(ss) :
            IF PlaceLSN(ss, p) <= n
            THEN InPlace(RecordAt(ss, p), PlaceLSN(ss, p))
            ELSE p[1] = Len(ss) /\ p[2] = Len(ss[p[1]].recs) /\ RecordAt(ss, p).lsn = -1
  BY PlaceFacts DEF Image, PlaceLSN, RecordAt
<1>2. \A p \in Places(ss) :
         p[1] \in 1 .. Len(ss) /\ p[2] \in 1 .. Len(ss[p[1]].recs) /\ p = <<p[1], p[2]>>
  BY PlaceFacts
<1>3. /\ Len(ss) \in Nat
      /\ \A i \in 1 .. Len(ss) : ss[i].first \in Nat /\ Len(ss[i].recs) \in Nat /\ ss[i].first >= 1
      /\ \A i \in 1 .. Len(ss) - 1 :
            ss[i].recs # <<>> /\ ss[i + 1].first = ss[i].first + Len(ss[i].recs)
  BY <1>1, ChainFacts
<1>4. \A p \in Places(ss) : PlaceLSN(ss, p) \in Nat
  BY <1>2, <1>3 DEF PlaceLSN
<1>5. ASSUME NEW q \in Places(ss), PlaceLSN(ss, q) <= n
      PROVE  ~Damaged(ss, q)
  <2>1. RecordAt(ss, q).lsn = PlaceLSN(ss, q)
    BY <1>1, <1>5 DEF InPlace
  <2>2. ASSUME NEW p \in Places(ss), Follows(ss, p, q)
        PROVE  RecordAt(ss, q).lsn = RecordAt(ss, p).lsn + 1
    <3>1. PlaceLSN(ss, q) = PlaceLSN(ss, p) + 1
      <4>1. CASE p[1] = q[1] /\ p[2] + 1 = q[2]
        BY <1>2, <1>3, <4>1 DEF PlaceLSN
      <4>2. CASE /\ p[1] < q[1] /\ p[2] = Len(ss[p[1]].recs) /\ q[2] = 1
                 /\ \A i \in p[1] + 1 .. q[1] - 1 : ss[i].recs = <<>>
        <5>0. p[1] \in Nat /\ q[1] \in Nat /\ p[1] >= 1 /\ q[1] <= Len(ss)
          BY <1>2, <1>3
        <5>1. q[1] = p[1] + 1
          <6>1. SUFFICES ASSUME p[1] + 1 < q[1] PROVE FALSE
            BY <4>2, <5>0
          <6>2. p[1] + 1 \in 1 .. Len(ss) - 1 /\ p[1] + 1 \in p[1] + 1 .. q[1] - 1
            BY <1>3, <5>0, <6>1
          <6> QED BY <1>3, <4>2, <6>2, Zenon
        <5>2. p[1] \in 1 .. Len(ss) - 1
          BY <1>2, <1>3, <5>1
        <5>3. ss[p[1] + 1].first = ss[p[1]].first + Len(ss[p[1]].recs)
          BY <1>3, <5>2, Zenon
        <5>4. ss[p[1]].first \in Nat /\ Len(ss[p[1]].recs) \in Nat
          BY <1>2, <1>3
        <5> QED BY <4>2, <5>1, <5>3, <5>4 DEF PlaceLSN
      <4> QED BY <2>2, <4>1, <4>2 DEF Follows
    <3>2. PlaceLSN(ss, p) <= n
      BY <1>1, <1>4, <1>5, <3>1
    <3> QED BY <1>1, <2>1, <3>1, <3>2 DEF InPlace
  <2>3. RecordAt(ss, q).lsn # -1
    BY <1>4, <2>1
  <2> QED BY <2>2, <2>3 DEF Damaged, TornRecord
<1>6. \A q \in Places(ss) : Damaged(ss, q) <=> ~(PlaceLSN(ss, q) <= n)
  BY <1>1, <1>5 DEF Damaged, TornRecord
<1>7. \A p, q \in Places(ss) :
         /\ Earlier(p, q) => PlaceLSN(ss, p) < PlaceLSN(ss, q)
         /\ p = q \/ Earlier(p, q) \/ Earlier(q, p)
         /\ ~Earlier(p, p)
  BY <1>1, PlacesAreOrdered
<1>8. Good(ss) = {p \in Places(ss) : PlaceLSN(ss, p) <= n}
  <2>1. Good(ss) = {q \in Places(ss) : \A p \in Places(ss) : Damaged(ss, p) => Earlier(q, p)}
    BY DEF Good
  <2>2. ASSUME NEW q \in Places(ss), PlaceLSN(ss, q) <= n, NEW p \in Places(ss), Damaged(ss, p)
        PROVE  Earlier(q, p)
    BY <1>1, <1>4, <1>6, <1>7, <2>2
  <2>3. ASSUME NEW q \in Places(ss), ~(PlaceLSN(ss, q) <= n)
        PROVE  \E p \in Places(ss) : Damaged(ss, p) /\ ~Earlier(q, p)
    BY <1>6, <1>7, <2>3
  <2> QED BY <2>1, <2>2, <2>3
<1>9. ~Refuses(ss)
  BY <1>1, <1>3, <1>8 DEF Refuses
<1> QED BY <1>1, <1>8, <1>9

\* A key after the snapshot and the writes that follow it, up to n.
Rebuilt(sn, n, k) ==
  LET I == {i \in sn.lsn + 1 .. n : k \in DOMAIN hist[i]}
  IN IF I = {} THEN sn.image[k] ELSE hist[Max(I)][k]

\* The log starts no later than right after the snapshot.
Meets(ss, sn) == sn.lsn \in Nat /\ ss[1].first <= sn.lsn + 1

\* Recovery from an image and a snapshot no older than the log's start gives
\* every key its last value in the history after the snapshot and up to n.
LEMMA ImageRecovers ==
  ASSUME NEW ss, NEW n, Image(ss, n), NEW sn, Meets(ss, sn), NEW k \in Keys
  PROVE  Recovered(ss, sn)[k] = Rebuilt(sn, n, k)
<1> DEFINE P == {p \in Good(ss) : RecordAt(ss, p).lsn > sn.lsn /\ k \in DOMAIN RecordAt(ss, p).delta}
           I == {i \in sn.lsn + 1 .. n : k \in DOMAIN hist[i]}
<1>0. sn.lsn \in Nat /\ ss[1].first <= sn.lsn + 1
  BY DEF Meets
<1> USE <1>0
<1> SUFFICES Recovered(ss, sn)[k] = IF I = {} THEN sn.image[k] ELSE hist[Max(I)][k]
  BY Zenon DEF Rebuilt
<1>1. Recovered(ss, sn)[k] = IF P = {} THEN sn.image[k] ELSE RecordAt(ss, Latest(P)).delta[k]
  BY Zenon DEF Recovered
<1>2. /\ Chained(ss) /\ hist \in Seq(Delta) /\ n \in Nat /\ n < End(ss)
  BY DEF Image
<1>3. /\ Good(ss) = {p \in Places(ss) : PlaceLSN(ss, p) <= n}
      /\ \A p \in Good(ss) :
            RecordAt(ss, p).lsn = PlaceLSN(ss, p) /\ RecordAt(ss, p).delta = hist[PlaceLSN(ss, p)]
  BY ImageIsRead DEF InPlace
<1>4. \A p, q \in Places(ss) :
         /\ PlaceLSN(ss, p) \in Nat
         /\ Earlier(p, q) => PlaceLSN(ss, p) < PlaceLSN(ss, q)
         /\ p = q \/ Earlier(p, q) \/ Earlier(q, p)
  BY <1>2, PlacesAreOrdered
<1>5. P \subseteq Places(ss) /\ \A p \in P : PlaceLSN(ss, p) \in I
  BY <1>2, <1>3, <1>4
<1>6. CASE I = {}
  BY <1>1, <1>5, <1>6
<1>7. CASE I # {}
  <2>1. I \subseteq 0 .. n
    BY <1>2
  <2>2. Max(I) \in I /\ \A y \in I : y <= Max(I)
    BY <1>2, <1>7, <2>1, GreatestOf, Zenon
  <2> DEFINE x == Max(I)
  <2>3. x \in Nat /\ x >= sn.lsn + 1 /\ x <= n /\ k \in DOMAIN hist[x] /\ x > sn.lsn
    BY <2>2, <1>2
  <2>4. \A y \in I : y <= x
    BY <2>2
  <2> HIDE DEF x
  <2>5. PICK p \in Places(ss) : PlaceLSN(ss, p) = x
    <3>1. /\ Len(ss) \in Nat /\ Len(ss) >= 1
          /\ \A i \in 1 .. Len(ss) : ss[i].first \in Nat /\ Len(ss[i].recs) \in Nat
      BY <1>2, ChainFacts
    <3>2. x \in ss[1].first .. End(ss) - 1
      <4>1. ss[1].first \in Nat /\ End(ss) \in Nat
        BY <3>1 DEF End
      <4> QED BY <1>2, <2>3, <4>1
    <3>3. PICK i \in 1 .. Len(ss) : x \in ss[i].first .. ss[i].first + Len(ss[i].recs) - 1
      BY <1>2, <3>2 DEF Chained
    <3>4. x - ss[i].first + 1 \in 1 .. Len(ss[i].recs)
      <4>1. ss[i].first \in Nat /\ Len(ss[i].recs) \in Nat
        BY <3>1
      <4> QED BY <2>3, <3>3, <4>1, SMTT(30)
    <3>5. <<i, x - ss[i].first + 1>> \in Places(ss)
      BY <3>4, PlaceFacts
    <3>6. PlaceLSN(ss, <<i, x - ss[i].first + 1>>) = x
      BY <2>3, <3>1 DEF PlaceLSN
    <3> QED BY <3>5, <3>6
  <2>6. p \in P /\ RecordAt(ss, p).delta = hist[x]
    BY <1>3, <2>3, <2>5
  <2>7. \A q \in P : p = q \/ Earlier(q, p)
    <3>1. ASSUME NEW q \in P PROVE p = q \/ Earlier(q, p)
      <4>1. q \in Places(ss) /\ PlaceLSN(ss, q) \in I
        BY <1>5
      <4>2. PlaceLSN(ss, q) <= x
        BY <2>4, <4>1
      <4>3. ~(PlaceLSN(ss, p) < PlaceLSN(ss, q))
        BY <1>4, <2>3, <2>5, <4>1, <4>2
      <4> QED BY <1>4, <4>1, <4>3
    <3> QED BY <3>1
  <2>8. \A q \in P : Earlier(p, q) => ~Earlier(q, p)
    BY <1>4, <1>5, <2>5
  <2> HIDE DEF P, I
  <2>9. Latest(P) = p
    <3>1. Latest(P) \in P /\ \A q \in P : Latest(P) = q \/ Earlier(q, Latest(P))
      BY <2>6, <2>7, Zenon DEF Latest
    <3> QED BY <2>6, <2>7, <2>8, <3>1, Zenon
  <2> QED BY <1>1, <1>7, <2>6, <2>9 DEF x, I
<1> QED BY <1>6, <1>7

-----------------------------------------------------------------------------
(* What a crash leaves is an image. *)

\* The files themselves, which a kill leaves as they are.
LEMMA LogIsImage ==
  ASSUME NEW ss, NEW b, Log(ss, b)
  PROVE  Image(ss, End(ss) - 1)
<1>1. Chained(ss) /\ b \in Seq(Rec) /\ hist \in Seq(Delta) /\ End(ss) + Len(b) = Len(hist) + 1
  BY DEF Log
<1>2. Len(ss) \in 1 .. Len(ss) /\ ss[Len(ss)].first \in Nat /\ ss[Len(ss)].first >= 1
      /\ Len(ss[Len(ss)].recs) \in Nat
  BY <1>1, ChainFacts
<1>3. End(ss) \in Nat /\ End(ss) >= 1 /\ Len(b) \in Nat /\ Len(hist) \in Nat
  BY <1>1, <1>2 DEF End
<1>4. ASSUME NEW i \in 1 .. Len(ss), NEW j \in 1 .. Len(ss[i].recs)
      PROVE  ss[i].first + j - 1 <= End(ss) - 1 /\ InPlace(ss[i].recs[j], ss[i].first + j - 1)
  <2>1. InPlace(ss[i].recs[j], ss[i].first + j - 1)
    BY DEF Log
  <2>2. /\ ss[i].first \in Nat /\ Len(ss[i].recs) \in Nat /\ Len(ss) \in Nat
        /\ i < Len(ss) => ss[i].first + Len(ss[i].recs) <= ss[Len(ss)].first
    BY <1>1, <1>2, ChainFacts
  <2>3. CASE i < Len(ss)
    BY <1>2, <2>1, <2>2, <2>3, SMTT(30) DEF End
  <2>4. CASE i = Len(ss)
    BY <1>2, <2>1, <2>2, <2>4 DEF End
  <2> QED BY <2>2, <2>3, <2>4
<1>5. End(ss) - 1 \in 0 .. Len(hist) /\ End(ss) - 1 < End(ss)
  BY <1>1, <1>3
<1> QED BY <1>1, <1>4, <1>5 DEF Image

\* The elements of a concatenation.
LEMMA ConcatFacts ==
  ASSUME NEW S, NEW s \in Seq(S), NEW t \in Seq(S)
  PROVE  /\ s \o t \in Seq(S) /\ Len(s \o t) = Len(s) + Len(t)
         /\ \A j \in 1 .. Len(s) : (s \o t)[j] = s[j]
         /\ \A j \in 1 .. Len(t) : (s \o t)[Len(s) + j] = t[j]
<1>1. s \o t \in Seq(S) /\ Len(s \o t) = Len(s) + Len(t)
  OBVIOUS
<1>2. \A j \in 1 .. Len(s) : (s \o t)[j] = s[j]
  OBVIOUS
<1>3. \A j \in 1 .. Len(t) : (s \o t)[Len(s) + j] = t[j]
  OBVIOUS
<1> QED BY <1>1, <1>2, <1>3

\* What a power cut makes of a segment.
LEMMA CutFacts ==
  ASSUME NEW g \in Segment, NEW h \in Cuts(g), g.stable <= Len(g.recs)
  PROVE  /\ h \in Segment /\ h.first = g.first
         /\ \E m \in g.stable .. Len(g.recs) :
               /\ \A j \in 1 .. m : h.recs[j] = g.recs[j]
               /\ \/ Len(h.recs) = m
                  \/ Len(h.recs) = m + 1 /\ h.recs[m + 1].lsn = -1
<1>1. /\ g.first \in Nat /\ g.recs \in Seq(Rec) /\ g.stable \in Nat /\ Len(g.recs) \in Nat
      /\ DOMAIN g = {"first", "recs", "stable"}
  BY DEF Segment
<1>2. PICK n \in g.stable .. Len(g.recs), torn \in {<<>>, <<TornRecord>>} :
         h = Cut(g, n, torn) /\ (torn = <<TornRecord>> => n <= Len(g.recs) - 1)
  <2>1. CASE \E n \in g.stable .. Len(g.recs) : h = Cut(g, n, <<>>)
    BY <2>1
  <2>2. CASE \E n \in g.stable .. Len(g.recs) - 1 : h = Cut(g, n, <<TornRecord>>)
    BY <1>1, <2>2
  <2> QED BY <2>1, <2>2, Zenon DEF Cuts
<1>3. h.first = g.first /\ h.recs = SubSeq(g.recs, 1, n) \o torn /\ h.stable = n + Len(torn)
  BY <1>2 DEF Cut
<1>4. TornRecord \in Rec /\ TornRecord.lsn = -1
  <2>1. <<>> \in [{} -> Value]
    OBVIOUS
  <2>2. <<>> \in Delta
    BY <2>1, Zenon DEF Delta
  <2> QED BY <2>2 DEF TornRecord, Rec
<1>5. /\ n \in Nat /\ n <= Len(g.recs) /\ torn \in Seq(Rec) /\ Len(torn) \in 0 .. 1
      /\ Len(torn) = 1 => torn[1] = TornRecord
  <2>1. n \in Nat /\ n <= Len(g.recs)
    BY <1>1
  <2>2. CASE torn = <<>>
    BY <2>1, <2>2
  <2>3. CASE torn = <<TornRecord>>
    BY <1>1, <1>2, <1>4, <2>1, <2>3
  <2> QED BY <1>2, <2>2, <2>3, Zenon
<1> DEFINE kept == SubSeq(g.recs, 1, n)
<1>6. kept \in Seq(Rec) /\ Len(kept) = n /\ \A j \in 1 .. n : kept[j] = g.recs[j]
  BY <1>1, <1>5
<1>7. h.recs = kept \o torn
  BY <1>3
<1> HIDE DEF kept
<1>8. /\ h.recs \in Seq(Rec) /\ Len(h.recs) = n + Len(torn)
      /\ \A j \in 1 .. n : h.recs[j] = kept[j]
      /\ Len(torn) = 1 => h.recs[n + 1] = torn[1]
  <2>1. /\ kept \o torn \in Seq(Rec) /\ Len(kept \o torn) = Len(kept) + Len(torn)
        /\ \A j \in 1 .. Len(kept) : (kept \o torn)[j] = kept[j]
        /\ \A j \in 1 .. Len(torn) : (kept \o torn)[Len(kept) + j] = torn[j]
    BY <1>5, <1>6, ConcatFacts, SMTT(60)
  <2>2. Len(torn) = 1 => 1 \in 1 .. Len(torn)
    BY <1>5
  <2> QED BY <1>6, <1>7, <2>1, <2>2, Zenon
<1>9. h \in Segment
  BY <1>1, <1>2, <1>3, <1>5, <1>8 DEF Segment, Cut
<1>10. \A j \in 1 .. n : h.recs[j] = g.recs[j]
  BY <1>6, <1>8
<1>11. Len(h.recs) = n \/ (Len(h.recs) = n + 1 /\ h.recs[n + 1].lsn = -1)
  <2>1. CASE Len(torn) = 0
    BY <1>5, <1>8, <2>1
  <2>2. CASE Len(torn) = 1
    <3>1. h.recs[n + 1] = TornRecord
      BY <1>5, <1>8, <2>2, Zenon
    <3> QED BY <1>4, <1>8, <2>2, <3>1
  <2> QED BY <1>5, <2>1, <2>2
<1> QED BY <1>2, <1>3, <1>9, <1>10, <1>11, Zenon

\* What a power cut makes of the log is an image that holds all that was on
\* stable storage.
LEMMA PowerCutIsImage ==
  ASSUME NEW b, Log(segs, b), NEW img \in PowerCutImages
  PROVE  img[1].first = segs[1].first /\ \E n \in Nat : n >= StableEnd(segs) - 1 /\ Image(img, n)
<1> DEFINE L == Len(segs)
<1>1. /\ Chained(segs) /\ hist \in Seq(Delta) /\ b \in Seq(Rec)
      /\ End(segs) + Len(b) = Len(hist) + 1
      /\ \A i \in 1 .. L :
            /\ segs[i].stable <= Len(segs[i].recs)
            /\ i < L => segs[i].stable = Len(segs[i].recs)
            /\ \A j \in 1 .. Len(segs[i].recs) : InPlace(segs[i].recs[j], segs[i].first + j - 1)
  BY DEF Log
<1>2. /\ L \in Nat /\ L >= 1
      /\ \A i \in 1 .. L :
            /\ segs[i] \in Segment
            /\ segs[i].first \in Nat /\ segs[i].first >= 1 /\ segs[i].stable \in Nat
            /\ segs[i].recs \in Seq(Rec) /\ Len(segs[i].recs) \in Nat
      /\ \A i, j \in 1 .. L : i < j => segs[i].first + Len(segs[i].recs) <= segs[j].first
  BY <1>1, ChainFacts
<1>3. /\ DOMAIN img = 1 .. L /\ img = [i \in 1 .. L |-> img[i]]
      /\ \A i \in 1 .. L :
            IF segs[i].stable < Len(segs[i].recs) THEN img[i] \in Cuts(segs[i]) ELSE img[i] = segs[i]
  <2> DEFINE open == {i \in 1 .. L : segs[i].stable < Len(segs[i].recs)}
             cuts == {c \in [open -> UNION {Cuts(segs[i]) : i \in open}] :
                         \A i \in open : c[i] \in Cuts(segs[i])}
  <2>1. PICK c \in cuts : img = [i \in 1 .. L |-> IF i \in open THEN c[i] ELSE segs[i]]
    BY Zenon DEF PowerCutImages
  <2> QED BY <2>1, Zenon
<1>4. \A i \in 1 .. L :
         /\ img[i] \in Segment /\ img[i].first = segs[i].first
         /\ i < L => img[i].recs = segs[i].recs
  <2>1. ASSUME NEW i \in 1 .. L
        PROVE  /\ img[i] \in Segment /\ img[i].first = segs[i].first
               /\ i < L => img[i].recs = segs[i].recs
    <3>1. CASE segs[i].stable < Len(segs[i].recs)
      <4>1. img[i] \in Cuts(segs[i]) /\ ~(i < L)
        BY <1>1, <1>2, <1>3, <3>1
      <4>2. img[i] \in Segment /\ img[i].first = segs[i].first
        BY <1>1, <1>2, <4>1, CutFacts
      <4> QED BY <4>1, <4>2
    <3>2. CASE ~(segs[i].stable < Len(segs[i].recs))
      BY <1>2, <1>3, <3>2
    <3> QED BY <3>1, <3>2
  <2> QED BY <2>1
<1>5. img \in Seq(Segment) /\ Len(img) = L
  <2>1. img \in [1 .. L -> Segment]
    BY <1>3, <1>4, Zenon
  <2> HIDE DEF L
  <2>2. img \in Seq(Segment)
    BY <1>2, <2>1
  <2> QED BY <1>2, <2>1, <2>2
<1>6. L \in 1 .. L /\ 1 \in 1 .. L
  BY <1>2
<1>7. PICK m \in segs[L].stable .. Len(segs[L].recs) :
         /\ \A j \in 1 .. m : img[L].recs[j] = segs[L].recs[j]
         /\ \/ Len(img[L].recs) = m
            \/ Len(img[L].recs) = m + 1 /\ img[L].recs[m + 1].lsn = -1
  <2>1. CASE segs[L].stable < Len(segs[L].recs)
    <3>1. img[L] \in Cuts(segs[L]) /\ segs[L] \in Segment /\ segs[L].stable <= Len(segs[L].recs)
      BY <1>1, <1>2, <1>3, <1>6, <2>1
    <3> QED BY <3>1, CutFacts, Zenon
  <2>2. CASE ~(segs[L].stable < Len(segs[L].recs))
    <3>1. img[L] = segs[L]
      BY <1>3, <1>6, <2>2, Zenon
    <3>2. /\ segs[L].stable <= Len(segs[L].recs) /\ segs[L].stable \in Nat
          /\ Len(segs[L].recs) \in Nat
      BY <1>1, <1>2, <1>6, Zenon
    <3>3. Len(segs[L].recs) \in segs[L].stable .. Len(segs[L].recs)
      BY <3>2
    <3> QED BY <3>1, <3>3
  <2> QED BY <2>1, <2>2
<1> DEFINE f == segs[L].first
           size == Len(segs[L].recs)
           left == Len(img[L].recs)
           n == f + m - 1
<1>8. /\ m \in Nat /\ m <= size /\ m >= segs[L].stable /\ f \in Nat /\ f >= 1 /\ size \in Nat
      /\ left \in Nat /\ m <= left /\ left <= m + 1 /\ segs[L].stable \in Nat
  <2>1. img[L].recs \in Seq(Rec)
    BY <1>4, <1>6 DEF Segment
  <2>2. left \in Nat /\ f \in Nat /\ f >= 1 /\ size \in Nat /\ segs[L].stable \in Nat
    BY <1>2, <1>6, <2>1
  <2> QED BY <1>7, <2>2
<1>9. n >= StableEnd(segs) - 1 /\ StableEnd(segs) = f + segs[L].stable
  BY <1>8, SMTT(60) DEF StableEnd
<1>10. n \in Nat /\ n <= Len(hist) /\ Len(hist) \in Nat
  <2>1. f + size + Len(b) = Len(hist) + 1 /\ Len(b) \in Nat /\ Len(hist) \in Nat
    BY <1>1 DEF End
  <2> HIDE DEF f, size
  <2> QED BY <1>8, <2>1
<1>11. n < End(img) /\ End(img) = f + left
  <2>1. End(img) = f + left
    BY <1>4, <1>5, <1>6 DEF End
  <2> HIDE DEF f, left
  <2> QED BY <1>8, <2>1
<1>12. ASSUME NEW i \in 1 .. L, NEW j \in 1 .. Len(img[i].recs)
       PROVE  IF img[i].first + j - 1 <= n
              THEN InPlace(img[i].recs[j], img[i].first + j - 1)
              ELSE i = Len(img) /\ j = Len(img[i].recs) /\ img[i].recs[j].lsn = -1
  <2>1. CASE i < L
    <3>1. /\ img[i].recs = segs[i].recs /\ img[i].first = segs[i].first
          /\ segs[i].first + Len(segs[i].recs) <= segs[L].first
      BY <1>2, <1>4, <1>6, <2>1
    <3>2. InPlace(img[i].recs[j], img[i].first + j - 1)
      BY <1>1, <3>1
    <3>3. segs[i].first \in Nat /\ Len(segs[i].recs) \in Nat /\ segs[L].first \in Nat
      BY <1>2, <1>6
    <3>4. img[i].first + j - 1 <= n
      <4>1. \A x, y \in Nat : x + y <= f => \A z \in 1 .. y : x + z - 1 <= f + m - 1
        <5> HIDE DEF f
        <5> QED BY <1>8
      <4> QED BY <3>1, <3>3, <4>1
    <3> QED BY <3>2, <3>4
  <2>2. CASE i = L
    <3>1. img[i].first = segs[L].first /\ segs[L].first \in Nat
      BY <1>2, <1>4, <1>6, <2>2
    <3>2. CASE j <= m
      <4>1. InPlace(img[i].recs[j], img[i].first + j - 1)
        <5>1. j \in 1 .. m /\ j \in 1 .. size
          <6> HIDE DEF size
          <6> QED BY <1>8, <3>2
        <5>2. img[L].recs[j] = segs[L].recs[j]
          BY <1>7, <5>1
        <5> QED BY <1>1, <1>6, <2>2, <3>1, <5>1, <5>2
      <4> QED BY <1>8, <2>2, <3>1, <3>2, <4>1
    <3>3. CASE ~(j <= m)
      <4>1. j \in 1 .. left
        BY <2>2
      <4>2. j = m + 1 /\ left = m + 1
        <5> HIDE DEF left
        <5> QED BY <1>8, <3>3, <4>1
      <4>3. img[L].recs[m + 1].lsn = -1
        BY <1>7, <1>8, <4>2
      <4>4. ~(f + (m + 1) - 1 <= n)
        <5> HIDE DEF f
        <5> QED BY <1>8
      <4> QED BY <1>5, <2>2, <3>1, <4>2, <4>3, <4>4
    <3> QED BY <3>2, <3>3
  <2> QED BY <1>2, <2>1, <2>2
<1>13. Chained(img)
  <2>1. \A i \in 1 .. L : img[i].first >= 1
    BY <1>2, <1>4
  <2>2. \A i \in 1 .. L - 1 :
           Len(img[i].recs) >= 1 /\ img[i + 1].first = img[i].first + Len(img[i].recs)
    <3>1. \A i \in 1 .. L - 1 : i \in 1 .. L /\ i + 1 \in 1 .. L /\ i < L
      BY <1>2
    <3>2. \A i \in 1 .. L - 1 :
             Len(segs[i].recs) >= 1 /\ segs[i + 1].first = segs[i].first + Len(segs[i].recs)
      BY <1>1 DEF Chained
    <3> QED BY <1>4, <3>1, <3>2, Zenon
  <2>3. \A i, j \in 1 .. L : i < j => img[i].first + Len(img[i].recs) <= img[j].first
    BY <1>2, <1>4, SMTT(60)
  <2>4. ASSUME NEW l \in img[1].first .. End(img) - 1
        PROVE  \E i \in 1 .. L : l \in img[i].first .. img[i].first + Len(img[i].recs) - 1
    <3>1. segs[1].first \in Nat /\ img[1].first = segs[1].first
      BY <1>2, <1>4, <1>6
    <3>2. l \in Int /\ l >= segs[1].first /\ l <= f + left - 1
      <4> HIDE DEF f, left
      <4> QED BY <1>8, <1>11, <2>4, <3>1
    <3>3. CASE l >= f
      <4>1. l \in f .. f + left - 1
        <5> HIDE DEF f, left
        <5> QED BY <1>8, <3>2, <3>3
      <4>2. img[L].first = f
        BY <1>4, <1>6
      <4> QED BY <1>6, <4>1, <4>2
    <3>4. CASE ~(l >= f)
      <4>1. l \in segs[1].first .. f + size - 1
        <5> HIDE DEF f, size
        <5> QED BY <1>8, <3>1, <3>2, <3>4
      <4>2. PICK i \in 1 .. L : l \in segs[i].first .. segs[i].first + Len(segs[i].recs) - 1
        <5>1. End(segs) = f + size
          BY DEF End
        <5>2. l \in segs[1].first .. End(segs) - 1
          <6> HIDE DEF f, size
          <6> QED BY <1>8, <3>1, <4>1, <5>1
        <5>3. \A x \in segs[1].first .. End(segs) - 1 :
                 \E i \in 1 .. L : x \in segs[i].first .. segs[i].first + Len(segs[i].recs) - 1
          BY <1>1, Zenon DEF Chained
        <5> QED BY <5>2, <5>3, Zenon
      <4>3. l >= segs[i].first
        BY <1>2, <4>2
      <4>4. i < L
        BY <1>2, <3>4, <4>3, SMTT(60)
      <4> QED BY <1>4, <4>2, <4>4, Zenon
    <3> QED BY <3>3, <3>4
  <2> QED BY <1>2, <1>5, <2>1, <2>2, <2>3, <2>4 DEF Chained
<1>14. Image(img, n)
  BY <1>1, <1>5, <1>8, <1>10, <1>11, <1>12, <1>13 DEF Image
<1>15. img[1].first = segs[1].first
  BY <1>4, <1>6
<1> QED BY <1>8, <1>9, <1>14, <1>15

-----------------------------------------------------------------------------
(* The log operations keep the log a log. *)

\* A segment with one field replaced.
LEMMA SegmentExcept ==
  ASSUME NEW g \in Segment, NEW r
  PROVE  /\ [g EXCEPT !.recs = r] = [first |-> g.first, recs |-> r, stable |-> g.stable]
         /\ [g EXCEPT !.stable = r] = [first |-> g.first, recs |-> g.recs, stable |-> r]
<1> DEFINE a == g.first
           b == g.recs
           c == g.stable
           t == [first |-> a, recs |-> b, stable |-> c]
<1>1. g = t
  BY DEF Segment
<1>2. /\ [t EXCEPT !.recs = r] = [first |-> a, recs |-> r, stable |-> c]
      /\ [t EXCEPT !.stable = r] = [first |-> a, recs |-> b, stable |-> r]
  <2> HIDE DEF a, b, c
  <2> QED OBVIOUS
<1> HIDE DEF t
<1>3. /\ [g EXCEPT !.recs = r] = [t EXCEPT !.recs = r]
      /\ [g EXCEPT !.stable = r] = [t EXCEPT !.stable = r]
  BY <1>1, Zenon
<1> QED BY <1>2, <1>3, Zenon

\* What drainLocked's write does to the files.
LEMMA DrainedFacts ==
  ASSUME NEW ss, Chained(ss), buf \in Seq(Rec)
  PROVE  LET dd == Drained(ss)
             n == Len(ss)
         IN /\ dd \in Seq(Segment) /\ Len(dd) = n
            /\ \A i \in 1 .. n : i # n => dd[i] = ss[i]
            /\ dd[n].first = ss[n].first /\ dd[n].stable = ss[n].stable
            /\ dd[n].recs = ss[n].recs \o buf
<1> DEFINE n == Len(ss)
           g == [ss[n] EXCEPT !.recs = @ \o buf]
<1>1. /\ ss \in Seq(Segment) /\ n \in Nat /\ n \in 1 .. n /\ DOMAIN ss = 1 .. n /\ ss[n] \in Segment
      /\ ss[n].recs \in Seq(Rec) /\ ss[n].first \in Nat /\ ss[n].stable \in Nat
  BY ChainFacts
<1>2. Drained(ss) = [ss EXCEPT ![n] = g]
  BY Zenon DEF Drained
<1>3. g = [first |-> ss[n].first, recs |-> ss[n].recs \o buf, stable |-> ss[n].stable]
  BY <1>1, SegmentExcept, Zenon
<1> HIDE DEF g
<1>4. ss[n].recs \o buf \in Seq(Rec)
  BY <1>1
<1>5. g \in Segment
  BY <1>1, <1>3, <1>4 DEF Segment
<1>6. [ss EXCEPT ![n] = g] \in Seq(Segment) /\ Len([ss EXCEPT ![n] = g]) = n
  BY <1>1, <1>5
<1>7. /\ \A i \in 1 .. n : i # n => [ss EXCEPT ![n] = g][i] = ss[i]
      /\ [ss EXCEPT ![n] = g][n] = g
  BY <1>1, Zenon
<1> QED BY <1>2, <1>3, <1>6, <1>7

\* What an fsync does.
LEMMA SyncedFacts ==
  ASSUME NEW ss, Chained(ss)
  PROVE  LET dd == Synced(ss)
             n == Len(ss)
         IN /\ dd \in Seq(Segment) /\ Len(dd) = n
            /\ \A i \in 1 .. n : i # n => dd[i] = ss[i]
            /\ dd[n].first = ss[n].first /\ dd[n].stable = Len(ss[n].recs)
            /\ dd[n].recs = ss[n].recs
<1> DEFINE n == Len(ss)
           g == [ss[n] EXCEPT !.stable = Len(ss[n].recs)]
<1>1. /\ ss \in Seq(Segment) /\ n \in Nat /\ n \in 1 .. n /\ DOMAIN ss = 1 .. n /\ ss[n] \in Segment
      /\ ss[n].recs \in Seq(Rec) /\ ss[n].first \in Nat /\ Len(ss[n].recs) \in Nat
  BY ChainFacts
<1>2. Synced(ss) = [ss EXCEPT ![n] = g]
  BY Zenon DEF Synced
<1>3. g = [first |-> ss[n].first, recs |-> ss[n].recs, stable |-> Len(ss[n].recs)]
  BY <1>1, SegmentExcept, Zenon
<1> HIDE DEF g
<1>5. g \in Segment
  BY <1>1, <1>3 DEF Segment
<1>6. [ss EXCEPT ![n] = g] \in Seq(Segment) /\ Len([ss EXCEPT ![n] = g]) = n
  BY <1>1, <1>5
<1>7. /\ \A i \in 1 .. n : i # n => [ss EXCEPT ![n] = g][i] = ss[i]
      /\ [ss EXCEPT ![n] = g][n] = g
  BY <1>1, Zenon
<1> QED BY <1>2, <1>3, <1>6, <1>7

\* Rewriting the last segment so that it keeps its first LSN and loses no
\* record keeps the chain.
LEMMA ChainedStays ==
  ASSUME NEW ss, Chained(ss), NEW dd \in Seq(Segment), Len(dd) = Len(ss),
         \A i \in 1 .. Len(ss) : i # Len(ss) => dd[i] = ss[i],
         dd[Len(ss)].first = ss[Len(ss)].first
  PROVE  Chained(dd) /\ End(dd) = ss[Len(ss)].first + Len(dd[Len(ss)].recs)
<1> DEFINE n == Len(ss)
           f == ss[n].first
           size == Len(dd[n].recs)
<1>1. /\ n \in Nat /\ n >= 1 /\ n \in 1 .. n /\ 1 \in 1 .. n
      /\ \A i \in 1 .. n : ss[i].first \in Nat /\ ss[i].first >= 1 /\ Len(ss[i].recs) \in Nat
      /\ \A i \in 1 .. n - 1 : ss[i + 1].first = ss[i].first + Len(ss[i].recs)
      /\ \A i, j \in 1 .. n : i < j => ss[i].first + Len(ss[i].recs) <= ss[j].first
  BY ChainFacts, Zenon
<1>2. \A i \in 1 .. n - 1 : Len(ss[i].recs) >= 1
  BY DEF Chained
<1>3. \A i \in 1 .. n : dd[i].first = ss[i].first /\ (i < n => dd[i] = ss[i])
  BY <1>1
<1>4. f \in Nat /\ f >= 1 /\ size \in Nat
  <2>1. dd[n] \in Segment
    BY <1>1
  <2>2. dd[n].recs \in Seq(Rec)
    BY <2>1 DEF Segment
  <2> QED BY <1>1, <2>2
<1>5. End(dd) = f + size
  BY <1>3, <1>1 DEF End
<1>6. \A i \in 1 .. n - 1 :
         Len(dd[i].recs) >= 1 /\ dd[i + 1].first = dd[i].first + Len(dd[i].recs)
  <2>1. \A i \in 1 .. n - 1 : i \in 1 .. n /\ i + 1 \in 1 .. n /\ i < n
    BY <1>1
  <2> QED BY <1>1, <1>2, <1>3, <2>1, Zenon
<1>7. \A i, j \in 1 .. n : i < j => dd[i].first + Len(dd[i].recs) <= dd[j].first
  <2>1. \A i, j \in 1 .. n : i < j => i < n
    BY <1>1
  <2> QED BY <1>1, <1>3, <2>1, Zenon
<1>8. ASSUME NEW l \in dd[1].first .. End(dd) - 1
      PROVE  \E i \in 1 .. n : l \in dd[i].first .. dd[i].first + Len(dd[i].recs) - 1
  <2>1. dd[1].first = ss[1].first /\ ss[1].first \in Nat /\ dd[n].first = f
    BY <1>1, <1>3
  <2>2. l \in Int /\ l >= ss[1].first /\ l <= f + size - 1
    <3> HIDE DEF f, size
    <3> QED BY <1>4, <1>5, <1>8, <2>1
  <2>3. CASE l >= f
    <3>1. l \in f .. f + size - 1
      <4> HIDE DEF f, size
      <4> QED BY <1>4, <2>2, <2>3
    <3> QED BY <1>1, <2>1, <3>1
  <2>4. CASE ~(l >= f)
    <3> DEFINE old == Len(ss[n].recs)
    <3>1. old \in Nat /\ End(ss) = f + old
      BY <1>1 DEF End
    <3>2. l \in ss[1].first .. End(ss) - 1
      <4> HIDE DEF f, old
      <4> QED BY <1>4, <2>1, <2>2, <2>4, <3>1
    <3>3. PICK i \in 1 .. n : l \in ss[i].first .. ss[i].first + Len(ss[i].recs) - 1
      BY <3>2, Zenon DEF Chained
    <3>4. l >= ss[i].first
      BY <1>1, <3>3
    <3>5. i < n
      BY <1>1, <2>4, <3>4
    <3>6. dd[i] = ss[i]
      BY <1>3, <3>5
    <3> QED BY <3>3, <3>6
  <2> QED BY <2>3, <2>4
<1>9. \A i \in 1 .. n : dd[i].first >= 1
  BY <1>1, <1>3, Zenon
<1>10. Chained(dd)
  BY <1>1, <1>6, <1>7, <1>8, <1>9 DEF Chained
<1> QED BY <1>5, <1>10

\* Writing the buffer out.
LEMMA DrainedIsLog ==
  ASSUME Log(segs, buf)
  PROVE  /\ Log(Drained(segs), <<>>)
         /\ End(Drained(segs)) = nextLSN /\ StableEnd(Drained(segs)) = StableEnd(segs)
         /\ Drained(segs)[1].first = segs[1].first
         /\ Len(Drained(segs)[Len(Drained(segs))].recs) >= Len(buf)
<1> DEFINE dd == Drained(segs)
           n == Len(segs)
           f == segs[n].first
           size == Len(segs[n].recs)
           more == Len(buf)
<1>1. /\ Chained(segs) /\ buf \in Seq(Rec)
      /\ hist \in Seq(Delta) /\ nextLSN = Len(hist) + 1
      /\ \A i \in 1 .. n :
            /\ segs[i].stable <= Len(segs[i].recs)
            /\ i < n => segs[i].stable = Len(segs[i].recs)
            /\ \A j \in 1 .. Len(segs[i].recs) : InPlace(segs[i].recs[j], segs[i].first + j - 1)
      /\ \A j \in 1 .. Len(buf) : InPlace(buf[j], End(segs) + j - 1)
      /\ End(segs) + Len(buf) = nextLSN
  BY Zenon DEF Log
<1>2. /\ n \in Nat /\ n >= 1 /\ n \in 1 .. n /\ 1 \in 1 .. n
      /\ segs[n].recs \in Seq(Rec) /\ f \in Nat /\ size \in Nat /\ segs[n].stable \in Nat
  BY <1>1, ChainFacts
<1>3. more \in Nat /\ End(segs) = f + size
  BY <1>1 DEF End
<1>4. /\ dd \in Seq(Segment) /\ Len(dd) = n
      /\ \A i \in 1 .. n : i # n => dd[i] = segs[i]
      /\ dd[n].first = f /\ dd[n].stable = segs[n].stable
      /\ dd[n].recs = segs[n].recs \o buf
  BY <1>1, DrainedFacts, Zenon
<1>5. /\ Len(dd[n].recs) = size + more
      /\ \A j \in 1 .. size : dd[n].recs[j] = segs[n].recs[j]
      /\ \A j \in 1 .. more : dd[n].recs[size + j] = buf[j]
  BY <1>1, <1>2, <1>4, ConcatFacts, SMTT(60)
<1> HIDE DEF dd
<1>6. Chained(dd) /\ End(dd) = f + (size + more)
  BY <1>1, <1>4, <1>5, ChainedStays, Zenon
<1>7. End(dd) = nextLSN /\ StableEnd(dd) = StableEnd(segs)
  <2>1. f + size + more = nextLSN
    BY <1>1, <1>3, Zenon
  <2>2. StableEnd(dd) = StableEnd(segs)
    BY <1>4, Zenon DEF StableEnd
  <2> HIDE DEF f, size, more
  <2> QED BY <1>2, <1>3, <1>6, <2>1, <2>2
<1>8. ASSUME NEW i \in 1 .. n
      PROVE  /\ dd[i].stable <= Len(dd[i].recs)
             /\ i < n => dd[i].stable = Len(dd[i].recs)
             /\ \A j \in 1 .. Len(dd[i].recs) : InPlace(dd[i].recs[j], dd[i].first + j - 1)
  <2>1. CASE i # n
    BY <1>1, <1>4, <2>1, Zenon
  <2>2. CASE i = n
    <3>1. segs[n].stable <= size
      BY <1>1, <1>2
    <3>2. dd[n].stable <= Len(dd[n].recs)
      <4> HIDE DEF size, more
      <4> QED BY <1>2, <1>3, <1>4, <1>5, <3>1
    <3>3. ASSUME NEW j \in 1 .. Len(dd[n].recs)
          PROVE  InPlace(dd[n].recs[j], f + j - 1)
      <4>1. j \in 1 .. size + more
        BY <1>5
      <4>2. CASE j <= size
        <5>1. j \in 1 .. size
          BY <1>2, <4>2
        <5> QED BY <1>1, <1>2, <1>5, <5>1, Zenon
      <4>3. CASE ~(j <= size)
        <5> DEFINE d == j - size
        <5>1. d \in 1 .. more /\ j = size + d /\ f + size + d - 1 = f + j - 1
          <6> HIDE DEF f, size, more
          <6> QED BY <1>2, <1>3, <4>1, <4>3
        <5> HIDE DEF d
        <5>2. dd[n].recs[j] = buf[d] /\ InPlace(buf[d], End(segs) + d - 1)
          BY <1>1, <1>5, <5>1, Zenon
        <5> QED BY <1>3, <5>1, <5>2, Zenon
      <4> QED BY <4>2, <4>3
    <3>4. ~(i < n)
      BY <1>2, <2>2
    <3> QED BY <1>4, <2>2, <3>2, <3>3, <3>4, Zenon
  <2> QED BY <2>1, <2>2
<1>9. Log(dd, <<>>)
  <2>1. <<>> \in Seq(Rec) /\ Len(<<>>) = 0 /\ nextLSN \in Nat
    BY <1>1
  <2>2. End(dd) + Len(<<>>) = nextLSN /\ \A j \in 1 .. Len(<<>>) : FALSE
    BY <1>7, <2>1
  <2> QED BY <1>1, <1>4, <1>6, <1>8, <2>1, <2>2, Zenon DEF Log
<1>10. dd[1].first = segs[1].first
  BY <1>2, <1>4, SMTT(60)
<1>11. Len(dd[Len(dd)].recs) >= more
  <2> HIDE DEF size, more
  <2> QED BY <1>2, <1>3, <1>4, <1>5
<1> QED BY <1>7, <1>9, <1>10, <1>11, Zenon DEF dd

\* An fsync.
LEMMA SyncedIsLog ==
  ASSUME NEW ss, NEW b, Log(ss, b)
  PROVE  /\ Log(Synced(ss), b) /\ Synced(ss)[1].first = ss[1].first
         /\ End(Synced(ss)) = End(ss) /\ StableEnd(Synced(ss)) = End(ss)
         /\ Len(Synced(ss)) = Len(ss)
         /\ LET g == Synced(ss)[Len(ss)]
            IN g.recs = ss[Len(ss)].recs /\ g.stable = Len(g.recs)
<1> DEFINE dd == Synced(ss)
           n == Len(ss)
<1>1. /\ Chained(ss) /\ b \in Seq(Rec)
      /\ hist \in Seq(Delta) /\ nextLSN = Len(hist) + 1
      /\ \A i \in 1 .. n :
            /\ ss[i].stable <= Len(ss[i].recs)
            /\ i < n => ss[i].stable = Len(ss[i].recs)
            /\ \A j \in 1 .. Len(ss[i].recs) : InPlace(ss[i].recs[j], ss[i].first + j - 1)
      /\ \A j \in 1 .. Len(b) : InPlace(b[j], End(ss) + j - 1)
      /\ End(ss) + Len(b) = nextLSN
  BY Zenon DEF Log
<1>2. n \in 1 .. n /\ 1 \in 1 .. n /\ Len(ss[n].recs) \in Nat
  BY <1>1, ChainFacts, Zenon
<1>3. /\ dd \in Seq(Segment) /\ Len(dd) = n
      /\ \A i \in 1 .. n : i # n => dd[i] = ss[i]
      /\ dd[n].first = ss[n].first /\ dd[n].stable = Len(ss[n].recs)
      /\ dd[n].recs = ss[n].recs
  BY <1>1, SyncedFacts, Zenon
<1> HIDE DEF dd
<1>4. Chained(dd) /\ End(dd) = End(ss)
  BY <1>1, <1>3, ChainedStays, Zenon DEF End
<1>5. StableEnd(dd) = End(ss)
  BY <1>3, Zenon DEF StableEnd, End
<1>6. Len(ss[n].recs) <= Len(ss[n].recs)
  BY <1>2
<1>7. \A i \in 1 .. n : dd[i].first = ss[i].first /\ dd[i].recs = ss[i].recs
  BY <1>3, Zenon
<1>8. \A i \in 1 .. n :
         /\ dd[i].stable <= Len(dd[i].recs)
         /\ i < n => dd[i].stable = Len(dd[i].recs)
  BY <1>1, <1>3, <1>6, Zenon
<1>9. Log(dd, b)
  BY <1>1, <1>3, <1>4, <1>7, <1>8, Zenon DEF Log
<1>10. dd[1].first = ss[1].first
  BY <1>2, <1>7, Zenon
<1> QED BY <1>3, <1>4, <1>5, <1>9, <1>10, Zenon DEF dd

\* A rotation: a new segment after one that is sealed.
LEMMA RotatedIsLog ==
  ASSUME NEW ss, Log(ss, <<>>), Len(ss[Len(ss)].recs) >= 1,
         ss[Len(ss)].stable = Len(ss[Len(ss)].recs)
  PROVE  LET tt == Append(ss, NewSegment(nextLSN))
         IN Log(tt, <<>>) /\ tt[1].first = ss[1].first
            /\ End(tt) = nextLSN /\ StableEnd(tt) = nextLSN
<1> DEFINE n == Len(ss)
           g == NewSegment(nextLSN)
           tt == Append(ss, g)
<1>1. /\ Chained(ss) /\ hist \in Seq(Delta) /\ nextLSN = Len(hist) + 1
      /\ \A i \in 1 .. n :
            /\ ss[i].stable <= Len(ss[i].recs)
            /\ i < n => ss[i].stable = Len(ss[i].recs)
            /\ \A j \in 1 .. Len(ss[i].recs) : InPlace(ss[i].recs[j], ss[i].first + j - 1)
      /\ End(ss) + Len(<<>>) = nextLSN
  BY Zenon DEF Log
<1>2. /\ ss \in Seq(Segment) /\ n \in Nat /\ n \in 1 .. n /\ 1 \in 1 .. n
      /\ \A i \in 1 .. n : ss[i].first \in Nat /\ ss[i].first >= 1 /\ Len(ss[i].recs) \in Nat
      /\ \A i \in 1 .. n - 1 : ss[i + 1].first = ss[i].first + Len(ss[i].recs)
      /\ \A i, j \in 1 .. n : i < j => ss[i].first + Len(ss[i].recs) <= ss[j].first
  BY <1>1, ChainFacts, Zenon
<1>3. nextLSN \in Nat /\ nextLSN >= 1 /\ ss[n].first + Len(ss[n].recs) = nextLSN
  <2>1. nextLSN \in Nat /\ nextLSN >= 1
    BY <1>1
  <2>2. ss[n].first \in Nat /\ Len(ss[n].recs) \in Nat
    BY <1>2
  <2> QED BY <1>1, <2>1, <2>2 DEF End
<1>4. /\ g.first = nextLSN /\ g.recs = <<>> /\ g.stable = 0 /\ Len(g.recs) = 0 /\ g \in Segment
  BY <1>3 DEF NewSegment, Segment
<1> HIDE DEF g
<1>5. /\ tt \in Seq(Segment) /\ Len(tt) = n + 1 /\ tt[n + 1] = g
      /\ \A i \in 1 .. n : tt[i] = ss[i]
  BY <1>2, <1>4
<1> HIDE DEF tt
<1>6. \A i \in 1 .. n + 1 : i \in 1 .. n \/ i = n + 1
  BY <1>2
<1>7. End(tt) = nextLSN /\ StableEnd(tt) = nextLSN
  BY <1>3, <1>4, <1>5 DEF End, StableEnd
<1>8. \A i \in 1 .. n + 1 : tt[i].first >= 1
  BY <1>2, <1>3, <1>4, <1>5, <1>6
<1>9. \A i \in 1 .. n : Len(tt[i].recs) >= 1 /\ tt[i + 1].first = tt[i].first + Len(tt[i].recs)
  <2>1. ASSUME NEW i \in 1 .. n
        PROVE  Len(tt[i].recs) >= 1 /\ tt[i + 1].first = tt[i].first + Len(tt[i].recs)
    <3>1. CASE i = n
      <4>1. tt[i] = ss[n] /\ tt[i + 1].first = nextLSN
        BY <1>2, <1>4, <1>5, <3>1, Zenon
      <4> QED BY <1>3, <4>1, Zenon
    <3>2. CASE i # n
      <4>1. i \in 1 .. n - 1 /\ i + 1 \in 1 .. n
        BY <1>2, <3>2
      <4>2. Len(ss[i].recs) >= 1
        BY <1>1, <4>1 DEF Chained
      <4> QED BY <1>2, <1>5, <4>1, <4>2, Zenon
    <3> QED BY <3>1, <3>2
  <2> QED BY <2>1
<1>10. \A i, j \in 1 .. n + 1 : i < j => tt[i].first + Len(tt[i].recs) <= tt[j].first
  <2>1. ASSUME NEW i \in 1 .. n + 1, NEW j \in 1 .. n + 1, i < j
        PROVE  tt[i].first + Len(tt[i].recs) <= tt[j].first
    <3>1. i \in 1 .. n /\ tt[i] = ss[i] /\ ss[i].first \in Nat /\ Len(ss[i].recs) \in Nat
      BY <1>2, <1>5, <2>1
    <3>2. CASE j \in 1 .. n
      BY <1>2, <1>5, <2>1, <3>1, <3>2, Zenon
    <3>3. CASE j = n + 1
      <4>1. tt[j].first = nextLSN
        BY <1>4, <1>5, <3>3, Zenon
      <4>2. ss[n].first \in Nat /\ Len(ss[n].recs) \in Nat
        BY <1>2
      <4>3. CASE i = n
        BY <1>3, <3>1, <4>1, <4>2, <4>3
      <4>4. CASE i # n
        <5>1. ss[i].first + Len(ss[i].recs) <= ss[n].first
          BY <1>2, <3>1, <4>4
        <5>2. \A a, c, d, e \in Nat : a + c <= d => a + c <= d + e
          OBVIOUS
        <5> QED BY <1>3, <3>1, <4>1, <4>2, <5>1, <5>2, Zenon
      <4> QED BY <4>3, <4>4
    <3> QED BY <1>6, <3>2, <3>3
  <2> QED BY <2>1
<1>11. ASSUME NEW l \in tt[1].first .. End(tt) - 1
       PROVE  \E i \in 1 .. n + 1 : l \in tt[i].first .. tt[i].first + Len(tt[i].recs) - 1
  <2>1. End(ss) = nextLSN /\ tt[1].first = ss[1].first
    BY <1>2, <1>3, <1>5 DEF End
  <2>2. PICK i \in 1 .. n : l \in ss[i].first .. ss[i].first + Len(ss[i].recs) - 1
    BY <1>1, <1>7, <1>11, <2>1, Zenon DEF Chained
  <2>3. i \in 1 .. n + 1 /\ tt[i] = ss[i]
    BY <1>2, <1>5
  <2> QED BY <2>2, <2>3, Zenon
<1>12. Len(tt) >= 1 /\ Len(tt) - 1 = n
  BY <1>2, <1>5
<1>13. Chained(tt)
  BY <1>5, <1>8, <1>9, <1>10, <1>11, <1>12, Zenon DEF Chained
<1>14. ASSUME NEW i \in 1 .. n + 1
       PROVE  /\ tt[i].stable <= Len(tt[i].recs)
              /\ i < n + 1 => tt[i].stable = Len(tt[i].recs)
              /\ \A j \in 1 .. Len(tt[i].recs) : InPlace(tt[i].recs[j], tt[i].first + j - 1)
  <2>1. CASE i \in 1 .. n
    <3>1. i < n \/ i = n
      BY <1>2, <2>1
    <3> QED BY <1>1, <1>5, <2>1, <3>1, Zenon
  <2>2. CASE i = n + 1
    BY <1>2, <1>4, <1>5, <2>2
  <2> QED BY <1>6, <2>1, <2>2
<1>15. Log(tt, <<>>)
  <2>1. <<>> \in Seq(Rec) /\ End(tt) + Len(<<>>) = nextLSN /\ \A j \in 1 .. Len(<<>>) : FALSE
    BY <1>3, <1>7
  <2> QED BY <1>1, <1>5, <1>13, <1>14, <2>1, Zenon DEF Log
<1>16. tt[1].first = ss[1].first
  BY <1>2, <1>5
<1> QED BY <1>7, <1>15, <1>16, Zenon DEF tt, g

\* drainLocked, with or without an fsync after it: everything appended is in
\* the files, and nothing leaves stable storage.
LEMMA FlushedIsLog ==
  ASSUME Log(segs, buf)
  PROVE  /\ Log(AfterFlush, <<>>) /\ AfterFlush[1].first = segs[1].first
         /\ End(AfterFlush) = nextLSN /\ StableEnd(AfterFlush) >= StableEnd(segs)
         /\ Log(Synced(AfterFlush), <<>>) /\ Synced(AfterFlush)[1].first = segs[1].first
         /\ End(Synced(AfterFlush)) = nextLSN /\ StableEnd(Synced(AfterFlush)) = nextLSN
<1> DEFINE dd == Drained(segs)
<1>1. /\ Log(dd, <<>>) /\ End(dd) = nextLSN /\ StableEnd(dd) = StableEnd(segs)
      /\ dd[1].first = segs[1].first /\ Len(dd[Len(dd)].recs) >= Len(buf)
  BY DrainedIsLog, Zenon
<1>2. StableEnd(segs) \in Nat /\ StableEnd(segs) <= nextLSN
  <2>1. /\ Chained(segs) /\ buf \in Seq(Rec) /\ End(segs) + Len(buf) = nextLSN
        /\ \A i \in 1 .. Len(segs) : segs[i].stable <= Len(segs[i].recs)
    BY Zenon DEF Log
  <2> DEFINE g == segs[Len(segs)]
  <2>2. g.first \in Nat /\ g.stable \in Nat /\ Len(g.recs) \in Nat /\ g.stable <= Len(g.recs)
    BY <2>1, ChainFacts, Zenon
  <2>3. End(segs) = g.first + Len(g.recs) /\ StableEnd(segs) = g.first + g.stable
    BY Zenon DEF End, StableEnd
  <2>4. Len(buf) \in Nat
    BY <2>1
  <2> HIDE DEF g
  <2> QED BY <2>1, <2>2, <2>3, <2>4
<1>3. CASE buf # <<>> /\ Len(dd[Len(dd)].recs) >= SegmentSize
  <2> DEFINE ee == Synced(dd)
  <2>1. AfterFlush = Append(ee, NewSegment(nextLSN))
    BY <1>3, Zenon DEF AfterFlush
  <2>2. /\ Log(ee, <<>>) /\ ee[1].first = dd[1].first /\ Len(ee) = Len(dd)
        /\ ee[Len(dd)].recs = dd[Len(dd)].recs /\ ee[Len(dd)].stable = Len(ee[Len(dd)].recs)
    BY <1>1, SyncedIsLog, Zenon
  <2>3. Len(ee[Len(ee)].recs) >= 1
    <3>1. buf \in Seq(Rec) /\ Chained(dd)
      BY <1>1, Zenon DEF Log
    <3>2. Len(dd[Len(dd)].recs) \in Nat
      BY <3>1, ChainFacts, Zenon
    <3>3. Len(buf) \in Nat /\ Len(buf) >= 1
      BY <1>3, <3>1
    <3>4. Len(ee[Len(ee)].recs) = Len(dd[Len(dd)].recs)
      BY <2>2, Zenon
    <3> HIDE DEF dd, ee
    <3> QED BY <1>1, <3>2, <3>3, <3>4
  <2> HIDE DEF ee
  <2>4. /\ Log(AfterFlush, <<>>) /\ AfterFlush[1].first = ee[1].first
        /\ End(AfterFlush) = nextLSN /\ StableEnd(AfterFlush) = nextLSN
    BY <2>1, <2>2, <2>3, RotatedIsLog, Zenon
  <2>5. StableEnd(AfterFlush) >= StableEnd(segs)
    BY <1>2, <2>4
  <2>6. /\ Log(Synced(AfterFlush), <<>>) /\ Synced(AfterFlush)[1].first = AfterFlush[1].first
        /\ End(Synced(AfterFlush)) = nextLSN /\ StableEnd(Synced(AfterFlush)) = nextLSN
    BY <2>4, SyncedIsLog, Zenon
  <2> QED BY <1>1, <2>2, <2>4, <2>5, <2>6, Zenon
<1>4. CASE ~(buf # <<>> /\ Len(dd[Len(dd)].recs) >= SegmentSize)
  <2>1. AfterFlush = dd
    BY <1>4, Zenon DEF AfterFlush
  <2>2. /\ Log(Synced(dd), <<>>) /\ Synced(dd)[1].first = dd[1].first
        /\ End(Synced(dd)) = nextLSN /\ StableEnd(Synced(dd)) = nextLSN
    BY <1>1, SyncedIsLog, Zenon
  <2>3. StableEnd(dd) >= StableEnd(segs)
    BY <1>1, <1>2, SMTT(60)
  <2> QED BY <1>1, <2>1, <2>2, <2>3, Zenon
<1> QED BY <1>3, <1>4, Zenon

\* An append.
LEMMA JournalIsLog ==
  ASSUME Log(segs, buf), NEW delta \in Delta,
         buf' = Append(buf, [lsn |-> nextLSN, delta |-> delta]),
         nextLSN' = nextLSN + 1, hist' = Append(hist, delta), segs' = segs
  PROVE  /\ Log(segs, buf)' /\ Len(hist') = Len(hist) + 1
         /\ \A l \in 1 .. Len(hist) : hist'[l] = hist[l]
<1> DEFINE r == [lsn |-> nextLSN, delta |-> delta]
           n == Len(hist)
<1>1. /\ Chained(segs) /\ buf \in Seq(Rec) /\ hist \in Seq(Delta) /\ nextLSN = n + 1
      /\ \A i \in 1 .. Len(segs) :
            /\ segs[i].stable <= Len(segs[i].recs)
            /\ i < Len(segs) => segs[i].stable = Len(segs[i].recs)
            /\ \A j \in 1 .. Len(segs[i].recs) : InPlace(segs[i].recs[j], segs[i].first + j - 1)
      /\ \A j \in 1 .. Len(buf) : InPlace(buf[j], End(segs) + j - 1)
      /\ End(segs) + Len(buf) = nextLSN
  BY Zenon DEF Log
<1>2. r \in Rec /\ r.lsn = nextLSN /\ r.delta = delta
  BY <1>1, SMTT(60) DEF Rec
<1> HIDE DEF r
<1>3. /\ buf' \in Seq(Rec) /\ Len(buf') = Len(buf) + 1 /\ buf'[Len(buf) + 1] = r
      /\ \A j \in 1 .. Len(buf) : buf'[j] = buf[j]
  BY <1>1, <1>2, SMTT(60) DEF r
<1>4. /\ hist' \in Seq(Delta) /\ Len(hist') = n + 1 /\ hist'[n + 1] = delta
      /\ \A l \in 1 .. n : hist'[l] = hist[l]
  BY <1>1
<1> DEFINE Has(x, l) == l \in 1 .. Len(hist') /\ x.lsn = l /\ x.delta = hist'[l]
<1>5. \A x, l : InPlace(x, l) => Has(x, l)
  <2>1. \A l \in 1 .. n : l \in 1 .. Len(hist')
    BY <1>1, <1>4
  <2> QED BY <1>4, <2>1, Zenon DEF InPlace
<1>6. Has(r, nextLSN)
  <2>1. n + 1 \in 1 .. Len(hist')
    BY <1>1, <1>4
  <2> QED BY <1>1, <1>2, <1>4, <2>1, Zenon
<1> HIDE DEF Has
<1>7. Chained(segs)' /\ End(segs)' = End(segs)
  BY <1>1, Zenon DEF Chained, End
<1>8. End(segs) \in Nat
  <2>1. segs[Len(segs)].first \in Nat /\ Len(segs[Len(segs)].recs) \in Nat
    BY <1>1, ChainFacts, Zenon
  <2> QED BY <2>1, SMTT(60) DEF End
<1>9. ASSUME NEW j \in 1 .. Len(buf')
      PROVE  Has(buf'[j], End(segs) + j - 1)
  <2>1. CASE j \in 1 .. Len(buf)
    BY <1>1, <1>3, <1>5, <2>1, Zenon
  <2>2. CASE j = Len(buf) + 1
    <3>1. End(segs) + j - 1 = nextLSN
      BY <1>1, <1>8, <2>2, SMTT(60)
    <3> QED BY <1>3, <1>6, <2>2, <3>1, Zenon
  <2>3. Len(buf) \in Nat
    BY <1>1, SMTT(60)
  <2> QED BY <1>3, <2>1, <2>2, <2>3
<1>10. End(segs) + Len(buf') = nextLSN'
  BY <1>1, <1>3, <1>8, SMTT(60)
<1>11. nextLSN' = Len(hist') + 1
  BY <1>1, <1>4
<1>12. \A i \in 1 .. Len(segs) : \A j \in 1 .. Len(segs[i].recs) :
          Has(segs[i].recs[j], segs[i].first + j - 1)
  BY <1>1, <1>5, Zenon
<1>13. Log(segs, buf)'
  BY <1>1, <1>3, <1>4, <1>7, <1>9, <1>10, <1>11, <1>12, Zenon DEF Log, InPlace, Has
<1> QED BY <1>4, <1>13

\* Dropping segments from the front.
LEMMA TrimmedIsLog ==
  ASSUME NEW ss, NEW b, Log(ss, b), NEW n \in 0 .. Len(ss) - 1
  PROVE  LET tt == SubSeq(ss, n + 1, Len(ss))
         IN Log(tt, b) /\ tt[1].first = ss[n + 1].first
            /\ End(tt) = End(ss) /\ StableEnd(tt) = StableEnd(ss)
<1> DEFINE m == Len(ss) - n
           tt == SubSeq(ss, n + 1, Len(ss))
<1>1. /\ Chained(ss) /\ b \in Seq(Rec) /\ hist \in Seq(Delta) /\ nextLSN = Len(hist) + 1
      /\ \A i \in 1 .. Len(ss) :
            /\ ss[i].stable <= Len(ss[i].recs)
            /\ i < Len(ss) => ss[i].stable = Len(ss[i].recs)
            /\ \A j \in 1 .. Len(ss[i].recs) : InPlace(ss[i].recs[j], ss[i].first + j - 1)
      /\ \A j \in 1 .. Len(b) : InPlace(b[j], End(ss) + j - 1)
      /\ End(ss) + Len(b) = nextLSN
  BY Zenon DEF Log
<1>2. /\ ss \in Seq(Segment) /\ Len(ss) \in Nat /\ Len(ss) \in 1 .. Len(ss)
      /\ \A i \in 1 .. Len(ss) : ss[i].first \in Nat /\ ss[i].first >= 1 /\ Len(ss[i].recs) \in Nat
      /\ \A i \in 1 .. Len(ss) - 1 : ss[i + 1].first = ss[i].first + Len(ss[i].recs)
      /\ \A i, j \in 1 .. Len(ss) : i < j => ss[i].first + Len(ss[i].recs) <= ss[j].first
  BY <1>1, ChainFacts, Zenon
<1>3. /\ tt \in Seq(Segment) /\ Len(tt) = m /\ m \in Nat /\ m >= 1 /\ n \in Nat
      /\ \A i \in 1 .. m : tt[i] = ss[n + i]
  BY <1>2
<1> HIDE DEF tt
<1>4. \A i \in 1 .. m : n + i \in 1 .. Len(ss) /\ (i = m <=> n + i = Len(ss)) /\ (i < m <=> n + i < Len(ss))
  BY <1>2, <1>3
<1>5. m \in 1 .. m /\ 1 \in 1 .. m /\ n + m = Len(ss) /\ tt[m] = ss[Len(ss)] /\ tt[1] = ss[n + 1]
  BY <1>2, <1>3
<1>6. End(tt) = End(ss) /\ StableEnd(tt) = StableEnd(ss)
  BY <1>3, <1>5, Zenon DEF End, StableEnd
<1>7. \A i \in 1 .. m - 1 : Len(tt[i].recs) >= 1 /\ tt[i + 1].first = tt[i].first + Len(tt[i].recs)
  <2>1. ASSUME NEW i \in 1 .. m - 1
        PROVE  Len(tt[i].recs) >= 1 /\ tt[i + 1].first = tt[i].first + Len(tt[i].recs)
    <3>1. /\ i \in 1 .. m /\ i + 1 \in 1 .. m /\ n + i \in 1 .. Len(ss) - 1
          /\ n + (i + 1) = (n + i) + 1
      BY <1>2, <1>3
    <3>2. Len(ss[n + i].recs) >= 1
      BY <1>1, <3>1, Zenon DEF Chained
    <3> QED BY <1>2, <1>3, <3>1, <3>2, Zenon
  <2> QED BY <2>1
<1>8. \A i, j \in 1 .. m : i < j => tt[i].first + Len(tt[i].recs) <= tt[j].first
  <2>1. \A i, j \in 1 .. m : i < j => n + i < n + j
    BY <1>3
  <2> QED BY <1>2, <1>3, <1>4, <2>1, Zenon
<1>9. ASSUME NEW l \in tt[1].first .. End(tt) - 1
      PROVE  \E i \in 1 .. m : l \in tt[i].first .. tt[i].first + Len(tt[i].recs) - 1
  <2>1. /\ n + 1 \in 1 .. Len(ss) /\ 1 \in 1 .. Len(ss)
        /\ ss[n + 1].first \in Nat /\ ss[1].first \in Nat /\ Len(ss[1].recs) \in Nat
    BY <1>2, <1>3, <1>4
  <2>2. ss[1].first <= ss[n + 1].first
    <3>1. CASE n = 0
      BY <2>1, <3>1
    <3>2. CASE n # 0
      <4>1. ss[1].first + Len(ss[1].recs) <= ss[n + 1].first
        BY <1>2, <1>3, <2>1, <3>2, SMTT(60)
      <4> QED BY <2>1, <4>1
    <3> QED BY <3>1, <3>2
  <2>3. l \in ss[n + 1].first .. End(ss) - 1
    BY <1>5, <1>6, <1>9, Zenon
  <2>4. l \in ss[1].first .. End(ss) - 1 /\ l >= ss[n + 1].first
    BY <2>1, <2>2, <2>3
  <2>5. PICK i \in 1 .. Len(ss) : l \in ss[i].first .. ss[i].first + Len(ss[i].recs) - 1
    BY <1>1, <2>4, Zenon DEF Chained
  <2>6. i >= n + 1
    <3>1. SUFFICES ASSUME i < n + 1 PROVE FALSE
      BY <1>2, <1>3
    <3>2. /\ ss[i].first + Len(ss[i].recs) <= ss[n + 1].first
          /\ ss[i].first \in Nat /\ Len(ss[i].recs) \in Nat
      BY <1>2, <2>1, <3>1, Zenon
    <3>3. l <= ss[i].first + Len(ss[i].recs) - 1
      BY <2>5, <3>2, SMTT(60)
    <3> QED BY <2>1, <2>4, <3>2, <3>3, SMTT(60)
  <2>7. i - n \in 1 .. m /\ n + (i - n) = i
    BY <1>2, <1>3, <2>6
  <2>8. tt[i - n] = ss[i]
    BY <1>3, <2>7, Zenon
  <2> QED BY <2>5, <2>7, <2>8, Zenon
<1>10. \A i \in 1 .. m : tt[i].first >= 1
  BY <1>2, <1>3, <1>4, Zenon
<1>11. Chained(tt)
  BY <1>3, <1>7, <1>8, <1>9, <1>10, Zenon DEF Chained
<1>12. Log(tt, b)
  BY <1>1, <1>3, <1>4, <1>6, <1>11, Zenon DEF Log
<1> QED BY <1>5, <1>6, <1>12, Zenon DEF tt

-----------------------------------------------------------------------------
(* The invariant is kept by every step of the first incarnation. *)

Ops == [delta : Delta, lsn : Nat, index : Nat, wiped : Nat]

\* The deltas that are journalled.
LEMMA DeltaFacts ==
  /\ \A d \in Delta : DOMAIN d \subseteq Keys /\ \A k \in DOMAIN d : d[k] \in Value
  /\ \A k \in Keys, r \in Value : Only(k, r) \in Delta /\ DOMAIN Only(k, r) = {k}
  /\ Empty \in Delta /\ <<>> \in Delta /\ Batches \subseteq Delta
<1>1. \A d \in Delta : DOMAIN d \subseteq Keys /\ \A k \in DOMAIN d : d[k] \in Value
  BY DEF Delta
<1>2. ASSUME NEW k \in Keys, NEW r \in Value
      PROVE  Only(k, r) \in Delta /\ DOMAIN Only(k, r) = {k}
  <2>1. Only(k, r) \in [{k} -> Value] /\ {k} \in SUBSET Keys
    BY Zenon DEF Only
  <2> QED BY <2>1, Zenon DEF Delta, Only
<1>3. Empty \in Delta
  <2>1. Empty \in [Keys -> Value] /\ Keys \in SUBSET Keys
    BY Zenon DEF Empty, Value
  <2> QED BY <2>1, Zenon DEF Delta
<1>4. <<>> \in Delta
  <2>1. <<>> \in [{} -> Value]
    OBVIOUS
  <2> QED BY <2>1, Zenon DEF Delta
<1>5. Batches \subseteq Delta
  BY DurableAssumption, Zenon DEF Delta, Value
<1> QED BY <1>1, <1>2, <1>3, <1>4, <1>5

\* An operation with one field replaced.
LEMMA OpExcept ==
  ASSUME NEW x \in Ops, NEW v
  PROVE  /\ [x EXCEPT !.delta = v] = [delta |-> v, lsn |-> x.lsn, index |-> x.index, wiped |-> x.wiped]
         /\ [x EXCEPT !.wiped = v] = [delta |-> x.delta, lsn |-> x.lsn, index |-> x.index, wiped |-> v]
<1> DEFINE a == x.delta
           b == x.lsn
           c == x.index
           d == x.wiped
           t == [delta |-> a, lsn |-> b, index |-> c, wiped |-> d]
<1>1. x = t
  BY DEF Ops
<1>2. /\ [t EXCEPT !.delta = v] = [delta |-> v, lsn |-> b, index |-> c, wiped |-> d]
      /\ [t EXCEPT !.wiped = v] = [delta |-> a, lsn |-> b, index |-> c, wiped |-> v]
  <2> HIDE DEF a, b, c, d
  <2> QED OBVIOUS
<1> HIDE DEF t
<1>3. /\ [x EXCEPT !.delta = v] = [t EXCEPT !.delta = v]
      /\ [x EXCEPT !.wiped = v] = [t EXCEPT !.wiped = v]
  BY <1>1, Zenon
<1> QED BY <1>2, <1>3, Zenon

\* A step of one client that changes its place and its operation.
LEMMA OpsStep ==
  ASSUME OpsInv, NEW c \in Clients, NEW w \in {"idle", "batch"} \cup Logged, NEW o \in Ops,
         pc' = [pc EXCEPT ![c] = w], op' = [op EXCEPT ![c] = o],
         Len(hist) \in Nat, Len(hist') \in Nat, Len(hist') >= Len(hist),
         w \in Logged => o.lsn \in 1 .. Len(hist') /\ o.index = o.lsn,
         w = "batch" => o.delta \in Batches
  PROVE  OpsInv'
<1>1. /\ pc \in [Clients -> {"idle", "batch"} \cup Logged]
      /\ op \in [Clients -> Ops]
      /\ \A x \in Clients :
            /\ pc[x] \in Logged => op[x].lsn \in 1 .. Len(hist) /\ op[x].index = op[x].lsn
            /\ pc[x] = "batch" => op[x].delta \in Batches
  BY Zenon DEF OpsInv, Ops
<1>2. /\ pc' \in [Clients -> {"idle", "batch"} \cup Logged] /\ op' \in [Clients -> Ops]
      /\ pc'[c] = w /\ op'[c] = o
      /\ \A x \in Clients : x # c => pc'[x] = pc[x] /\ op'[x] = op[x]
  BY <1>1, Zenon
<1>3. \A l \in 1 .. Len(hist) : l \in 1 .. Len(hist')
  OBVIOUS
<1>4. \A x \in Clients :
         /\ pc'[x] \in Logged => op'[x].lsn \in 1 .. Len(hist') /\ op'[x].index = op'[x].lsn
         /\ pc'[x] = "batch" => op'[x].delta \in Batches
  BY <1>1, <1>2, <1>3, Zenon
<1> QED BY <1>2, <1>4, Zenon DEF OpsInv, Ops

\* A step that leaves the log and the history alone.
LEMMA SameLog ==
  ASSUME LogInv, UNCHANGED <<logVars, histVars>>
  PROVE  Log(segs, buf)' /\ AckedIsLogged' /\ segs'[1].first = segs[1].first
         /\ Len(hist) \in Nat
<1>1. segs' = segs /\ buf' = buf /\ nextLSN' = nextLSN /\ hist' = hist /\ acked' = acked
  BY DEF logVars, histVars
<1>2. Log(segs, buf)'
  BY <1>1, Zenon DEF LogInv, Log, Chained, End, InPlace
<1>3. AckedIsLogged'
  BY <1>1, Zenon DEF LogInv, AckedIsLogged, End, StableEnd
<1>4. hist \in Seq(Delta)
  BY Zenon DEF LogInv, Log
<1> QED BY <1>1, <1>2, <1>3, <1>4

\* A client's append.
LEMMA JournalStep ==
  ASSUME LogInv, NEW c \in Clients, NEW delta \in Delta, NEW w \in {"apply", "wipe"},
         Journal(c, delta), Goto(c, w), UNCHANGED <<segs, acked>>
  PROVE  Log(segs, buf)' /\ AckedIsLogged' /\ OpsInv' /\ nextLSN' <= MaxLSN + 1
<1>1. /\ Room(c) /\ buf' = Append(buf, [lsn |-> nextLSN, delta |-> delta])
      /\ nextLSN' = nextLSN + 1 /\ hist' = Append(hist, delta) /\ segs' = segs /\ acked' = acked
      /\ op' = [op EXCEPT ![c] = [delta |-> delta, lsn |-> nextLSN,
                                  index |-> Len(hist) + 1, wiped |-> 0]]
      /\ pc' = [pc EXCEPT ![c] = w]
  BY Zenon DEF Journal, Goto
<1>2. Log(segs, buf) /\ OpsInv /\ AckedIsLogged
  BY DEF LogInv
<1>3. Log(segs, buf)' /\ Len(hist') = Len(hist) + 1
  BY <1>1, <1>2, JournalIsLog, Zenon
<1>4. hist \in Seq(Delta) /\ nextLSN = Len(hist) + 1
  BY <1>2, Zenon DEF Log
<1>5. Len(hist) \in Nat /\ Len(hist') \in Nat /\ Len(hist') >= Len(hist) /\ nextLSN \in 1 .. Len(hist')
  BY <1>3, <1>4
<1>6. OpsInv'
  <2> DEFINE o == [delta |-> delta, lsn |-> nextLSN, index |-> Len(hist) + 1, wiped |-> 0]
  <2>1. o \in Ops /\ o.lsn = nextLSN /\ o.index = o.lsn
    BY <1>4, <1>5 DEF Ops
  <2>2. w \in {"idle", "batch"} \cup Logged /\ w # "batch"
    BY DEF Logged
  <2> HIDE DEF o
  <2>3. op' = [op EXCEPT ![c] = o]
    BY <1>1 DEF o
  <2> QED BY <1>1, <1>2, <1>5, <2>1, <2>2, <2>3, OpsStep, Zenon
<1>7. AckedIsLogged'
  <2>1. \A l \in 1 .. Len(hist) : l \in 1 .. Len(hist')
    BY <1>5
  <2> QED BY <1>1, <1>2, <2>1, Zenon DEF AckedIsLogged, End, StableEnd
<1>8. nextLSN' <= MaxLSN + 1
  <2> DEFINE S == {d \in Clients \ {c} : pc[d] = "batch"}
  <2>1. IsFiniteSet(S)
    <3>1. S \subseteq Clients /\ IsFiniteSet(Clients)
      BY DurableAssumption
    <3> QED BY <3>1, FS_Subset, Zenon
  <2>2. Cardinality(S) \in Nat
    BY <2>1, FS_CardinalityType, Zenon
  <2>3. nextLSN + Cardinality(S) <= MaxLSN
    BY <1>1, Zenon DEF Room
  <2> HIDE DEF S
  <2> QED BY <1>1, <1>5, <2>2, <2>3, DurableAssumption
<1> QED BY <1>3, <1>6, <1>7, <1>8

\* A drain of the buffer, with or without an fsync.
LEMMA FlushStep ==
  ASSUME LogInv, segs' = AfterFlush \/ segs' = Synced(AfterFlush), buf' = <<>>,
         UNCHANGED <<nextLSN, hist>>
  PROVE  /\ Log(segs, buf)' /\ segs'[1].first = segs[1].first
         /\ End(segs)' = nextLSN /\ StableEnd(segs)' >= StableEnd(segs)
         /\ segs' = Synced(AfterFlush) => StableEnd(segs)' = nextLSN
         /\ \A a \in acked : a \in 1 .. Len(hist') /\ a < End(segs)'
                             /\ (Policy = "always" => a < StableEnd(segs)')
         /\ StableEnd(segs) \in Nat /\ nextLSN \in Nat
<1>1. Log(segs, buf) /\ AckedIsLogged
  BY DEF LogInv
<1>2. /\ Log(AfterFlush, <<>>) /\ AfterFlush[1].first = segs[1].first
      /\ End(AfterFlush) = nextLSN /\ StableEnd(AfterFlush) >= StableEnd(segs)
      /\ Log(Synced(AfterFlush), <<>>) /\ Synced(AfterFlush)[1].first = segs[1].first
      /\ End(Synced(AfterFlush)) = nextLSN /\ StableEnd(Synced(AfterFlush)) = nextLSN
  BY <1>1, FlushedIsLog, Zenon
<1>3. /\ Chained(segs) /\ hist \in Seq(Delta) /\ nextLSN = Len(hist) + 1
      /\ buf \in Seq(Rec) /\ End(segs) + Len(buf) = nextLSN
      /\ \A i \in 1 .. Len(segs) : segs[i].stable <= Len(segs[i].recs)
  BY <1>1, Zenon DEF Log
<1>4. nextLSN \in Nat /\ StableEnd(segs) \in Nat /\ StableEnd(segs) <= nextLSN
  <2> DEFINE g == segs[Len(segs)]
  <2>1. g.first \in Nat /\ g.stable \in Nat /\ Len(g.recs) \in Nat /\ g.stable <= Len(g.recs)
    BY <1>3, ChainFacts, Zenon
  <2>2. End(segs) = g.first + Len(g.recs) /\ StableEnd(segs) = g.first + g.stable
    BY Zenon DEF End, StableEnd
  <2>3. Len(buf) \in Nat /\ nextLSN \in Nat
    BY <1>3
  <2> HIDE DEF g
  <2> QED BY <1>3, <2>1, <2>2, <2>3
<1> DEFINE ss == segs'
<1>5. /\ Log(ss, <<>>) /\ ss[1].first = segs[1].first /\ End(ss) = nextLSN
      /\ StableEnd(ss) >= StableEnd(segs)
      /\ ss = Synced(AfterFlush) => StableEnd(ss) = nextLSN
  BY <1>2, <1>4
<1>6. End(segs)' = End(ss) /\ StableEnd(segs)' = StableEnd(ss)
  BY Zenon DEF End, StableEnd
<1>7. Log(segs, buf)'
  BY <1>5, Zenon DEF Log, Chained, End, InPlace
<1>8. StableEnd(ss) \in Nat
  <2>1. Chained(ss)
    BY <1>5, Zenon DEF Log
  <2>2. ss[Len(ss)].first \in Nat /\ ss[Len(ss)].stable \in Nat
    BY <2>1, ChainFacts, Zenon
  <2> HIDE DEF ss
  <2> QED BY <2>2 DEF StableEnd
<1>9. ASSUME NEW a \in acked
      PROVE  a \in 1 .. Len(hist') /\ a < End(ss) /\ (Policy = "always" => a < StableEnd(ss))
  <2>1. a \in 1 .. Len(hist) /\ (Policy = "always" => a < StableEnd(segs))
    BY <1>1, Zenon DEF AckedIsLogged
  <2> HIDE DEF ss
  <2>2. a < End(ss)
    BY <1>3, <1>5, <2>1
  <2>3. Policy = "always" => a < StableEnd(ss)
    BY <1>4, <1>5, <1>8, <2>1
  <2> QED BY <2>1, <2>2, <2>3, Zenon
<1> QED BY <1>4, <1>5, <1>6, <1>7, <1>9, Zenon

\* A reply: under "always" what is answered is on stable storage, whether
\* this call synced it or another one did.
LEMMA ReplyStep ==
  ASSUME LogInv, NEW c \in Clients, Reply(c)
  PROVE  Log(segs, buf)' /\ AckedIsLogged' /\ OpsInv' /\ segs'[1].first = segs[1].first
<1> DEFINE l == op[c].lsn
<1>1. /\ pc[c] = "await" /\ buf' = <<>> /\ acked' = acked \cup {op[c].index}
      /\ op' = [op EXCEPT ![c] = NoOp] /\ pc' = [pc EXCEPT ![c] = "idle"]
      /\ nextLSN' = nextLSN /\ hist' = hist
      /\ segs' = IF Policy = "always" /\ Unstable(l) THEN Synced(AfterFlush) ELSE AfterFlush
  BY Zenon DEF Reply, Goto
<1>2. Log(segs, buf) /\ OpsInv
  BY DEF LogInv
<1>3. /\ Log(segs, buf)' /\ segs'[1].first = segs[1].first
      /\ End(segs)' = nextLSN /\ StableEnd(segs)' >= StableEnd(segs)
      /\ segs' = Synced(AfterFlush) => StableEnd(segs)' = nextLSN
      /\ \A a \in acked : a \in 1 .. Len(hist') /\ a < End(segs)'
                          /\ (Policy = "always" => a < StableEnd(segs)')
      /\ StableEnd(segs) \in Nat /\ nextLSN \in Nat
  BY <1>1, FlushStep
<1>4. l \in 1 .. Len(hist) /\ op[c].index = l
  BY <1>1, <1>2, Zenon DEF OpsInv, Logged
<1>5. hist \in Seq(Delta) /\ nextLSN = Len(hist) + 1 /\ l < nextLSN /\ l \in Nat
  <2>1. hist \in Seq(Delta) /\ nextLSN = Len(hist) + 1
    BY <1>2, Zenon DEF Log
  <2> HIDE DEF l
  <2> QED BY <1>4, <2>1
<1>6. ASSUME Policy = "always"
      PROVE  l < StableEnd(segs)'
  <2>1. CASE Unstable(l)
    BY <1>1, <1>3, <1>5, <1>6, <2>1, Zenon
  <2>2. CASE ~Unstable(l)
    <3> DEFINE n == Len(segs)
               f == segs[n].first
               st == segs[n].stable
               size == Len(segs[n].recs)
    <3>1. /\ Chained(segs) /\ buf \in Seq(Rec) /\ End(segs) + Len(buf) = nextLSN
          /\ \A i \in 1 .. n : \A j \in 1 .. Len(segs[i].recs) :
                InPlace(segs[i].recs[j], segs[i].first + j - 1)
          /\ \A j \in 1 .. Len(buf) : InPlace(buf[j], End(segs) + j - 1)
      BY <1>2, Zenon DEF Log
    <3>2. /\ n \in 1 .. n /\ f \in Nat /\ st \in Nat /\ size \in Nat
      BY <3>1, ChainFacts, Zenon
    <3>3. End(segs) = f + size /\ StableEnd(segs) = f + st /\ Len(buf) \in Nat
      BY <3>1 DEF End, StableEnd
    <3>4. l < f + size
      <4>1. SUFFICES ASSUME ~(l < f + size) PROVE FALSE
        OBVIOUS
      <4> DEFINE j == l - (f + size) + 1
      <4>2. j \in 1 .. Len(buf) /\ f + size + j - 1 = l
        <5> HIDE DEF f, size, l
        <5> QED BY <1>5, <3>1, <3>2, <3>3, <4>1
      <4> HIDE DEF j
      <4>3. buf[j].lsn = l
        BY <3>1, <3>3, <4>2, Zenon DEF InPlace
      <4> QED BY <2>2, <4>2, <4>3, Zenon DEF Unstable
    <3>5. l < f + st
      <4>1. SUFFICES ASSUME ~(l < f + st) PROVE FALSE
        OBVIOUS
      <4> DEFINE j == l - f + 1
      <4>2. j \in st + 1 .. size /\ j \in 1 .. size /\ f + j - 1 = l
        <5> HIDE DEF f, size, l, st
        <5> QED BY <1>5, <3>2, <3>4, <4>1
      <4> HIDE DEF j
      <4>3. segs[n].recs[j].lsn = l
        BY <3>1, <3>2, <4>2, Zenon DEF InPlace
      <4> QED BY <2>2, <3>2, <4>2, <4>3, Zenon DEF Unstable
    <3>6. StableEnd(segs)' \in Nat
      <4>1. Chained(segs)'
        BY <1>3, Zenon DEF Log
      <4> DEFINE ss == segs'
      <4>2. Chained(ss) /\ StableEnd(segs)' = StableEnd(ss)
        BY <4>1, Zenon DEF Chained, StableEnd, End
      <4> HIDE DEF ss
      <4>3. ss[Len(ss)].first \in Nat /\ ss[Len(ss)].stable \in Nat
        BY <4>2, ChainFacts, Zenon
      <4>4. StableEnd(ss) \in Nat
        BY <4>3 DEF StableEnd
      <4> QED BY <4>2, <4>4, Zenon
    <3> HIDE DEF f, st, l
    <3> QED BY <1>3, <1>5, <3>2, <3>3, <3>5, <3>6
  <2> QED BY <2>1, <2>2
<1>7. AckedIsLogged'
  <2>1. l < End(segs)'
    BY <1>3, <1>5, Zenon
  <2> QED BY <1>1, <1>3, <1>4, <1>6, <2>1, Zenon DEF AckedIsLogged
<1>8. OpsInv'
  <2>1. NoOp \in Ops
    BY DeltaFacts DEF NoOp, Ops
  <2>2. "idle" \in {"idle", "batch"} \cup Logged /\ "idle" \notin Logged /\ "idle" # "batch"
    BY DEF Logged
  <2>3. Len(hist) \in Nat /\ Len(hist') \in Nat /\ Len(hist') >= Len(hist)
    BY <1>1, <1>5
  <2> QED BY <1>1, <1>2, <2>1, <2>2, <2>3, OpsStep, Zenon
<1> QED BY <1>3, <1>7, <1>8

\* The commands.
LEMMA CommandStep ==
  ASSUME LogInv, NEW c \in Clients,
         \/ \E k \in Keys, r \in Records : Put(c, k, r)
         \/ \E k \in Keys : Delete(c, k) \/ Update(c, k)
         \/ \E delta \in Batches : BeginBatch(c, delta)
         \/ FlushAll(c) \/ LockShard(c) \/ JournalBatch(c) \/ Apply(c) \/ Wipe(c) \/ Reply(c)
  PROVE  LogInv' /\ UNCHANGED <<crashes, mode>>
<1>1. Log(segs, buf) /\ AckedIsLogged /\ OpsInv /\ NothingTrimmed /\ StoreTypes
  BY DEF LogInv
<1>2. /\ mem \in [Keys -> Value] /\ lock \in [Shards -> Clients \cup {Nobody}]
      /\ now \in 0 .. MaxNow /\ nextLSN <= MaxLSN + 1 /\ saves \in Nat
  BY <1>1 DEF StoreTypes
<1>3. ASSUME snap' = snap, saver' = saver, saves' = saves, segs'[1].first = segs[1].first
      PROVE  NothingTrimmed'
  BY <1>1, <1>3, Zenon DEF NothingTrimmed
<1>4. \A k \in Keys : View(mem, now)[k] \in Value
  BY <1>2, Zenon DEF View, Value
<1>5. hist \in Seq(Delta) /\ Len(hist) \in Nat
  BY <1>1 DEF Log
<1>6. pc \in [Clients -> {"idle", "batch"} \cup Logged] /\ op \in [Clients -> Ops]
  BY <1>1, Zenon DEF OpsInv, Ops
<1>7. op = [op EXCEPT ![c] = op[c]] /\ op[c] \in Ops
  BY <1>6, Zenon
<1>8. "apply" \in {"apply", "wipe"} /\ "wipe" \in {"apply", "wipe"}
  OBVIOUS
<1>9. CASE \E k \in Keys, r \in Records : Put(c, k, r)
  <2>1. PICK k \in Keys, r \in Records : Put(c, k, r)
    BY <1>9
  <2>2. /\ Journal(c, Only(k, r)) /\ Goto(c, "apply") /\ lock' = [lock EXCEPT ![ShardOf[k]] = c]
        /\ UNCHANGED <<mem, now, segs, snap, saver, saves, crashes, mode, acked>>
    BY <2>1, Zenon DEF Put, snapVars
  <2>3. Only(k, r) \in Delta
    BY DeltaFacts, Zenon DEF Value
  <2>4. Log(segs, buf)' /\ AckedIsLogged' /\ OpsInv' /\ nextLSN' <= MaxLSN + 1
    BY <1>8, <2>2, <2>3, JournalStep, Zenon
  <2>5. StoreTypes'
    BY <1>2, <2>2, <2>4, Zenon DEF StoreTypes
  <2> QED BY <1>3, <2>2, <2>4, <2>5, Zenon DEF LogInv
<1>10. CASE \E k \in Keys : Delete(c, k)
  <2>1. PICK k \in Keys : Delete(c, k)
    BY <1>10
  <2>2. /\ Journal(c, Only(k, Absent)) /\ Goto(c, "apply") /\ lock' = [lock EXCEPT ![ShardOf[k]] = c]
        /\ UNCHANGED <<mem, now, segs, snap, saver, saves, crashes, mode, acked>>
    BY <2>1, Zenon DEF Delete, snapVars
  <2>3. Only(k, Absent) \in Delta
    BY DeltaFacts, Zenon DEF Value
  <2>4. Log(segs, buf)' /\ AckedIsLogged' /\ OpsInv' /\ nextLSN' <= MaxLSN + 1
    BY <1>8, <2>2, <2>3, JournalStep, Zenon
  <2>5. StoreTypes'
    BY <1>2, <2>2, <2>4, Zenon DEF StoreTypes
  <2> QED BY <1>3, <2>2, <2>4, <2>5, Zenon DEF LogInv
<1>11. CASE \E k \in Keys : Update(c, k)
  <2>1. PICK k \in Keys : Update(c, k)
    BY <1>11
  <2>2. /\ mem' = [mem EXCEPT ![k] = View(mem, now)[k]]
        /\ UNCHANGED <<now, segs, snap, saver, saves, crashes, mode, acked>>
        /\ \/ \E r \in Value : /\ Journal(c, Only(k, r)) /\ Goto(c, "apply")
                               /\ lock' = [lock EXCEPT ![ShardOf[k]] = c]
           \/ UNCHANGED <<lock, buf, nextLSN, dirty, hist, op, pc>>
    BY <2>1, Zenon DEF Update, snapVars, Value
  <2>3. mem' \in [Keys -> Value]
    BY <1>2, <1>4, <2>2, Zenon
  <2>4. CASE \E r \in Value : /\ Journal(c, Only(k, r)) /\ Goto(c, "apply")
                              /\ lock' = [lock EXCEPT ![ShardOf[k]] = c]
    <3>1. PICK r \in Value : /\ Journal(c, Only(k, r)) /\ Goto(c, "apply")
                             /\ lock' = [lock EXCEPT ![ShardOf[k]] = c]
      BY <2>4
    <3>2. Only(k, r) \in Delta
      BY DeltaFacts, Zenon
    <3>3. Log(segs, buf)' /\ AckedIsLogged' /\ OpsInv' /\ nextLSN' <= MaxLSN + 1
      BY <1>8, <2>2, <3>1, <3>2, JournalStep, Zenon
    <3>4. StoreTypes'
      BY <1>2, <2>2, <2>3, <3>1, <3>3, Zenon DEF StoreTypes
    <3> QED BY <1>3, <2>2, <3>3, <3>4, Zenon DEF LogInv
  <2>5. CASE UNCHANGED <<lock, buf, nextLSN, dirty, hist, op, pc>>
    <3>1. Log(segs, buf)' /\ AckedIsLogged'
      BY <2>2, <2>5, SameLog, Zenon DEF logVars, histVars
    <3>2. OpsInv' /\ StoreTypes'
      BY <1>1, <2>2, <2>3, <2>5, Zenon DEF OpsInv, StoreTypes
    <3> QED BY <1>3, <2>2, <3>1, <3>2, Zenon DEF LogInv
  <2> QED BY <2>2, <2>4, <2>5, Zenon
<1>12. CASE \E delta \in Batches : BeginBatch(c, delta)
  <2>1. PICK delta \in Batches : BeginBatch(c, delta)
    BY <1>12
  <2>2. /\ op' = [op EXCEPT ![c].delta = delta] /\ pc' = [pc EXCEPT ![c] = "batch"]
        /\ UNCHANGED <<mem, lock, now, logVars, snap, saver, saves, crashes, mode, histVars>>
    BY <2>1, Zenon DEF BeginBatch, snapVars, storeVars, Goto
  <2> DEFINE o == [op[c] EXCEPT !.delta = delta]
  <2>3. op' = [op EXCEPT ![c] = o]
    BY <2>2, Zenon
  <2>4. o = [delta |-> delta, lsn |-> op[c].lsn, index |-> op[c].index, wiped |-> op[c].wiped]
    BY <1>7, OpExcept, Zenon
  <2> HIDE DEF o
  <2>5. o \in Ops /\ o.delta = delta
    <3>1. op[c].lsn \in Nat /\ op[c].index \in Nat /\ op[c].wiped \in Nat
      BY <1>7 DEF Ops
    <3>2. delta \in Delta
      BY DeltaFacts, Zenon
    <3> QED BY <2>4, <3>1, <3>2, Zenon DEF Ops
  <2>6. Log(segs, buf)' /\ AckedIsLogged' /\ segs'[1].first = segs[1].first
    BY <2>2, SameLog, Zenon
  <2>7. OpsInv'
    <3>1. "batch" \in {"idle", "batch"} \cup Logged /\ "batch" \notin Logged
      BY DEF Logged
    <3>2. Len(hist') \in Nat /\ Len(hist') >= Len(hist)
      BY <1>5, <2>2 DEF histVars
    <3> QED BY <1>1, <1>5, <2>2, <2>3, <2>5, <3>1, <3>2, OpsStep, Zenon
  <2>8. StoreTypes'
    BY <1>2, <2>2, Zenon DEF StoreTypes, logVars
  <2> QED BY <1>3, <2>2, <2>6, <2>7, <2>8, Zenon DEF LogInv
<1>13. CASE FlushAll(c)
  <2>1. /\ Journal(c, Empty) /\ Goto(c, "wipe")
        /\ UNCHANGED <<mem, lock, now, segs, snap, saver, saves, crashes, mode, acked>>
    BY <1>13, Zenon DEF FlushAll, storeVars, snapVars
  <2>2. Log(segs, buf)' /\ AckedIsLogged' /\ OpsInv' /\ nextLSN' <= MaxLSN + 1
    BY <1>8, <2>1, DeltaFacts, JournalStep, Zenon
  <2>3. StoreTypes'
    BY <1>2, <2>1, <2>2, Zenon DEF StoreTypes
  <2> QED BY <1>3, <2>1, <2>2, <2>3, Zenon DEF LogInv
<1>14. CASE LockShard(c)
  <2>1. /\ lock' = [lock EXCEPT ![NextShard(c)] = c]
        /\ UNCHANGED <<mem, now, logVars, pc, op, snap, saver, saves, crashes, mode, histVars>>
    BY <1>14, Zenon DEF LockShard, snapVars
  <2>2. Log(segs, buf)' /\ AckedIsLogged' /\ segs'[1].first = segs[1].first
    BY <2>1, SameLog, Zenon
  <2>3. OpsInv' /\ StoreTypes'
    BY <1>1, <1>2, <2>1, Zenon DEF OpsInv, StoreTypes, logVars, histVars
  <2> QED BY <1>3, <2>1, <2>2, <2>3, Zenon DEF LogInv
<1>15. CASE JournalBatch(c)
  <2>1. /\ pc[c] = "batch" /\ Journal(c, op[c].delta) /\ Goto(c, "apply")
        /\ UNCHANGED <<mem, lock, now, segs, snap, saver, saves, crashes, mode, acked>>
    BY <1>15, Zenon DEF JournalBatch, storeVars, snapVars
  <2>2. op[c].delta \in Delta
    BY <1>1, <2>1, DeltaFacts, Zenon DEF OpsInv
  <2>3. Log(segs, buf)' /\ AckedIsLogged' /\ OpsInv' /\ nextLSN' <= MaxLSN + 1
    BY <1>8, <2>1, <2>2, JournalStep, Zenon
  <2>4. StoreTypes'
    BY <1>2, <2>1, <2>3, Zenon DEF StoreTypes
  <2> QED BY <1>3, <2>1, <2>3, <2>4, Zenon DEF LogInv
<1>16. CASE Apply(c)
  <2>1. /\ pc[c] = "apply" /\ mem' = Overlay(mem, op[c].delta)
        /\ lock' = [x \in Shards |-> IF lock[x] = c THEN Nobody ELSE lock[x]]
        /\ pc' = [pc EXCEPT ![c] = "await"]
        /\ UNCHANGED <<now, logVars, op, snap, saver, saves, crashes, mode, histVars>>
    BY <1>16, Zenon DEF Apply, snapVars, Goto
  <2>2. Log(segs, buf)' /\ AckedIsLogged' /\ segs'[1].first = segs[1].first
    BY <2>1, SameLog, Zenon
  <2>3. op[c].delta \in Delta
    BY <1>7 DEF Ops
  <2>4. mem' \in [Keys -> Value]
    BY <1>2, <2>1, <2>3, DeltaFacts, Zenon DEF Overlay
  <2>5. StoreTypes'
    BY <1>2, <2>1, <2>4, Zenon DEF StoreTypes, logVars
  <2>6. OpsInv'
    <3>1. "await" \in {"idle", "batch"} \cup Logged /\ "await" # "batch" /\ pc[c] \in Logged
      BY <2>1, Zenon DEF Logged
    <3>2. Len(hist') \in Nat /\ Len(hist') >= Len(hist)
      <4>1. hist' = hist
        BY <2>1, Zenon DEF histVars
      <4> QED BY <1>5, <4>1
    <3>3. op[c].lsn \in 1 .. Len(hist') /\ op[c].index = op[c].lsn
      BY <1>1, <2>1, <3>1, Zenon DEF OpsInv, histVars
    <3>4. op' = [op EXCEPT ![c] = op[c]]
      BY <1>7, <2>1, Zenon
    <3> QED BY <1>1, <1>5, <1>7, <2>1, <3>1, <3>2, <3>3, <3>4, OpsStep, Zenon
  <2> QED BY <1>3, <2>1, <2>2, <2>5, <2>6, Zenon DEF LogInv
<1>17. CASE Wipe(c)
  <2> DEFINE x == op[c].wiped + 1
             w == IF x + 1 \in Shards THEN "wipe" ELSE "await"
  <2>1. /\ pc[c] = "wipe" /\ mem' = [k \in Keys |-> IF ShardOf[k] = x THEN Absent ELSE mem[k]]
        /\ op' = [op EXCEPT ![c].wiped = x]
        /\ UNCHANGED <<lock, now, logVars, snap, saver, saves, crashes, mode, histVars>>
        /\ IF x + 1 \in Shards THEN pc' = pc ELSE pc' = [pc EXCEPT ![c] = "await"]
    BY <1>17, Zenon DEF Wipe, snapVars, Goto
  <2>2. pc' = [pc EXCEPT ![c] = w]
    BY <1>6, <2>1, Zenon
  <2> DEFINE o == [op[c] EXCEPT !.wiped = x]
  <2>3. op' = [op EXCEPT ![c] = o]
    BY <2>1, Zenon
  <2>4. o = [delta |-> op[c].delta, lsn |-> op[c].lsn, index |-> op[c].index, wiped |-> x]
    BY <1>7, OpExcept, Zenon
  <2> HIDE DEF o
  <2>5. o \in Ops /\ o.lsn = op[c].lsn /\ o.index = op[c].index
    <3>1. /\ op[c].lsn \in Nat /\ op[c].index \in Nat /\ op[c].wiped \in Nat
          /\ op[c].delta \in Delta
      BY <1>7 DEF Ops
    <3> QED BY <2>4, <3>1 DEF Ops
  <2>6. Log(segs, buf)' /\ AckedIsLogged' /\ segs'[1].first = segs[1].first
    BY <2>1, SameLog, Zenon
  <2>7. OpsInv'
    <3>1. w \in {"idle", "batch"} \cup Logged /\ w # "batch" /\ pc[c] \in Logged
      BY <2>1 DEF Logged
    <3>2. Len(hist') \in Nat /\ Len(hist') >= Len(hist)
      BY <1>5, <2>1 DEF histVars
    <3>3. op[c].lsn \in 1 .. Len(hist') /\ op[c].index = op[c].lsn
      BY <1>1, <2>1, <3>1, Zenon DEF OpsInv, histVars
    <3> HIDE DEF w
    <3> QED BY <1>1, <1>5, <2>2, <2>3, <2>5, <3>1, <3>2, <3>3, OpsStep, Zenon
  <2>8. mem' \in [Keys -> Value]
    BY <1>2, <2>1, Zenon DEF Value
  <2>9. StoreTypes'
    BY <1>2, <2>1, <2>8, Zenon DEF StoreTypes, logVars
  <2> QED BY <1>3, <2>1, <2>6, <2>7, <2>9, Zenon DEF LogInv
<1>18. CASE Reply(c)
  <2>1. Log(segs, buf)' /\ AckedIsLogged' /\ OpsInv' /\ segs'[1].first = segs[1].first
    BY <1>18, ReplyStep
  <2>2. UNCHANGED <<mem, lock, now, nextLSN, snap, saver, saves, crashes, mode>>
    BY <1>18, Zenon DEF Reply, storeVars, snapVars
  <2>3. StoreTypes'
    BY <1>2, <2>2, Zenon DEF StoreTypes
  <2> QED BY <1>3, <2>1, <2>2, <2>3, Zenon DEF LogInv
<1> QED BY <1>9, <1>10, <1>11, <1>12, <1>13, <1>14, <1>15, <1>16, <1>17, <1>18, Zenon

\* The steps of the store and the log that no client takes.
LEMMA BackgroundStep ==
  ASSUME LogInv, (\E k \in Keys : Reclaim(k)) \/ Tick \/ FlushLog \/ SyncLog
  PROVE  LogInv' /\ UNCHANGED <<crashes, mode, snap, saver, saves>>
<1>1. Log(segs, buf) /\ AckedIsLogged /\ OpsInv /\ NothingTrimmed /\ StoreTypes
  BY DEF LogInv
<1>2. /\ mem \in [Keys -> Value] /\ lock \in [Shards -> Clients \cup {Nobody}]
      /\ now \in 0 .. MaxNow /\ nextLSN <= MaxLSN + 1 /\ saves \in Nat
  BY <1>1 DEF StoreTypes
<1>3. ASSUME snap' = snap, saver' = saver, saves' = saves, segs'[1].first = segs[1].first
      PROVE  NothingTrimmed'
  BY <1>1, <1>3, Zenon DEF NothingTrimmed
<1>4. CASE \E k \in Keys : Reclaim(k)
  <2>1. PICK k \in Keys : Reclaim(k)
    BY <1>4
  <2>2. /\ mem' = [mem EXCEPT ![k] = Absent]
        /\ UNCHANGED <<lock, now, logVars, pc, op, snap, saver, saves, crashes, mode, histVars>>
    BY <2>1, Zenon DEF Reclaim, snapVars
  <2>3. Log(segs, buf)' /\ AckedIsLogged' /\ segs'[1].first = segs[1].first
    BY <2>2, SameLog, Zenon
  <2>4. OpsInv' /\ StoreTypes'
    BY <1>1, <1>2, <2>2, Zenon DEF OpsInv, StoreTypes, logVars, histVars, Value
  <2> QED BY <1>3, <2>2, <2>3, <2>4, Zenon DEF LogInv
<1>5. CASE Tick
  <2>1. now < MaxNow /\ now' = now + 1
        /\ UNCHANGED <<mem, lock, logVars, pc, op, snap, saver, saves, crashes, mode, histVars>>
    BY <1>5, Zenon DEF Tick, snapVars, storeVars
  <2>2. Log(segs, buf)' /\ AckedIsLogged' /\ segs'[1].first = segs[1].first
    BY <2>1, SameLog, Zenon
  <2>3. now' \in 0 .. MaxNow
    BY <1>2, <2>1, DurableAssumption
  <2>4. OpsInv' /\ StoreTypes'
    BY <1>1, <1>2, <2>1, <2>3, Zenon DEF OpsInv, StoreTypes, logVars, histVars
  <2> QED BY <1>3, <2>1, <2>2, <2>4, Zenon DEF LogInv
<1>6. CASE FlushLog \/ SyncLog
  <2>1. /\ segs' = AfterFlush \/ segs' = Synced(AfterFlush)
        /\ buf' = <<>>
        /\ UNCHANGED <<mem, lock, now, nextLSN, pc, op, snap, saver, saves, crashes, mode, hist, acked>>
    BY <1>6, Zenon DEF FlushLog, SyncLog, snapVars, storeVars, histVars
  <2>2. Log(segs, buf)' /\ AckedIsLogged' /\ segs'[1].first = segs[1].first
    BY <2>1, FlushStep, Zenon DEF AckedIsLogged
  <2>3. OpsInv' /\ StoreTypes'
    BY <1>1, <1>2, <2>1, Zenon DEF OpsInv, StoreTypes
  <2> QED BY <1>3, <2>1, <2>2, <2>3, Zenon DEF LogInv
<1> QED BY <1>4, <1>5, <1>6

\* A snapshot's steps.  Only its last one, the trim, touches the log.
LEMMA SaveStep ==
  ASSUME LogInv,
         SaveBegin \/ SaveCount \/ SaveShard \/ SaveRename \/ SaveSyncDir \/ SaveTrim \/ SaveFails
  PROVE  LogInv' /\ UNCHANGED <<crashes, mode>>
<1>1. Log(segs, buf) /\ AckedIsLogged /\ OpsInv /\ NothingTrimmed /\ StoreTypes
  BY DEF LogInv
<1>2. UNCHANGED <<mem, lock, now, buf, nextLSN, pc, op, crashes, mode, hist, acked>>
  BY Zenon DEF SaveBegin, SaveCount, SaveShard, SaveRename, SaveSyncDir, SaveTrim, SaveFails,
               storeVars, logVars, histVars
<1>3. saves \in Nat
  BY <1>1 DEF StoreTypes
<1>4. saves' \in Nat /\ saves' # 0
  <2>1. CASE SaveBegin
    BY <1>3, <2>1 DEF SaveBegin
  <2>2. CASE SaveCount \/ SaveShard \/ SaveRename \/ SaveSyncDir \/ SaveTrim \/ SaveFails
    <3>1. saves' = saves
      BY <2>2, Zenon DEF SaveCount, SaveShard, SaveRename, SaveSyncDir, SaveTrim, SaveFails
    <3>2. saver.at # "idle"
      BY <2>2 DEF SaveCount, SaveShard, SaveRename, SaveSyncDir, SaveTrim, SaveFails
    <3>3. saves # 0
      BY <1>1, <3>2, Zenon DEF NothingTrimmed
    <3> QED BY <1>3, <3>1, <3>3, Zenon
  <2> QED BY <2>1, <2>2
<1>5. NothingTrimmed' /\ OpsInv' /\ StoreTypes'
  BY <1>1, <1>2, <1>4, Zenon DEF NothingTrimmed, OpsInv, StoreTypes
<1>6. CASE segs' = segs
  <2>1. Log(segs, buf)' /\ AckedIsLogged'
    BY <1>2, <1>6, SameLog, Zenon DEF logVars, histVars
  <2> QED BY <1>2, <1>5, <2>1, Zenon DEF LogInv
<1>7. CASE SaveTrim
  <2>1. PICK n \in 0 .. Len(segs) - 1 : segs' = SubSeq(segs, n + 1, Len(segs))
    BY <1>7, Zenon DEF SaveTrim
  <2>2. Log(segs', buf) /\ End(segs') = End(segs) /\ StableEnd(segs') = StableEnd(segs)
    BY <1>1, <2>1, TrimmedIsLog, Zenon
  <2>3. Log(segs, buf)'
    BY <1>2, <2>2, Zenon DEF Log, Chained, End, InPlace
  <2>4. AckedIsLogged'
    <3>1. End(segs)' = End(segs) /\ StableEnd(segs)' = StableEnd(segs)
      BY <2>2, Zenon DEF End, StableEnd
    <3> QED BY <1>1, <1>2, <3>1, Zenon DEF AckedIsLogged
  <2> QED BY <1>2, <1>5, <2>3, <2>4, Zenon DEF LogInv
<1>8. segs' = segs \/ SaveTrim
  BY Zenon DEF SaveBegin, SaveCount, SaveShard, SaveRename, SaveSyncDir, SaveFails, logVars
<1> QED BY <1>6, <1>7, <1>8

\* A fresh data directory.
LEMMA FreshLog == Init => FirstLife
<1> SUFFICES ASSUME Init PROVE FirstLife
  OBVIOUS
<1>1. /\ mem = Empty /\ lock = [s \in Shards |-> Nobody] /\ now = 0
      /\ buf = <<>> /\ nextLSN = 1 /\ segs = <<NewSegment(1)>>
      /\ pc = [c \in Clients |-> "idle"] /\ op = [c \in Clients |-> NoOp]
      /\ snap = [lsn |-> 0, image |-> Empty] /\ saver = NoSave /\ saves = 0
      /\ crashes = 0 /\ mode = "up" /\ hist = <<>> /\ acked = {}
  BY Zenon DEF Init
<1>2. Len(segs) = 1 /\ segs[1] = [first |-> 1, recs |-> <<>>, stable |-> 0]
  BY <1>1 DEF NewSegment
<1> DEFINE g == [first |-> 1, recs |-> <<>>, stable |-> 0]
<1>3. g \in Segment /\ g.first = 1 /\ g.recs = <<>> /\ g.stable = 0 /\ Len(g.recs) = 0
  BY DEF Segment
<1> HIDE DEF g
<1>4. segs \in Seq(Segment)
  <2>1. segs = <<g>>
    BY <1>1 DEF NewSegment, g
  <2> QED BY <1>3, <2>1
<1>5. /\ \A i \in 1 .. Len(segs) : i = 1 /\ segs[i] = g
      /\ Len(segs) >= 1 /\ segs[Len(segs)] = g /\ segs[1] = g
  BY <1>2 DEF g
<1>6. End(segs) = 1
  BY <1>3, <1>5 DEF End
<1>7. Chained(segs)
  <2>1. \A i \in 1 .. Len(segs) : segs[i].first >= 1
    BY <1>3, <1>5
  <2>2. \A l \in segs[1].first .. End(segs) - 1 : FALSE
    BY <1>3, <1>5, <1>6, SMTT(60)
  <2>3. \A i, j \in 1 .. Len(segs) : ~(i < j)
    BY <1>2
  <2>4. \A i \in 1 .. Len(segs) - 1 : FALSE
    BY <1>2
  <2> QED BY <1>4, <1>5, <2>1, <2>2, <2>3, <2>4, Zenon DEF Chained
<1>8. Log(segs, buf)
  <2>1. \A i \in 1 .. Len(segs) :
           /\ segs[i].stable <= Len(segs[i].recs)
           /\ segs[i].stable = Len(segs[i].recs)
           /\ \A j \in 1 .. Len(segs[i].recs) : FALSE
    BY <1>3, <1>5
  <2>2. buf \in Seq(Rec) /\ hist \in Seq(Delta) /\ nextLSN = Len(hist) + 1 /\ Len(buf) = 0
        /\ \A j \in 1 .. Len(buf) : FALSE
    BY <1>1
  <2>3. End(segs) + Len(buf) = nextLSN
    BY <1>1, <1>6, <2>2
  <2> QED BY <1>7, <2>1, <2>2, <2>3, Zenon DEF Log
<1>9. OpsInv
  <2>1. NoOp \in [delta : Delta, lsn : Nat, index : Nat, wiped : Nat]
    BY DeltaFacts DEF NoOp
  <2>2. "idle" \notin Logged /\ "idle" # "batch" /\ "idle" \in {"idle", "batch"} \cup Logged
    BY DEF Logged
  <2> QED BY <1>1, <2>1, <2>2, Zenon DEF OpsInv
<1>10. NothingTrimmed
  <2>1. saver.at = "idle"
    BY <1>1 DEF NoSave
  <2> QED BY <1>1, <1>3, <1>5, <2>1, Zenon DEF NothingTrimmed
<1>11. StoreTypes
  <2>1. now \in 0 .. MaxNow /\ nextLSN <= MaxLSN + 1 /\ saves \in Nat
    BY <1>1, DurableAssumption
  <2> QED BY <1>1, <2>1, Zenon DEF StoreTypes, Empty, Value
<1>12. AckedIsLogged
  BY <1>1, Zenon DEF AckedIsLogged
<1>13. crashes \in Nat
  BY <1>1
<1> QED BY <1>1, <1>8, <1>9, <1>10, <1>11, <1>12, <1>13, Zenon DEF FirstLife, LogInv

\* Every step of the system keeps the invariant of the first incarnation.
LEMMA FirstLifeStep == FirstLife /\ [Next]_vars => FirstLife'
<1> SUFFICES ASSUME FirstLife, [Next]_vars PROVE FirstLife'
  OBVIOUS
<1>1. crashes \in Nat
  BY DEF FirstLife
<1>2. ASSUME LogInv', mode' = "up", crashes' = crashes
      PROVE  FirstLife'
  BY <1>1, <1>2, Zenon DEF FirstLife
<1>3. ASSUME crashes' = crashes, crashes # 0
      PROVE  FirstLife'
  BY <1>1, <1>3, Zenon DEF FirstLife
<1>4. ASSUME crashes' = crashes + 1
      PROVE  FirstLife'
  BY <1>1, <1>4 DEF FirstLife
<1>5. CASE Kill \/ PowerCut \/ Shutdown
  <2>1. crashes' = crashes + 1
    BY <1>5 DEF Kill, PowerCut, Shutdown, Down
  <2> QED BY <1>4, <2>1, SMTT(60)
<1>6. CASE Recover
  <2>1. mode = "down" /\ crashes' = crashes
    BY <1>6, Zenon DEF Recover
  <2>2. crashes # 0
    BY <2>1 DEF FirstLife
  <2> QED BY <1>3, <2>1, <2>2
<1>7. CASE UNCHANGED vars
  <2>1. /\ UNCHANGED <<mem, lock, now, pc, op, snap, saver, saves, crashes, mode>>
        /\ UNCHANGED <<logVars, histVars>>
    BY <1>7, Zenon DEF vars, snapVars, storeVars
  <2>2. ASSUME crashes = 0 PROVE LogInv' /\ mode' = "up"
    <3>1. mode = "up" /\ LogInv
      BY <2>2 DEF FirstLife
    <3>2. Log(segs, buf)' /\ AckedIsLogged' /\ segs'[1].first = segs[1].first
      BY <2>1, <3>1, SameLog, Zenon
    <3>3. OpsInv /\ NothingTrimmed /\ StoreTypes
      BY <3>1 DEF LogInv
    <3>4. OpsInv' /\ NothingTrimmed' /\ StoreTypes'
      BY <2>1, <3>2, <3>3, Zenon DEF OpsInv, NothingTrimmed, StoreTypes, logVars, histVars
    <3> QED BY <2>1, <3>1, <3>2, <3>4, Zenon DEF LogInv
  <2> QED BY <1>2, <1>3, <2>1, <2>2, Zenon
<1> DEFINE Command ==
      \E c \in Clients :
          \/ \E k \in Keys, r \in Records : Put(c, k, r)
          \/ \E k \in Keys : Delete(c, k) \/ Update(c, k)
          \/ \E delta \in Batches : BeginBatch(c, delta)
          \/ FlushAll(c) \/ LockShard(c) \/ JournalBatch(c) \/ Apply(c) \/ Wipe(c) \/ Reply(c)
<1> DEFINE Background == (\E k \in Keys : Reclaim(k)) \/ Tick \/ FlushLog \/ SyncLog
<1> DEFINE Save == \/ SaveBegin \/ SaveCount \/ SaveShard \/ SaveRename
                   \/ SaveSyncDir \/ SaveTrim \/ SaveFails
<1>8. CASE Command \/ Background \/ Save
  <2>1. CASE crashes = 0
    <3>1. mode = "up" /\ LogInv
      BY <2>1 DEF FirstLife
    <3>2. LogInv' /\ UNCHANGED <<crashes, mode>>
      <4>1. CASE Command
        BY <3>1, <4>1, CommandStep, Zenon
      <4>2. CASE Background
        BY <3>1, <4>2, BackgroundStep, Zenon
      <4>3. CASE Save
        BY <3>1, <4>3, SaveStep
      <4> QED BY <1>8, <4>1, <4>2, <4>3
    <3> QED BY <1>2, <3>1, <3>2, Zenon
  <2>2. CASE crashes # 0
    <3>1. crashes' = crashes
      <4>1. CASE Command
        BY <4>1, Zenon DEF Put, Delete, Update, BeginBatch, FlushAll, LockShard, JournalBatch,
                           Apply, Wipe, Reply
      <4>2. CASE Background
        BY <4>2, Zenon DEF Reclaim, Tick, FlushLog, SyncLog
      <4>3. CASE Save
        BY <4>3, Zenon DEF SaveBegin, SaveCount, SaveShard, SaveRename, SaveSyncDir, SaveTrim,
                           SaveFails
      <4> QED BY <1>8, <4>1, <4>2, <4>3
    <3> QED BY <1>3, <2>2, <3>1
  <2> QED BY <2>1, <2>2
<1>9. Next => \/ Kill \/ PowerCut \/ Shutdown \/ Recover
              \/ Command \/ Background \/ Save
  BY Zenon DEF Next, ClientStep
<1> HIDE DEF Command, Background, Save
<1> QED BY <1>5, <1>6, <1>7, <1>8, <1>9, Zenon

\* Until the first crash the files and the buffer hold the history.
THEOREM FirstLifeHolds == Spec => []FirstLife
<1>1. Init => FirstLife
  BY FreshLog
<1>2. FirstLife /\ [Next]_vars => FirstLife'
  BY FirstLifeStep
<1> QED BY <1>1, <1>2, PTL DEF Spec

-----------------------------------------------------------------------------
(* What the first incarnation promises. *)

\* Before any snapshot, recovery from a log image rebuilds a prefix.
LEMMA ImageIsPrefix ==
  ASSUME NEW ss, NEW n, Image(ss, n), ss[1].first = 1, snap = [lsn |-> 0, image |-> Empty]
  PROVE  ~Refuses(ss) /\ n \in Matches(Recovered(ss, snap), Keys)
<1>1. snap.lsn = 0 /\ snap.image = Empty
  OBVIOUS
<1>2. snap.lsn \in Nat /\ ss[1].first <= snap.lsn + 1 /\ snap.lsn + 1 = 1
  BY <1>1
<1>3. ASSUME NEW k \in Keys PROVE Recovered(ss, snap)[k] = After(n)[k]
  <2>1. Recovered(ss, snap)[k] = Rebuilt(snap, n, k)
    <3>1. Meets(ss, snap)
      BY <1>2 DEF Meets
    <3> QED BY <3>1, ImageRecovers, Zenon
  <2>2. snap.image[k] = Absent
    BY <1>1, Zenon DEF Empty
  <2> QED BY <1>2, <2>1, <2>2, Zenon DEF After, Rebuilt
<1>4. n \in 0 .. Len(hist)
  BY DEF Image
<1>5. \A k \in Keys : View(Recovered(ss, snap), now)[k] = View(After(n), now)[k]
  BY <1>3, Zenon DEF View
<1>6. ~Refuses(ss)
  BY ImageIsRead
<1> QED BY <1>4, <1>5, <1>6, Zenon DEF Matches

\* The last answered command is no later than a bound on all of them.
LEMMA AckedBound ==
  ASSUME LogInv, NEW n \in Nat, NEW K, \A a \in acked : a <= n
  PROVE  LastAcked(K) <= n /\ LastAcked(K) \in Nat
<1> DEFINE S == {0} \cup {i \in acked : DOMAIN hist[i] \cap K # {}}
<1>1. hist \in Seq(Delta) /\ \A a \in acked : a \in 1 .. Len(hist)
  BY Zenon DEF LogInv, Log, AckedIsLogged
<1>2. S \subseteq 0 .. Len(hist) /\ S # {} /\ Len(hist) \in Nat
  BY <1>1
<1>3. \A x \in S : x <= n /\ x \in Nat
  BY <1>1
<1>4. Max(S) \in S
  BY <1>2, GreatestOf, Zenon
<1> QED BY <1>3, <1>4, Zenon DEF LastAcked

\* The ends of the log are numbers.
LEMMA EndFacts ==
  ASSUME LogInv
  PROVE  End(segs) \in Nat /\ StableEnd(segs) \in Nat /\ End(segs) >= 1 /\ End(segs) - 1 \in Nat
         /\ \A a \in acked : a \in Nat /\ a < End(segs) /\ (Policy = "always" => a < StableEnd(segs))
<1> DEFINE g == segs[Len(segs)]
<1>1. Chained(segs)
  BY Zenon DEF LogInv, Log
<1>2. g.first \in Nat /\ g.first >= 1 /\ g.stable \in Nat /\ Len(g.recs) \in Nat
  BY <1>1, ChainFacts, Zenon
<1>3. End(segs) = g.first + Len(g.recs) /\ StableEnd(segs) = g.first + g.stable
  BY DEF End, StableEnd
<1>4. \A a \in acked : a \in 1 .. Len(hist) /\ a < End(segs) /\ (Policy = "always" => a < StableEnd(segs))
  BY Zenon DEF LogInv, AckedIsLogged
<1> HIDE DEF g
<1>5. \A a \in acked : a \in Nat
  BY <1>4
<1>6. \A f, z, t \in Nat : f >= 1 => f + z \in Nat /\ f + t \in Nat /\ f + z >= 1 /\ f + z - 1 \in Nat
  OBVIOUS
<1>7. /\ g.first + Len(g.recs) \in Nat /\ g.first + g.stable \in Nat
      /\ g.first + Len(g.recs) >= 1 /\ g.first + Len(g.recs) - 1 \in Nat
  BY <1>2, <1>6, Zenon
<1>8. End(segs) \in Nat /\ StableEnd(segs) \in Nat /\ End(segs) >= 1 /\ End(segs) - 1 \in Nat
  BY <1>3, <1>7
<1> QED BY <1>4, <1>5, <1>8, Zenon

\* The types of the first incarnation's state; later ones are checked by the
\* runs that crash.
THEOREM TypesHold == Spec => [](crashes = 0 => TypeOK)
<1>1. ASSUME FirstLife, crashes = 0 PROVE TypeOK
  <2>1. mode = "up" /\ LogInv
    BY <1>1 DEF FirstLife
  <2>2. Log(segs, buf) /\ AckedIsLogged /\ OpsInv /\ StoreTypes
    BY <2>1 DEF LogInv
  <2>3. /\ Chained(segs) /\ hist \in Seq(Delta) /\ nextLSN = Len(hist) + 1
        /\ \A i \in 1 .. Len(segs) : segs[i].stable <= Len(segs[i].recs)
    BY <2>2, Zenon DEF Log
  <2>4. \A i \in 1 .. Len(segs) : segs[i].stable \in Nat /\ Len(segs[i].recs) \in Nat
    BY <2>3, ChainFacts, Zenon
  <2>5. \A i \in 1 .. Len(segs) : segs[i].stable \in 0 .. Len(segs[i].recs)
    <3>1. \A a, b \in Nat : a <= b => a \in 0 .. b
      OBVIOUS
    <3> QED BY <2>3, <2>4, <3>1, Zenon
  <2>6. nextLSN <= MaxLSN + 1
    BY <2>2 DEF StoreTypes
  <2>7. nextLSN \in 1 .. MaxLSN + 1
    BY <2>3, <2>6, DurableAssumption
  <2>8. pc \in [Clients -> {"idle", "batch", "apply", "wipe", "await"}]
    <3>1. {"idle", "batch"} \cup Logged = {"idle", "batch", "apply", "wipe", "await"}
      BY DEF Logged
    <3> QED BY <2>2, <3>1, Zenon DEF OpsInv
  <2>9. acked \subseteq 1 .. Len(hist)
    BY <2>2, Zenon DEF AckedIsLogged
  <2>10. mode \in {"up", "down", "refused"}
    BY <2>1
  <2> QED BY <2>2, <2>5, <2>7, <2>8, <2>9, <2>10, Zenon DEF TypeOK, StoreTypes, Value
<1> QED BY <1>1, FirstLifeHolds, PTL

\* Before any snapshot, a kill at any instant leaves a log from which
\* recovery starts and rebuilds the map after a prefix of the history that
\* holds every command that was answered.
THEOREM PrefixSurvivesKillHolds == Spec => [](crashes = 0 /\ saves = 0 => PrefixSurvivesKill)
<1>1. ASSUME FirstLife, crashes = 0, saves = 0 PROVE PrefixSurvivesKill
  <2>1. LogInv
    BY <1>1 DEF FirstLife
  <2>2. Log(segs, buf) /\ snap = [lsn |-> 0, image |-> Empty] /\ segs[1].first = 1
    BY <1>1, <2>1, Zenon DEF LogInv, NothingTrimmed
  <2> DEFINE n == End(segs) - 1
  <2>3. n \in Nat /\ \A a \in acked : a <= n
    BY <2>1, EndFacts, SMTT(60)
  <2>4. Image(segs, n)
    BY <2>2, LogIsImage
  <2> HIDE DEF n
  <2>5. ~Refuses(segs) /\ n \in Matches(Recovered(segs, snap), Keys)
    BY <2>2, <2>4, ImageIsPrefix, Zenon
  <2>6. n >= LastAcked(Keys)
    BY <2>1, <2>3, AckedBound
  <2> QED BY <2>5, <2>6, Zenon DEF PrefixSurvivesKill
<1> QED BY <1>1, FirstLifeHolds, PTL

\* The same for a power cut, which keeps of every segment file at least what
\* was fsynced: under "always" nothing that was answered is lost.
THEOREM PrefixSurvivesPowerCutHolds ==
  Spec => [](crashes = 0 /\ saves = 0 => PrefixSurvivesPowerCut)
<1>1. ASSUME FirstLife, crashes = 0, saves = 0 PROVE PrefixSurvivesPowerCut
  <2>1. LogInv
    BY <1>1 DEF FirstLife
  <2>2. Log(segs, buf) /\ snap = [lsn |-> 0, image |-> Empty] /\ segs[1].first = 1
    BY <1>1, <2>1, Zenon DEF LogInv, NothingTrimmed
  <2>3. ASSUME NEW ss \in PowerCutImages
        PROVE  /\ ~Refuses(ss)
               /\ \E n \in Matches(Recovered(ss, snap), Keys) :
                     Policy = "always" => n >= LastAcked(Keys)
    <3>1. ss[1].first = 1 /\ \E n \in Nat : n >= StableEnd(segs) - 1 /\ Image(ss, n)
      BY <2>2, PowerCutIsImage, Zenon
    <3>2. PICK n \in Nat : n >= StableEnd(segs) - 1 /\ Image(ss, n)
      BY <3>1
    <3>3. ~Refuses(ss) /\ n \in Matches(Recovered(ss, snap), Keys)
      BY <2>2, <3>1, <3>2, ImageIsPrefix, Zenon
    <3>4. ASSUME Policy = "always" PROVE n >= LastAcked(Keys)
      <4>1. \A a \in acked : a <= n
        BY <2>1, <3>2, <3>4, EndFacts
      <4> QED BY <2>1, <4>1, AckedBound
    <3> QED BY <3>3, <3>4, Zenon
  <2> QED BY <2>3, Zenon DEF PrefixSurvivesPowerCut
<1> QED BY <1>1, FirstLifeHolds, PTL
=============================================================================
