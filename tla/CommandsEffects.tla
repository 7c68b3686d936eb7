--------------------------- MODULE CommandsEffects --------------------------
(***************************************************************************)
(* The commands' inductive invariant, and what each action does to the     *)
(* client that takes it, for any number of clients, keys and stripes.      *)
(* First the calls and the handlers as operators; then the invariant; then *)
(* one lemma per action, and that every action keeps the invariant's base. *)
(* CommandsProofs goes on from here to the properties.                     *)
(***************************************************************************)
EXTENDS Commands, WellFoundedInduction, TLAPS

CmdFields == {"name", "keys", "val", "n", "opts", "at", "i", "rec", "got"}
CallFields == {"op", "at", "keys", "locks", "cur", "muts", "id", "start", "count"}
Names == OneUpdate \cup OneByOne \cup TwoKeys \cup Batches \cup WalkNames
           \cup {"setex", "flushall", "randomkey"}
Renaming == {"rename", "renamenx"}
Striped == {"put", "delete", "update", "multi"}

\* A command in progress.
Running(m) ==
  /\ DOMAIN m = CmdFields
  /\ m.name \in Names
  /\ m.keys \in Seq(Keys) /\ m.i \in Nat /\ m.at \in Int /\ m.rec.exp \in Int
  /\ m.name \in OneUpdate \cup {"setex"} => Len(m.keys) = 1
  /\ m.name \in TwoKeys => Len(m.keys) = 2 /\ m.i <= 3
  /\ m.name \in Renaming /\ m.i >= 2 => m.keys[1] # m.keys[2]
  /\ m.name \in OneByOne => m.i <= Len(m.keys)
  /\ m.name \in Batches => Len(m.keys) >= 1 /\ m.i <= Len(m.keys) + 1
  /\ m.name = "copy" => m.i <= 2
  /\ m.name = "keys" => m.i <= 1
  /\ m.name = "randomkey" => m.i <= 2

\* A call in progress, and where it may stand.
CallOK(x) ==
  /\ DOMAIN x = CallFields
  /\ x.keys \in Seq(Keys)
  /\ \/ x.op = "none" /\ x.at = "idle"
     \/ x.op = "get" /\ x.at = "read" /\ Len(x.keys) = 1
     \/ x.op = "scan" /\ x.at \in {"read", "resume"}
     \/ x.op = "flush" /\ x.at = "write"
     \/ x.op \in {"put", "delete", "multi"} /\ x.at \in {"lock", "write"}
     \/ x.op = "update" /\ x.at \in {"lock", "read", "write"} /\ Len(x.keys) = 1
  /\ x.at = "lock" => x.locks # {} /\ x.locks \subseteq StripesOf(x.keys)
  /\ x.op \in Striped => DOMAIN x.muts \subseteq Range(x.keys)
  /\ \A k \in DOMAIN x.muts : x.muts[k].exp \in Int

\* A call as a handler makes it.
Fresh(x) ==
  /\ CallOK(x) /\ x.op # "none"
  /\ x.op \in Striped => x.at = "lock" /\ x.locks = StripesOf(x.keys)

-----------------------------------------------------------------------------

\* A list of one key, and its stripe.
LEMMA Singles ==
  ASSUME NEW k \in Keys
  PROVE  /\ <<k>> \in Seq(Keys) /\ Len(<<k>>) = 1 /\ Range(<<k>>) = {k}
         /\ StripesOf(<<k>>) = {Stripe[k]}
  BY DEF Range, StripesOf

\* The stripes of keys are stripes, and the first of the keys is one of them.
LEMMA KeysFacts ==
  ASSUME NEW ks \in Seq(Keys)
  PROVE  StripesOf(ks) \subseteq Stripes /\ (Len(ks) >= 1 => ks[1] \in Range(ks) /\ ks[1] \in Keys)
<1>1. \A i \in DOMAIN ks : ks[i] \in Keys
  OBVIOUS
<1>2. Range(ks) \subseteq Keys
  BY <1>1 DEF Range
<1>3. StripesOf(ks) \subseteq Stripes
  BY <1>2 DEF StripesOf, Stripes
<1>4. Len(ks) >= 1 => 1 \in DOMAIN ks
  OBVIOUS
<1> QED BY <1>1, <1>3, <1>4 DEF Range

\* A map with one record (Put, and Update when its function writes).
LEMMA OnlyFacts ==
  ASSUME NEW k, NEW rec
  PROVE  DOMAIN Only(k, rec) = {k} /\ Only(k, rec)[k] = rec
  BY DEF Only

\* What the constructors of calls make.
LEMMA NoCallFacts ==
  /\ DOMAIN NoCall = CallFields /\ NoCall.op = "none" /\ NoCall.at = "idle"
  /\ NoCall.keys = <<>> /\ NoCall.muts = <<>>
  BY Zenon DEF NoCall, CallFields

\* Get begins with its read, with no lock.
LEMMA GetFacts ==
  ASSUME NEW k \in Keys
  PROVE  Fresh(Get(k)) /\ Get(k).op = "get" /\ Get(k).at = "read" /\ Get(k).keys = <<k>>
<1>1. /\ DOMAIN Get(k) = CallFields /\ Get(k).op = "get" /\ Get(k).at = "read"
      /\ Get(k).keys = <<k>> /\ Get(k).muts = <<>>
  BY Zenon DEF Get, NoCall, CallFields
<1>2. Get(k).keys \in Seq(Keys) /\ Len(Get(k).keys) = 1 /\ DOMAIN Get(k).muts = {}
  BY <1>1, Singles
<1> QED BY <1>1, <1>2 DEF Fresh, CallOK, Striped

\* What Put and Delete have in common: one key, its stripe still to be locked.
LEMMA FreshOne ==
  ASSUME NEW x, NEW k \in Keys, NEW rec, rec.exp \in Int, DOMAIN x = CallFields,
         x.op \in {"put", "delete"}, x.at = "lock",
         x.keys \in Seq(Keys), Range(x.keys) = {k}, x.locks = StripesOf(x.keys), x.locks # {},
         DOMAIN x.muts = {k}, x.muts[k] = rec
  PROVE  Fresh(x)
<1>1. CallOK(x)
  BY DEF CallOK
<1> QED BY <1>1 DEF Fresh, Striped

\* Put begins by locking the stripe of its key.
LEMMA PutFacts ==
  ASSUME NEW k \in Keys, NEW rec, rec.exp \in Int
  PROVE  /\ Fresh(Put(k, rec)) /\ Put(k, rec).op = "put" /\ Put(k, rec).at = "lock"
         /\ Put(k, rec).keys = <<k>> /\ Put(k, rec).muts = Only(k, rec)
<1>1. /\ DOMAIN Put(k, rec) = CallFields /\ Put(k, rec).op = "put" /\ Put(k, rec).at = "lock"
      /\ Put(k, rec).keys = <<k>> /\ Put(k, rec).muts = Only(k, rec)
      /\ Put(k, rec).locks = StripesOf(<<k>>)
  BY Zenon DEF Put, NoCall, CallFields
<1>2. /\ Put(k, rec).keys \in Seq(Keys) /\ Range(Put(k, rec).keys) = {k}
      /\ Put(k, rec).locks = StripesOf(Put(k, rec).keys) /\ Put(k, rec).locks = {Stripe[k]}
  BY <1>1, Singles, Zenon
<1>3. DOMAIN Put(k, rec).muts = {k} /\ Put(k, rec).muts[k] = rec
  BY <1>1 DEF Only
<1>4. Put(k, rec).locks # {}
  BY <1>2
<1> QED BY <1>1, <1>2, <1>3, <1>4, FreshOne, Zenon

\* So does Delete.
LEMMA DeleteFacts ==
  ASSUME NEW k \in Keys
  PROVE  /\ Fresh(Delete(k)) /\ Delete(k).op = "delete" /\ Delete(k).at = "lock"
         /\ Delete(k).keys = <<k>>
<1>1. /\ DOMAIN Delete(k) = CallFields /\ Delete(k).op = "delete" /\ Delete(k).at = "lock"
      /\ Delete(k).keys = <<k>> /\ Delete(k).muts = Only(k, Absent)
      /\ Delete(k).locks = StripesOf(<<k>>)
  BY Zenon DEF Delete, NoCall, CallFields
<1>2. Absent.exp \in Int
  BY DEF Absent
<1>3. /\ Delete(k).keys \in Seq(Keys) /\ Range(Delete(k).keys) = {k}
      /\ Delete(k).locks = StripesOf(Delete(k).keys) /\ Delete(k).locks = {Stripe[k]}
  BY <1>1, Singles, Zenon
<1>4. DOMAIN Delete(k).muts = {k} /\ Delete(k).muts[k] = Absent
  BY <1>1 DEF Only
<1>5. Delete(k).locks # {}
  BY <1>3, Zenon
<1> QED BY <1>1, <1>2, <1>3, <1>4, <1>5, FreshOne, Zenon

\* So does Update, which has nothing to write yet.
LEMMA UpdateFacts ==
  ASSUME NEW k \in Keys
  PROVE  /\ Fresh(Update(k)) /\ Update(k).op = "update" /\ Update(k).at = "lock"
         /\ Update(k).keys = <<k>>
<1>1. /\ DOMAIN Update(k) = CallFields /\ Update(k).op = "update" /\ Update(k).at = "lock"
      /\ Update(k).keys = <<k>> /\ Update(k).muts = <<>>
      /\ Update(k).locks = StripesOf(<<k>>)
  BY Zenon DEF Update, NoCall, CallFields
<1>2. /\ Update(k).keys \in Seq(Keys) /\ Len(Update(k).keys) = 1
      /\ Update(k).locks = StripesOf(Update(k).keys) /\ Update(k).locks = {Stripe[k]}
  BY <1>1, Singles, Zenon
<1>3. DOMAIN Update(k).muts = {}
  BY <1>1
<1> QED BY <1>1, <1>2, <1>3, Zenon DEF Fresh, CallOK, Striped

\* MultiWrite begins by locking the stripes of all its keys.
LEMMA MultiWriteFacts ==
  ASSUME NEW ks \in Seq(Keys), Len(ks) >= 1, NEW recs, DOMAIN recs = Range(ks),
         \A k \in Range(ks) : recs[k].exp \in Int
  PROVE  /\ Fresh(MultiWrite(ks, recs)) /\ MultiWrite(ks, recs).op = "multi"
         /\ MultiWrite(ks, recs).keys = ks
<1>1. /\ DOMAIN MultiWrite(ks, recs) = CallFields /\ MultiWrite(ks, recs).op = "multi"
      /\ MultiWrite(ks, recs).at = "lock" /\ MultiWrite(ks, recs).keys = ks
      /\ MultiWrite(ks, recs).muts = recs /\ MultiWrite(ks, recs).locks = StripesOf(ks)
  BY Zenon DEF MultiWrite, NoCall, CallFields
<1>2. Stripe[ks[1]] \in StripesOf(ks)
  BY DEF Range, StripesOf
<1> QED BY <1>1, <1>2 DEF Fresh, CallOK, Striped

\* FlushAll locks nothing.
LEMMA FlushAllFacts ==
  Fresh(FlushAll) /\ FlushAll.op = "flush"
<1>1. /\ DOMAIN FlushAll = CallFields /\ FlushAll.op = "flush" /\ FlushAll.at = "write"
      /\ FlushAll.keys = <<>> /\ FlushAll.muts = [j \in Keys |-> Absent]
  BY Zenon DEF FlushAll, NoCall, CallFields
<1> QED BY <1>1 DEF Fresh, CallOK, Striped, Absent

\* Scan begins with the cursor it is given, or with the first page.
LEMMA ScanFacts ==
  ASSUME NEW id, NEW count
  PROVE  /\ Fresh(Scan(id, count)) /\ Scan(id, count).op = "scan"
         /\ Scan(id, count).at = (IF id = 0 THEN "read" ELSE "resume")
         /\ Scan(id, count).id = id /\ Scan(id, count).start = 0
<1>1. /\ DOMAIN Scan(id, count) = CallFields /\ Scan(id, count).op = "scan"
      /\ Scan(id, count).at = (IF id = 0 THEN "read" ELSE "resume")
      /\ Scan(id, count).id = id /\ Scan(id, count).start = 0
      /\ Scan(id, count).keys = <<>> /\ Scan(id, count).muts = <<>>
  BY Zenon DEF Scan, NoCall, CallFields
<1>2. Scan(id, count).keys \in Seq(Keys) /\ DOMAIN Scan(id, count).muts = {}
  BY <1>1
<1> QED BY <1>1, <1>2 DEF Fresh, CallOK, Striped

\* Scan with a cursor takes the cursor first.
LEMMA ResumeFacts ==
  ASSUME NEW id, NEW count, id # 0
  PROVE  Scan(id, count).id = id /\ Scan(id, count).at = "resume"
  BY ScanFacts

-----------------------------------------------------------------------------
(* What a handler does next. *)

\* How far a command is fixes the call it has in progress.
Phase(m, x) ==
  /\ x.op = "update" => m.name \in OneUpdate \cup {"renamenx", "copy"}
  /\ m.name \in Renaming =>
       /\ m.i \in {1, 2, 3}
       /\ m.i = 1 => x.op = "get" /\ x.keys = <<m.keys[1]>>
       /\ m.i = 2 => /\ x.op \in {"put", "update"} /\ x.keys = <<m.keys[2]>>
                     /\ x.op = "put" \/ x.at = "write" => x.muts = Only(m.keys[2], m.rec)
       /\ m.i = 3 => x.op = "delete" /\ x.keys = <<m.keys[1]>>
  /\ m.name = "msetnx" =>
       /\ m.i >= 1
       /\ m.i <= Len(m.keys) => x.op = "get" /\ x.keys = <<m.keys[m.i]>>
       /\ m.i > Len(m.keys) => x.op = "multi"
  /\ m.name \in WalkNames => m.i = 1 /\ x.op = "scan"

\* The handler has replied, or goes on from m to g.cmd with a call.
GoesOn(m, r, g) ==
  /\ Running(g.cmd) /\ Fresh(g.call) /\ Phase(g.cmd, g.call)
  /\ g.cmd.name = m.name /\ g.cmd.keys = m.keys /\ g.cmd.opts = m.opts /\ g.cmd.n = m.n
  /\ m.name \in Renaming =>
       \/ m.i = 0 /\ g.cmd.i = 1
       \/ m.i = 1 /\ g.cmd.i = 2 /\ r.found /\ g.cmd.rec = r
       \/ m.i = 2 /\ g.cmd.i = 3 /\ g.cmd.rec = m.rec /\ (m.name = "renamenx" => ~r.found)
  /\ m.name = "msetnx" => g.cmd.i = m.i + 1 /\ (m.i >= 1 => ~r.found)
Outcome(m, r, g) == g = Replied \/ GoesOn(m, r, g)

\* A loop variable moves on, within its bound.
LEMMA Moved ==
  ASSUME NEW m, Running(m), NEW j \in Nat,
         m.name \in TwoKeys => j <= 3, m.name \in Renaming /\ j >= 2 => m.keys[1] # m.keys[2],
         m.name \in OneByOne => j <= Len(m.keys),
         m.name \in Batches => j <= Len(m.keys) + 1, m.name = "copy" => j <= 2,
         m.name = "keys" => j <= 1, m.name = "randomkey" => j <= 2
  PROVE  /\ Running(At(m, j)) /\ At(m, j).name = m.name /\ At(m, j).keys = m.keys
         /\ At(m, j).opts = m.opts /\ At(m, j).n = m.n /\ At(m, j).i = j
         /\ At(m, j).rec = m.rec /\ At(m, j).got = m.got
<1> DEFINE x == At(m, j)
<1>1. DOMAIN m = CmdFields
  BY DEF Running
<1>2. /\ x.name = m.name /\ x.keys = m.keys /\ x.opts = m.opts /\ x.at = m.at /\ x.n = m.n
      /\ x.i = j /\ x.rec = m.rec /\ x.got = m.got /\ DOMAIN x = CmdFields
  BY <1>1, Zenon DEF At, CmdFields
<1> HIDE DEF x
<1>3. Running(x)
  BY <1>2 DEF Running
<1> QED BY <1>2, <1>3, Zenon DEF x

\* A handler that keeps a record it read stays where it was.
LEMMA Held ==
  ASSUME NEW m, Running(m), NEW r, r.exp \in Int
  PROVE  /\ Running(Holding(m, r)) /\ Holding(m, r).name = m.name /\ Holding(m, r).keys = m.keys
         /\ Holding(m, r).opts = m.opts /\ Holding(m, r).n = m.n /\ Holding(m, r).rec = r
<1> DEFINE x == Holding(m, r)
<1>1. DOMAIN m = CmdFields
  BY DEF Running
<1>2. /\ x.name = m.name /\ x.keys = m.keys /\ x.opts = m.opts /\ x.at = m.at /\ x.n = m.n
      /\ x.i = m.i /\ x.rec = r /\ DOMAIN x = CmdFields
  BY <1>1, Zenon DEF Holding, CmdFields
<1> HIDE DEF x
<1>3. Running(x)
  BY <1>2 DEF Running
<1> QED BY <1>2, <1>3, Zenon DEF x

\* So does one that adds a page to the keys it has.
LEMMA Gathered ==
  ASSUME NEW m, Running(m), NEW ks
  PROVE  /\ Running(Gathering(m, ks)) /\ Gathering(m, ks).name = m.name
         /\ Gathering(m, ks).keys = m.keys /\ Gathering(m, ks).opts = m.opts
         /\ Gathering(m, ks).n = m.n /\ Gathering(m, ks).i = m.i
         /\ Gathering(m, ks).got = m.got \cup ks
<1> DEFINE x == Gathering(m, ks)
<1>1. DOMAIN m = CmdFields
  BY DEF Running
<1>2. /\ x.name = m.name /\ x.keys = m.keys /\ x.opts = m.opts /\ x.at = m.at /\ x.n = m.n
      /\ x.i = m.i /\ x.rec = m.rec /\ x.got = m.got \cup ks /\ DOMAIN x = CmdFields
  BY <1>1, Zenon DEF Gathering, CmdFields
<1> HIDE DEF x
<1>3. Running(x)
  BY <1>2 DEF Running
<1> QED BY <1>2, <1>3, Zenon DEF x

\* What the phase says of a write after reads, as the callers use it.
LEMMA PhaseFacts ==
  ASSUME NEW m, NEW x, Running(m), Phase(m, x), CallOK(x)
  PROVE  /\ m.name = "msetnx" /\ x.op # "get" => x.at # "read"
         /\ m.name = "msetnx" => m.keys \in Seq(Keys) /\ m.i \in Nat
         /\ m.name = "msetnx" /\ x.op = "multi" => m.i > Len(m.keys)
         /\ m.name \in Renaming /\ m.i = 3 => x.at # "read"
<1>1. m.name = "msetnx" => m.keys \in Seq(Keys) /\ m.i \in Nat /\ Len(m.keys) \in Nat
  BY DEF Running
<1>2. x.op \in {"multi", "delete"} => x.at # "read"
  BY DEF CallOK
<1>3. m.name = "msetnx" =>
        (m.i <= Len(m.keys) => x.op = "get") /\ (m.i > Len(m.keys) => x.op = "multi")
  BY Zenon DEF Phase
<1>4. m.name \in Renaming /\ m.i = 3 => x.op = "delete"
  BY Zenon DEF Phase
<1> QED BY <1>1, <1>2, <1>3, <1>4

\* How far MSETNX may be, and what it has in progress while it looks.
LEMMA MSetNXPhase ==
  ASSUME NEW m, Running(m), m.name = "msetnx"
  PROVE  /\ m.keys \in Seq(Keys) /\ Len(m.keys) \in Nat /\ m.i \in Nat /\ m.i <= Len(m.keys) + 1
         /\ \A x : Phase(m, x) /\ m.i <= Len(m.keys) => x.op = "get" /\ x.keys = <<m.keys[m.i]>>
<1>1. m.keys \in Seq(Keys) /\ m.i \in Nat /\ (m.name \in Batches => m.i <= Len(m.keys) + 1)
  BY Zenon DEF Running
<1>2. m.name \in Batches
  BY DEF Batches
<1>3. \A x : Phase(m, x) /\ m.i <= Len(m.keys) => x.op = "get" /\ x.keys = <<m.keys[m.i]>>
  BY Zenon DEF Phase
<1>4. Len(m.keys) \in Nat
  BY <1>1
<1> QED BY <1>1, <1>2, <1>3, <1>4, Zenon

\* The only Update a rename makes is RENAMENX's, of the destination.
LEMMA UpdatePhase ==
  ASSUME NEW m, NEW x, Phase(m, x), x.op = "update", m.name \in Renaming
  PROVE  m.name = "renamenx" /\ (m.i = 2 => x.keys[1] = m.keys[2])
<1>1. m.name \in OneUpdate \cup {"renamenx", "copy"} /\ (m.i = 2 => x.keys = <<m.keys[2]>>)
  BY Zenon DEF Phase
<1>2. m.name = "renamenx"
  BY <1>1 DEF Renaming, OneUpdate
<1> DEFINE y == m.keys[2]
<1>3. <<y>>[1] = y
  OBVIOUS
<1> QED BY <1>1, <1>2, <1>3, Zenon

\* The parts of what a handler returns.
LEMMA GoesParts ==
  ASSUME NEW x, NEW y
  PROVE  Goes(x, y).cmd = x /\ Goes(x, y).call = y
  BY DEF Goes

\* A reply leaves the client with no command and no call.
LEMMA RepliedParts ==
  Replied.cmd = Idle /\ Replied.call = NoCall
  BY DEF Goes, Replied

\* Which arm of Handler a command takes.
LEMMA HandlerArms ==
  ASSUME NEW m, NEW r, NEW page, NEW id
  PROVE  LET g == Handler(m, r, page, id) IN
         /\ m.name \in OneUpdate => g = IF m.i = 1 \/ Rejected(m) THEN Replied
                                        ELSE Goes(At(m, 1), Update(m.keys[1]))
         /\ m.name \in OneByOne => g = NextKey(m)
         /\ m.name = "setex" => g = IF m.i = 1 THEN Replied
                                    ELSE Goes(At(m, 1), Put(m.keys[1], Record(m.val, m.at)))
         /\ m.name \in Renaming => g = renameKey(m, r)
         /\ m.name = "copy" => g = cmdCopy(m, r)
         /\ m.name = "mset" => g = cmdMSet(m)
         /\ m.name = "msetnx" => g = cmdMSetNX(m, r)
         /\ m.name = "flushall" => g = IF m.i = 1 THEN Replied ELSE Goes(At(m, 1), FlushAll)
         /\ m.name = "scan" => g = IF m.i = 1 THEN Replied ELSE Goes(At(m, 1), Scan(m.n, 1))
         /\ m.name = "keys" => g = cmdKeys(m, page, id)
         /\ m.name = "randomkey" => g = cmdRandomKey(m, page)
<1> DEFINE g == Handler(m, r, page, id)
<1>1. m.name \in OneUpdate => g = IF m.i = 1 \/ Rejected(m) THEN Replied
                                  ELSE Goes(At(m, 1), Update(m.keys[1]))
  BY DEF Handler, OneUpdate, OneByOne
<1>2. m.name \in OneByOne => g = NextKey(m)
  BY DEF Handler, OneUpdate, OneByOne
<1>3. m.name = "setex" => g = IF m.i = 1 THEN Replied
                              ELSE Goes(At(m, 1), Put(m.keys[1], Record(m.val, m.at)))
  BY DEF Handler, OneUpdate, OneByOne
<1>4. m.name \in Renaming => g = renameKey(m, r)
  BY DEF Handler, OneUpdate, OneByOne, Renaming
<1>5. m.name = "copy" => g = cmdCopy(m, r)
  BY DEF Handler, OneUpdate, OneByOne
<1>6. m.name = "mset" => g = cmdMSet(m)
  BY DEF Handler, OneUpdate, OneByOne
<1>7. m.name = "msetnx" => g = cmdMSetNX(m, r)
  BY DEF Handler, OneUpdate, OneByOne
<1>8. m.name = "flushall" => g = IF m.i = 1 THEN Replied ELSE Goes(At(m, 1), FlushAll)
  BY DEF Handler, OneUpdate, OneByOne
<1>9. m.name = "scan" => g = IF m.i = 1 THEN Replied ELSE Goes(At(m, 1), Scan(m.n, 1))
  BY DEF Handler, OneUpdate, OneByOne
<1>10. m.name = "keys" => g = cmdKeys(m, page, id)
  BY DEF Handler, OneUpdate, OneByOne
<1>11. m.name = "randomkey" => g = cmdRandomKey(m, page)
  BY DEF Handler, OneUpdate, OneByOne
<1> QED BY <1>1, <1>2, <1>3, <1>4, <1>5, <1>6, <1>7, <1>8, <1>9, <1>10, <1>11, Zenon

\* What a SCAN does before and after its call, and what a KEYS does.
LEMMA WalkArms ==
  ASSUME NEW m, NEW r, NEW page, NEW id
  PROVE  /\ m.name = "scan" /\ m.i = 0 =>
              Handler(m, r, page, id) = Goes(At(m, 1), Scan(m.n, 1))
         /\ m.name = "scan" /\ m.i = 1 => Handler(m, r, page, id) = Replied
         /\ m.name = "keys" => Handler(m, r, page, id) = cmdKeys(m, page, id)
<1>1. m.name = "scan" => Handler(m, r, page, id) = IF m.i = 1 THEN Replied
                                                   ELSE Goes(At(m, 1), Scan(m.n, 1))
  BY DEF Handler, OneUpdate, OneByOne
<1>2. m.name = "keys" => Handler(m, r, page, id) = cmdKeys(m, page, id)
  BY DEF Handler, OneUpdate, OneByOne
<1> QED BY <1>1, <1>2

\* A handler with nothing to remember goes on as Outcome says.
LEMMA GoesOnPlain ==
  ASSUME NEW m, NEW r, NEW x, NEW y, Running(x), Fresh(y), x.name = m.name, x.keys = m.keys,
         x.opts = m.opts, x.n = m.n, m.name \notin Renaming, m.name # "msetnx",
         y.op = "update" => m.name \in OneUpdate \cup {"renamenx", "copy"},
         m.name \in WalkNames => x.i = 1 /\ y.op = "scan"
  PROVE  Outcome(m, r, Goes(x, y))
  BY DEF Outcome, GoesOn, Phase, Goes

\* Every handler, from every point it can be at: it replies, or goes on with a
\* well-formed call of which Outcome tells what the properties need.
LEMMA HandlerOutcome ==
  ASSUME NEW m, Running(m), NEW r, r.exp \in Int, NEW page, NEW id
  PROVE  Outcome(m, r, Handler(m, r, page, id))
<1> DEFINE g == Handler(m, r, page, id)
<1> USE DEF Outcome
<1>1. CASE m.name \in OneUpdate
  <2>1. /\ m.name \notin TwoKeys /\ m.name \notin OneByOne /\ m.name \notin Batches
        /\ m.name \notin Renaming /\ m.name \notin {"msetnx", "copy", "keys", "randomkey"}
        /\ m.name \notin WalkNames
    BY <1>1 DEF WalkNames, OneUpdate, TwoKeys, OneByOne, Batches, Renaming
  <2>2. m.keys[1] \in Keys
    BY <1>1 DEF Running
  <2>3. Outcome(m, r, Goes(At(m, 1), Update(m.keys[1])))
    BY <1>1, <2>1, <2>2, Moved, UpdateFacts, GoesOnPlain
  <2> QED BY <1>1, <2>3, HandlerArms, ZenonT(60)
<1>2. CASE m.name \in OneByOne
  <2>1. /\ m.name \notin TwoKeys /\ m.name \notin Batches
        /\ m.name \notin Renaming /\ m.name \notin {"msetnx", "copy", "keys", "randomkey"}
        /\ m.name \notin WalkNames
    BY <1>2 DEF WalkNames, TwoKeys, OneByOne, Batches, Renaming
  <2>2. ASSUME m.i # Len(m.keys)
        PROVE  m.keys[m.i + 1] \in Keys /\ m.i + 1 \in Nat /\ m.i + 1 <= Len(m.keys)
    BY <1>2, <2>2 DEF Running
  <2>3. ASSUME m.i # Len(m.keys), NEW y \in {Get(m.keys[m.i + 1]), Delete(m.keys[m.i + 1])}
        PROVE  Outcome(m, r, Goes(At(m, m.i + 1), y))
    <3>1. Fresh(y) /\ y.op # "update"
      BY <2>2, <2>3, GetFacts, DeleteFacts, Zenon
    <3> QED BY <2>1, <2>2, <2>3, <3>1, Moved, GoesOnPlain
  <2> QED BY <1>2, <2>3, HandlerArms DEF NextKey
<1>3. CASE m.name = "setex"
  <2>1. /\ m.name \notin TwoKeys /\ m.name \notin OneByOne /\ m.name \notin Batches
        /\ m.name \notin Renaming /\ m.name \notin {"msetnx", "copy", "keys", "randomkey"}
        /\ m.name \notin WalkNames
    BY <1>3 DEF WalkNames, OneUpdate, TwoKeys, OneByOne, Batches, Renaming
  <2>2. m.keys[1] \in Keys /\ Record(m.val, m.at).exp \in Int
    BY <1>3 DEF Running, Record
  <2>3. Outcome(m, r, Goes(At(m, 1), Put(m.keys[1], Record(m.val, m.at))))
    BY <1>3, <2>1, <2>2, Moved, PutFacts, GoesOnPlain
  <2> QED BY <1>3, <2>3, HandlerArms, Zenon
<1>4. CASE m.name \in Renaming
  <2> DEFINE src == m.keys[1]
  <2> DEFINE dst == m.keys[2]
  <2>1. /\ m.name \in TwoKeys /\ m.name \notin OneByOne /\ m.name \notin Batches
        /\ m.name \notin {"msetnx", "copy", "keys", "randomkey"}
        /\ m.name \notin WalkNames
    BY <1>4 DEF WalkNames, TwoKeys, OneByOne, Batches, Renaming
  <2>2. src \in Keys /\ dst \in Keys /\ m.i \in {0, 1, 2, 3}
    BY <2>1 DEF Running
  <2>3. g = renameKey(m, r)
    BY <1>4, HandlerArms, ZenonT(60)
  <2>4. CASE m.i = 0
    <3>1. Outcome(m, r, Goes(At(m, 1), Get(src)))
      <4> DEFINE x == At(m, 1)
      <4> DEFINE y == Get(src)
      <4>1. /\ Running(x) /\ x.name = m.name /\ x.keys = m.keys /\ x.opts = m.opts
            /\ x.n = m.n /\ x.i = 1
        BY <2>1, Moved
      <4>2. Fresh(y) /\ y.op = "get" /\ y.keys = <<src>>
        BY <2>2, GetFacts, Zenon
      <4> HIDE DEF x, y
      <4>3. Outcome(m, r, Goes(x, y))
        BY <1>4, <2>1, <2>4, <4>1, <4>2 DEF GoesOn, Phase, Goes
      <4> QED BY <4>3, Zenon DEF x, y
    <3> QED BY <2>3, <2>4, <3>1 DEF renameKey
  <2>5. CASE m.i = 1
    <3>1. ASSUME r.found, src # dst, NEW y,
                 Fresh(y), y.op \in {"put", "update"}, y.keys = <<dst>>, y.at = "lock",
                 y.op = "put" => y.muts = Only(dst, r), y.op = "update" => m.name = "renamenx"
          PROVE  Outcome(m, r, Goes(At(Holding(m, r), 2), y))
      <4> DEFINE h == Holding(m, r)
      <4> DEFINE x == At(h, 2)
      <4>1. Running(h) /\ h.name = m.name /\ h.keys = m.keys /\ h.opts = m.opts /\ h.n = m.n /\ h.rec = r
        BY Held
      <4> HIDE DEF h
      <4>2. /\ Running(x) /\ x.name = m.name /\ x.keys = m.keys /\ x.opts = m.opts /\ x.n = m.n
            /\ x.i = 2 /\ x.rec = r
        BY <2>1, <3>1, <4>1, Moved, SMTT(60)
      <4> HIDE DEF x
      <4>3. Outcome(m, r, Goes(x, y))
        BY <1>4, <2>1, <2>5, <3>1, <4>2, SMTT(60) DEF GoesOn, Phase, Goes
      <4> QED BY <4>3, Zenon DEF x, h
    <3>2. ASSUME r.found, src # dst
          PROVE  /\ m.name = "renamenx" => Outcome(m, r, Goes(At(Holding(m, r), 2), Update(dst)))
                 /\ Outcome(m, r, Goes(At(Holding(m, r), 2), Put(dst, r)))
      BY <2>2, <3>1, <3>2, UpdateFacts, PutFacts
    <3> QED BY <2>3, <2>5, <3>2 DEF renameKey
  <2>6. CASE m.i = 2
    <3>1. ASSUME m.name = "renamenx" => ~r.found
          PROVE  Outcome(m, r, Goes(At(m, 3), Delete(src)))
      <4> DEFINE x == At(m, 3)
      <4> DEFINE y == Delete(src)
      <4>1. /\ Running(x) /\ x.name = m.name /\ x.keys = m.keys /\ x.opts = m.opts
            /\ x.n = m.n /\ x.i = 3 /\ x.rec = m.rec
        <5>1. src # dst
          BY <1>4, <2>6 DEF Running
        <5> QED BY <2>1, <5>1, Moved
      <4>2. Fresh(y) /\ y.op = "delete" /\ y.keys = <<src>>
        BY <2>2, DeleteFacts, Zenon
      <4> HIDE DEF x, y
      <4>3. Outcome(m, r, Goes(x, y))
        BY <1>4, <2>1, <2>6, <3>1, <4>1, <4>2 DEF GoesOn, Phase, Goes
      <4> QED BY <4>3, Zenon DEF x, y
    <3> QED BY <2>3, <2>6, <3>1 DEF renameKey
  <2>7. CASE m.i = 3
    BY <2>3, <2>7 DEF renameKey
  <2> QED BY <2>2, <2>4, <2>5, <2>6, <2>7
<1>5. CASE m.name = "copy"
  <2>1. /\ m.name \in TwoKeys /\ m.name \notin OneByOne /\ m.name \notin Batches
        /\ m.name \notin Renaming /\ m.name \notin {"msetnx", "keys", "randomkey"}
        /\ m.name \notin WalkNames
    BY <1>5 DEF WalkNames, TwoKeys, OneByOne, Batches, Renaming
  <2>2. m.keys[1] \in Keys /\ m.keys[2] \in Keys /\ m.i \in {0, 1, 2}
    BY <1>5, <2>1 DEF Running
  <2>3. Outcome(m, r, Goes(At(m, 1), Get(m.keys[1])))
    BY <1>5, <2>1, <2>2, Moved, GetFacts, GoesOnPlain, SMTT(60)
  <2>4. Outcome(m, r, Goes(At(Holding(m, r), 2), Update(m.keys[2])))
    <3> DEFINE h == Holding(m, r)
    <3>1. Running(h) /\ h.name = m.name /\ h.keys = m.keys /\ h.opts = m.opts /\ h.n = m.n
      BY Held
    <3> HIDE DEF h
    <3>2. Outcome(m, r, Goes(At(h, 2), Update(m.keys[2])))
      BY <1>5, <2>1, <2>2, <3>1, Moved, UpdateFacts, GoesOnPlain
    <3> QED BY <3>2 DEF h
  <2> QED BY <1>5, <2>2, <2>3, <2>4, HandlerArms DEF cmdCopy
<1>6. CASE m.name \in Batches
  <2>1. /\ m.name \notin TwoKeys /\ m.name \notin OneByOne /\ m.name \notin OneUpdate
        /\ m.name \notin Renaming /\ m.name \notin {"copy", "keys", "randomkey"}
        /\ m.name \notin WalkNames
    BY <1>6 DEF WalkNames, OneUpdate, TwoKeys, OneByOne, Batches, Renaming
  <2>2. m.keys \in Seq(Keys) /\ Len(m.keys) >= 1 /\ m.i \in Nat /\ m.i <= Len(m.keys) + 1
    BY <1>6 DEF Running
  <2> DEFINE y == MultiWrite(m.keys, Pairs(m))
  <2>3. DOMAIN Pairs(m) = Range(m.keys) /\ \A k \in Range(m.keys) : Pairs(m)[k].exp \in Int
    BY DEF Pairs, Record
  <2>4. Fresh(y) /\ y.op = "multi"
    BY <2>2, <2>3, MultiWriteFacts, Zenon
  <2> HIDE DEF y
  <2>5. CASE m.name = "mset"
    <3>1. Outcome(m, r, Goes(At(m, 1), y))
      BY <2>1, <2>2, <2>4, <2>5, Moved, GoesOnPlain
    <3> QED BY <2>5, <3>1, HandlerArms, SMTT(60) DEF cmdMSet, y
  <2>6. CASE m.name = "msetnx"
    <3>1. ASSUME m.i >= 1 => ~r.found, m.i < Len(m.keys)
          PROVE  Outcome(m, r, Goes(At(m, m.i + 1), Get(m.keys[m.i + 1])))
      <4> DEFINE x == At(m, m.i + 1)
      <4> DEFINE z == Get(m.keys[m.i + 1])
      <4>1. m.keys[m.i + 1] \in Keys /\ m.i + 1 \in Nat /\ m.i + 1 <= Len(m.keys) + 1
        BY <2>2, <3>1
      <4>2. /\ Running(x) /\ x.name = m.name /\ x.keys = m.keys /\ x.opts = m.opts
            /\ x.n = m.n /\ x.i = m.i + 1
        BY <2>1, <4>1, Moved
      <4>3. Fresh(z) /\ z.op = "get" /\ z.keys = <<m.keys[m.i + 1]>>
        BY <4>1, GetFacts, Zenon
      <4> HIDE DEF x, z
      <4>4. Outcome(m, r, Goes(x, z))
        BY <2>1, <2>2, <2>6, <3>1, <4>2, <4>3 DEF GoesOn, Phase, Goes
      <4> QED BY <4>4, Zenon DEF x, z
    <3>2. ASSUME ~r.found, m.i = Len(m.keys)
          PROVE  Outcome(m, r, Goes(At(m, Len(m.keys) + 1), y))
      <4> DEFINE x == At(m, Len(m.keys) + 1)
      <4>1. /\ Running(x) /\ x.name = m.name /\ x.keys = m.keys /\ x.opts = m.opts
            /\ x.n = m.n /\ x.i = Len(m.keys) + 1
        BY <2>1, <2>2, Moved, SMTT(60)
      <4> HIDE DEF x
      <4>2. Outcome(m, r, Goes(x, y))
        BY <2>1, <2>2, <2>4, <2>6, <3>2, <4>1 DEF GoesOn, Phase, Goes
      <4> QED BY <4>2, Zenon DEF x
    <3>3. g = cmdMSetNX(m, r)
      BY <2>6, HandlerArms, ZenonT(60)
    <3> QED BY <2>2, <2>6, <3>1, <3>2, <3>3 DEF cmdMSetNX, y
  <2> QED BY <1>6, <2>5, <2>6 DEF Batches
<1>7. CASE m.name = "flushall"
  <2>1. /\ m.name \notin TwoKeys /\ m.name \notin OneByOne /\ m.name \notin Batches
        /\ m.name \notin Renaming /\ m.name \notin {"msetnx", "copy", "keys", "randomkey"}
        /\ m.name \notin WalkNames
    BY <1>7 DEF WalkNames, TwoKeys, OneByOne, Batches, Renaming
  <2>2. Outcome(m, r, Goes(At(m, 1), FlushAll))
    BY <2>1, Moved, FlushAllFacts, GoesOnPlain
  <2> QED BY <1>7, <2>2, HandlerArms, Zenon
<1>8. CASE m.name = "scan"
  <2>1. /\ m.name \notin TwoKeys /\ m.name \notin OneByOne /\ m.name \notin Batches
        /\ m.name \notin Renaming /\ m.name \notin {"msetnx", "copy", "keys", "randomkey"}
    BY <1>8 DEF TwoKeys, OneByOne, Batches, Renaming
  <2>2. Outcome(m, r, Goes(At(m, 1), Scan(m.n, 1)))
    BY <2>1, Moved, ScanFacts, GoesOnPlain
  <2> QED BY <1>8, <2>2, HandlerArms, ZenonT(60)
<1>9. CASE m.name = "keys"
  <2>1. /\ m.name \notin TwoKeys /\ m.name \notin OneByOne /\ m.name \notin Batches
        /\ m.name \notin Renaming /\ m.name \notin {"msetnx", "copy", "randomkey"}
    BY <1>9 DEF OneUpdate, TwoKeys, OneByOne, Batches, Renaming
  <2>2. m.i \in {0, 1}
    BY <1>9 DEF Running
  <2>3. Outcome(m, r, Goes(At(m, 1), Scan(0, PageSize)))
    BY <2>1, Moved, ScanFacts, GoesOnPlain, SMTT(60)
  <2>4. ASSUME m.i = 1
        PROVE  Outcome(m, r, Goes(Gathering(m, page.keys), Scan(id, PageSize)))
    BY <2>1, <2>4, Gathered, ScanFacts, GoesOnPlain
  <2>5. g = cmdKeys(m, page, id)
    BY <1>9, HandlerArms, Zenon
  <2> QED BY <2>2, <2>3, <2>4, <2>5 DEF cmdKeys
<1>10. CASE m.name = "randomkey"
  <2>1. /\ m.name \notin TwoKeys /\ m.name \notin OneByOne /\ m.name \notin Batches
        /\ m.name \notin Renaming /\ m.name \notin {"msetnx", "copy", "keys"}
        /\ m.name \notin WalkNames
    BY <1>10 DEF WalkNames, TwoKeys, OneByOne, Batches, Renaming
  <2>2. m.i \in {0, 1, 2}
    BY <1>10, SMTT(60) DEF Running
  <2>3. Outcome(m, r, Goes(At(m, 1), Scan(m.n, 1))) /\ Outcome(m, r, Goes(At(m, 2), Scan(0, 1)))
    BY <1>10, <2>1, Moved, ScanFacts, GoesOnPlain
  <2> QED BY <1>10, <2>2, <2>3, HandlerArms DEF cmdRandomKey
<1>11. \/ m.name \in OneUpdate \/ m.name \in OneByOne \/ m.name = "setex" \/ m.name \in Renaming
       \/ m.name = "copy" \/ m.name \in Batches \/ m.name = "flushall" \/ m.name = "scan"
       \/ m.name = "keys" \/ m.name = "randomkey"
  BY Zenon DEF Running, Names, TwoKeys, Renaming, WalkNames
<1> QED BY <1>1, <1>2, <1>3, <1>4, <1>5, <1>6, <1>7, <1>8, <1>9, <1>10, <1>11, Zenon

-----------------------------------------------------------------------------
(* What Update's functions answer. *)

\* The functions handed to Update: those of commands that create write only
\* where they were shown no record, and RENAMENX writes the record it carries.
LEMMA CallbackAnswers ==
  ASSUME NEW m, Running(m), m.name \in OneUpdate \cup {"renamenx", "copy"}, NEW cur, cur.exp \in Int
  PROVE  LET a == Callback(m, cur) IN
         /\ a.rec.exp \in Int
         /\ Creates(m) /\ a.act \in {"put", "delete"} => ~cur.found
         /\ m.name = "renamenx" => \/ ~cur.found /\ a = ActionPut(m.rec)
                                   \/ cur.found /\ a = ActionNone
<1> DEFINE a == Callback(m, cur)
<1> USE DEF Running, Creates, Answer, ActionPut, ActionNone, ActionDelete, Fails, Record, Absent
<1>1. CASE m.name = "set"
  BY <1>1 DEF Callback, cmdSet
<1>2. CASE m.name = "setnx"
  BY <1>2 DEF Callback, cmdSetNX
<1>3. CASE m.name = "getset"
  BY <1>3 DEF Callback, cmdGetSet
<1>4. CASE m.name = "getdel"
  BY <1>4 DEF Callback, cmdGetDel
<1>5. CASE m.name = "getex"
  BY <1>5, SMTT(60) DEF Callback, cmdGetEx
<1>6. CASE m.name = "append"
  <2>1. a = cmdAppend(m, cur)
    BY <1>6 DEF Callback
  <2>2. \/ cmdAppend(m, cur) = Fails
        \/ cmdAppend(m, cur) = ActionPut(Record(cur.val \o m.val, cur.exp))
    BY Zenon DEF cmdAppend
  <2>3. ASSUME NEW v PROVE ActionPut(Record(v, cur.exp)).rec.exp \in Int
    OBVIOUS
  <2>4. a.rec.exp \in Int
    <3>1. Fails.rec.exp \in Int
      OBVIOUS
    <3> QED BY <2>1, <2>2, <2>3, <3>1, Zenon
  <2> QED BY <1>6, <2>4
<1>7. ASSUME NEW mm PROVE incrBy(mm, cur).rec.exp \in Int
  BY DEF incrBy
<1>8. CASE m.name = "incrby"
  BY <1>7, <1>8 DEF Callback
<1>9. CASE m.name = "decrby"
  <2>1. a = cmdDecrBy(m, cur)
    BY <1>9 DEF Callback
  <2> QED BY <1>7, <1>9, <2>1, Zenon DEF cmdDecrBy
<1>10. CASE m.name = "setrange"
  BY <1>10 DEF Callback, cmdSetRange
<1>11. CASE m.name = "expire"
  BY <1>11 DEF Callback, expireCmd
<1>12. CASE m.name = "persist"
  BY <1>12 DEF Callback, cmdPersist
<1>13. CASE m.name = "renamenx"
  BY <1>13 DEF Callback
<1>14. CASE m.name = "copy"
  BY <1>14 DEF Callback
<1> HIDE DEF Running, Creates
<1> QED BY <1>1, <1>2, <1>3, <1>4, <1>5, <1>6, <1>8, <1>9, <1>10, <1>11, <1>12, <1>13, <1>14, Zenon DEF OneUpdate

-----------------------------------------------------------------------------
(* The inductive invariant. *)

\* Every client is between commands, or has a command and its call.
ClientOK(c) ==
  /\ CallOK(call[c])
  /\ \/ cmd[c] = Idle /\ call[c] = NoCall
     \/ Running(cmd[c]) /\ call[c].op # "none" /\ Phase(cmd[c], call[c])

\* A call past "lock" holds the stripe of every key it reads or writes.
HoldsStripes(c) ==
  call[c].op \in Striped =>
    \A s \in StripesOf(call[c].keys) : holder[s] = c \/ (call[c].at = "lock" /\ s \in call[c].locks)

Deadlines ==
  /\ now \in Nat
  /\ \A k \in Keys : db[k].exp \in Int
  /\ \A muts \in late : \A k \in DOMAIN muts : muts[k].exp \in Int

Base ==
  /\ DOMAIN call = Clients /\ DOMAIN cmd = Clients /\ DOMAIN walk = Clients
  /\ DOMAIN holder = Stripes
  /\ \A c \in Clients : ClientOK(c) /\ HoldsStripes(c)
  /\ Deadlines

\* While the record is being moved it is under src, and then under dst.
MovedRecord(c) ==
  /\ cmd[c].name \in Renaming /\ cmd[c].i = 2 /\ Undisturbed(c, cmd[c].keys[1]) =>
       cmd[c].rec = db[cmd[c].keys[1]]
  /\ cmd[c].name \in Renaming /\ cmd[c].i = 3 /\ Undisturbed(c, cmd[c].keys[2]) =>
       cmd[c].rec = db[cmd[c].keys[2]]

\* MSETNX: the keys it has looked at are missing.
SeenMissing(c) ==
  cmd[c].name = "msetnx" =>
    \A j \in 1..Len(cmd[c].keys) :
      j < cmd[c].i /\ Undisturbed(c, cmd[c].keys[j]) => ~Visible(cmd[c].keys[j]).found

\* Whoever is about to create a key holds its stripe, and nobody was told of it.
Creating(c, k) ==
  call[c].op = "update" /\ call[c].at = "write" /\ Creates(cmd[c]) /\ call[c].keys[1] = k
CreatedOnce(k) ==
  /\ created[k] \in {0, 1}
  /\ ~Visible(k).found => created[k] = 0
  /\ \A c \in Clients : Creating(c, k) => created[k] = 0

\* What a walk has still to return is ahead of its cursor.
Ahead(start) == {k \in Keys : k >= start}
WalkOK(c) ==
  LET m == cmd[c]
      x == call[c]
  IN  /\ \A w \in WalkNames : kept[c][w] \subseteq Live
      /\ walk[c].id \in 0..cursorN
      /\ walk[c].id \in DOMAIN cursors =>
           kept[c]["scan"] \subseteq walk[c].got \cup Ahead(cursors[walk[c].id].start)
      /\ m.name = "scan" /\ x.at = "resume" => x.id = walk[c].id
      /\ m.name = "scan" /\ x.at = "read" => kept[c]["scan"] \subseteq walk[c].got \cup Ahead(x.start)
      /\ m.name = "keys" /\ x.at = "read" => kept[c]["keys"] \subseteq m.got \cup Ahead(x.start)
      /\ m.name = "keys" /\ x.at = "resume" =>
           /\ x.id \in 1..cursorN
           /\ x.id \in DOMAIN cursors =>
                kept[c]["keys"] \subseteq m.got \cup Ahead(cursors[x.id].start)
Walking ==
  /\ cursorN \in Nat /\ DOMAIN cursors \subseteq 1..cursorN
  /\ \A c \in Clients : WalkOK(c)

CommandsInv ==
  /\ Base
  /\ UpdateIsAtomic
  /\ \A c \in Clients : MovedRecord(c) /\ SeenMissing(c)
  /\ \A k \in Keys : CreatedOnce(k)
  /\ Walking /\ ~short

-----------------------------------------------------------------------------
(* What one step does to the client that takes it, and to the others.      *)

\* The others are left as they are; stripes they hold stay theirs.
OthersStay(a) ==
  \A c \in Clients \ {a} :
    /\ call'[c] = call[c] /\ cmd'[c] = cmd[c] /\ walk'[c] = walk[c]
    /\ \A s \in Stripes : holder[s] = c => holder'[s] = c
Shapes ==
  /\ DOMAIN call = Clients /\ DOMAIN cmd = Clients /\ DOMAIN walk = Clients
  /\ DOMAIN holder = Stripes

\* No command runs under the name of the idle client.
LEMMA IdleIsNotRunning ==
  ASSUME NEW m, Running(m)
  PROVE  m # Idle
  BY DEF Running, Names, Idle, OneUpdate, OneByOne, TwoKeys, Batches, WalkNames

\* A record read has a deadline, like every record stored.
LEMMA VisibleDeadline ==
  ASSUME Deadlines, NEW k \in Keys
  PROVE  Visible(k).exp \in Int
  BY DEF Deadlines, Visible, Absent

\* A handler's next step, as the actions take it.
Resumes(a, m, r) ==
  \E g : Outcome(m, r, g) /\ call'[a] = g.call /\ cmd'[a] = g.cmd

\* A step that sets the call and the command of one client.
LEMMA Installed ==
  ASSUME Shapes, NEW a \in Clients, NEW g,
         call' = [call EXCEPT ![a] = g.call], cmd' = [cmd EXCEPT ![a] = g.cmd]
  PROVE  /\ call'[a] = g.call /\ cmd'[a] = g.cmd
         /\ \A c \in Clients \ {a} : call'[c] = call[c] /\ cmd'[c] = cmd[c]
         /\ DOMAIN call' = Clients /\ DOMAIN cmd' = Clients
  BY DEF Shapes

\* release lets go of the stripes of one client only.
LEMMA Released ==
  ASSUME Shapes, NEW a \in Clients, Release(a)
  PROVE  /\ DOMAIN holder' = Stripes
         /\ \A c \in Clients \ {a}, s \in Stripes : holder[s] = c => holder'[s] = c
  BY DEF Shapes, Release

\* The dispatcher starts the handler of an idle client.
LEMMA DispatchEffect ==
  ASSUME Base, NEW a \in Clients, Dispatch(a)
  PROVE  /\ Shapes' /\ OthersStay(a)
         /\ UNCHANGED <<db, now, holder, late, timeouts, cursors, cursorN, walk, short>>
         /\ cmd[a] = Idle
         /\ \E m : /\ Running(m) /\ m.i = 0 /\ (m.name = "scan" => m.n = walk[a].id)
                  /\ Resumes(a, m, Absent)
                  /\ call'[a] = Handler(m, Absent, NoPage, 0).call
                  /\ cmd'[a] = Handler(m, Absent, NoPage, 0).cmd
<1>1. Shapes
  BY DEF Base, Shapes
<1> DEFINE Starts(w, n) ==
        LET m == [w EXCEPT !.n = IF w.name = "scan" THEN walk[a].id ELSE n]
            g == Handler(m, Absent, NoPage, 0)
        IN  /\ cmd[a] = Idle
            /\ Runs(a, g)
            /\ call' = [call EXCEPT ![a] = g.call]
            /\ UNCHANGED <<db, now, holder, late, timeouts, cursors, cursorN, walk, short>>
<1>0. PICK w \in Work[a] : \E n : Starts(w, n)
  BY Zenon DEF Dispatch
<1>2. PICK n : Starts(w, n)
  BY <1>0, Zenon
<1> DEFINE m == [w EXCEPT !.n = IF w.name = "scan" THEN walk[a].id ELSE n]
<1> DEFINE g == Handler(m, Absent, NoPage, 0)
<1>3. w \in Command
  BY CommandsAssumption
<1>4. DOMAIN w = CmdFields
  BY <1>3 DEF Command, CmdFields
<1>5. /\ m.name = w.name /\ m.keys = w.keys /\ m.at = w.at /\ m.i = w.i /\ m.rec = w.rec
      /\ DOMAIN m = CmdFields /\ (w.name = "scan" => m.n = walk[a].id)
  BY <1>4, Zenon DEF CmdFields
<1> HIDE DEF m
<1>6. Running(m) /\ m.i = 0
  <2>1. w.rec = Absent /\ w.i = 0 /\ Absent.exp \in Int
    BY <1>3 DEF Command, Absent
  <2>2. /\ w.name \in Names /\ w.keys \in Seq(Keys) /\ w.at \in Int
        /\ w.name \in OneUpdate \cup {"setex"} => Len(w.keys) = 1
        /\ w.name \in TwoKeys => Len(w.keys) = 2
        /\ w.name \in Batches => Len(w.keys) >= 1
    BY <1>3 DEF Command, Names
  <2> QED BY <1>5, <2>1, <2>2 DEF Running
<1>7. Outcome(m, Absent, g)
  <2>1. Absent.exp \in Int
    BY DEF Absent
  <2> QED BY <1>6, <2>1, HandlerOutcome
<1> HIDE DEF g
<1>8. call' = [call EXCEPT ![a] = g.call] /\ cmd' = [cmd EXCEPT ![a] = g.cmd]
  BY <1>2, Zenon DEF g, m, Runs
<1>9. /\ call'[a] = g.call /\ cmd'[a] = g.cmd
      /\ \A c \in Clients \ {a} : call'[c] = call[c] /\ cmd'[c] = cmd[c]
      /\ DOMAIN call' = Clients /\ DOMAIN cmd' = Clients
  BY <1>1, <1>8, Installed, Zenon
<1>10. UNCHANGED <<db, now, holder, late, timeouts, cursors, cursorN, walk, short>> /\ cmd[a] = Idle
  BY <1>2, Zenon
<1>11. Shapes' /\ OthersStay(a)
  BY <1>1, <1>9, <1>10 DEF Shapes, OthersStay, Stripes
<1>12. Resumes(a, m, Absent)
  BY <1>7, <1>9, Zenon DEF Resumes
<1>13. m.name = "scan" => m.n = walk[a].id
  BY <1>5, Zenon
<1> QED BY <1>6, <1>9, <1>10, <1>11, <1>12, <1>13, Zenon DEF g

\* The least element of a set of naturals.
LEMMA LeastOf ==
  ASSUME NEW S, S \subseteq Nat, S # {}
  PROVE  Min(S) \in S /\ \A y \in S : Min(S) <= y
<1>1. \E x \in S : \A y \in S : <<y, x>> \notin OpToRel(<, Nat)
  BY NatLessThanWellFounded, WFMin, Zenon
<1>2. \A x, y \in Nat : <<y, x>> \in OpToRel(<, Nat) <=> y < x
  BY DEF OpToRel
<1>3. PICK x \in S : \A y \in S : <<y, x>> \notin OpToRel(<, Nat)
  BY <1>1, Zenon
<1>4. \A y \in S : x \in Nat /\ y \in Nat
  BY <1>3, Zenon
<1>5. \A y \in S : ~(y < x)
  BY <1>2, <1>3, <1>4, Zenon
<1>6. \A y \in S : x <= y
  BY <1>4, <1>5, SMTT(60)
<1> QED BY <1>6, Zenon DEF Min

\* One more stripe is locked; after the last the call goes on.
LEMMA LockEffect ==
  ASSUME Base, NEW a \in Clients, Locks(a)
  PROVE  LET x == call[a]
             y == call'[a]
         IN  /\ Shapes' /\ OthersStay(a)
             /\ UNCHANGED <<db, now, late, timeouts, cursors, cursorN, cmd, walk, short>>
             /\ x.at = "lock" /\ DOMAIN y = CallFields
             /\ y.op = x.op /\ y.keys = x.keys /\ y.cur = x.cur /\ y.muts = x.muts
             /\ y.id = x.id /\ y.start = x.start
             /\ y.at = IF y.locks # {} THEN "lock" ELSE IF x.op = "update" THEN "read" ELSE "write"
             /\ \E s \in x.locks : /\ y.locks = x.locks \ {s} /\ s \in Stripes /\ holder'[s] = a
                                   /\ \A t \in Stripes \ {s} : holder'[t] = holder[t]
<1> DEFINE x == call[a]
<1> DEFINE y == call'[a]
<1> DEFINE s == NextStripe(x)
<1>1. Shapes
  BY DEF Base, Shapes
<1>2. /\ x.at = "lock" /\ holder[s] = Nobody /\ holder' = [holder EXCEPT ![s] = a]
      /\ call' = [call EXCEPT ![a].locks = x.locks \ {s},
                    ![a].at = CASE x.locks \ {s} # {} -> "lock"
                                [] x.locks \ {s} = {} ->
                                     IF x.op = "update" THEN "read" ELSE "write"]
      /\ UNCHANGED <<db, now, late, timeouts, cursors, cursorN, cmd, walk, short>>
  BY Zenon DEF Locks, Lock
<1>3. CallOK(x)
  BY DEF Base, ClientOK
<1>4. s \in x.locks /\ s \in Stripes
  <2>1. x.locks # {} /\ x.locks \subseteq StripesOf(x.keys) /\ x.keys \in Seq(Keys)
    BY <1>2, <1>3 DEF CallOK
  <2>2. StripesOf(x.keys) \subseteq Stripes
    BY <2>1, KeysFacts
  <2>3. Stripes \subseteq Nat
    BY LsmClientAssumption DEF Stripes
  <2>4. Min(x.locks) \in x.locks
    BY <2>1, <2>2, <2>3, LeastOf, Zenon
  <2> QED BY <2>1, <2>2, <2>4 DEF NextStripe
<1> HIDE DEF s
<1>5. DOMAIN x = CallFields
  BY <1>3 DEF CallOK
<1>6. /\ DOMAIN y = CallFields
      /\ y.op = x.op /\ y.keys = x.keys /\ y.cur = x.cur /\ y.muts = x.muts
      /\ y.id = x.id /\ y.start = x.start /\ y.locks = x.locks \ {s}
      /\ y.at = CASE x.locks \ {s} # {} -> "lock"
                  [] x.locks \ {s} = {} -> IF x.op = "update" THEN "read" ELSE "write"
  BY <1>1, <1>2, <1>5, Zenon DEF Shapes, CallFields
<1>7. DOMAIN call' = Clients /\ \A c \in Clients \ {a} : call'[c] = call[c]
  BY <1>1, <1>2, Zenon DEF Shapes
<1> HIDE DEF x, y
<1>8. y.at = IF y.locks # {} THEN "lock" ELSE IF x.op = "update" THEN "read" ELSE "write"
  BY <1>6
<1>9. /\ DOMAIN holder' = Stripes /\ holder'[s] = a
      /\ \A t \in Stripes \ {s} : holder'[t] = holder[t]
  BY <1>1, <1>2, <1>4 DEF Shapes
<1>10. \A c \in Clients \ {a} : \A t \in Stripes : holder[t] = c => holder'[t] = c
  BY <1>2, <1>9, CommandsAssumption
<1>11. Shapes' /\ OthersStay(a)
  BY <1>1, <1>2, <1>7, <1>9, <1>10, Zenon DEF Shapes, OthersStay, Stripes
<1> QED BY <1>2, <1>4, <1>6, <1>8, <1>9, <1>11, Zenon DEF x, y

\* A client inside a call has a command in progress, at the point that made it.
LEMMA InCall ==
  ASSUME Base, NEW a \in Clients, call[a].at # "idle"
  PROVE  /\ Running(cmd[a]) /\ Phase(cmd[a], call[a]) /\ CallOK(call[a]) /\ HoldsStripes(a)
         /\ cmd[a] # Idle /\ call[a].op # "none"
         /\ call[a].op \in {"get", "update"} => call[a].keys[1] \in Keys
<1>1. CallOK(call[a]) /\ HoldsStripes(a) /\ call[a] # NoCall
  BY NoCallFacts DEF Base, ClientOK
<1>2. Running(cmd[a]) /\ Phase(cmd[a], call[a]) /\ call[a].op # "none"
  BY <1>1, Zenon DEF Base, ClientOK
<1>3. call[a].op \in {"get", "update"} => call[a].keys[1] \in Keys
  BY <1>1 DEF CallOK
<1> QED BY <1>1, <1>2, <1>3, IdleIsNotRunning, Zenon

\* Get returns: the handler is given what is visible under its key.
LEMMA ReadsEffect ==
  ASSUME Base, NEW a \in Clients, Reads(a)
  PROVE  /\ Shapes' /\ OthersStay(a)
         /\ UNCHANGED <<db, now, holder, late, timeouts, cursors, cursorN, walk, short>>
         /\ call[a].op = "get" /\ call[a].at = "read"
         /\ Resumes(a, cmd[a], Visible(call[a].keys[1]))
<1> DEFINE r == Visible(call[a].keys[1])
<1> DEFINE g == Resume(a, r)
<1>1. Shapes
  BY DEF Base, Shapes
<1>2. /\ call[a].op = "get" /\ call[a].at = "read"
      /\ call' = [call EXCEPT ![a] = g.call] /\ cmd' = [cmd EXCEPT ![a] = g.cmd]
      /\ UNCHANGED <<db, now, holder, late, timeouts, cursors, cursorN, walk, short>>
  BY ZenonT(60) DEF Reads, GetReturns, Runs
<1>3. Running(cmd[a]) /\ call[a].keys[1] \in Keys
  BY <1>2, InCall, Zenon
<1>4. r.exp \in Int
  BY <1>3, VisibleDeadline DEF Base
<1>5. Outcome(cmd[a], r, g)
  BY <1>3, <1>4, HandlerOutcome, ZenonT(60) DEF Resume
<1> HIDE DEF g, r
<1>6. /\ call'[a] = g.call /\ cmd'[a] = g.cmd
      /\ \A c \in Clients \ {a} : call'[c] = call[c] /\ cmd'[c] = cmd[c]
      /\ DOMAIN call' = Clients /\ DOMAIN cmd' = Clients
  BY <1>1, <1>2, Installed, Zenon
<1>7. Resumes(a, cmd[a], r)
  BY <1>5, <1>6, Zenon DEF Resumes
<1>8. Shapes' /\ OthersStay(a)
  BY <1>1, <1>2, <1>6 DEF Shapes, OthersStay, Stripes
<1> QED BY <1>2, <1>7, <1>8, Zenon DEF r

\* A write lands: the store holds what the call carries, the handler goes on.
LEMMA WritesEffect ==
  ASSUME Base, NEW a \in Clients, Writes(a)
  PROVE  /\ Shapes' /\ OthersStay(a)
         /\ UNCHANGED <<now, late, timeouts, cursors, cursorN, walk, short>>
         /\ call[a].at = "write" /\ db' = Applied(call[a].muts)
         /\ Resumes(a, cmd[a], Absent)
<1> DEFINE g == Resume(a, Absent)
<1>1. Shapes
  BY DEF Base, Shapes
<1>2. /\ call[a].at = "write" /\ db' = Applied(call[a].muts) /\ Release(a)
      /\ call' = [call EXCEPT ![a] = g.call] /\ cmd' = [cmd EXCEPT ![a] = g.cmd]
      /\ UNCHANGED <<now, late, timeouts, cursors, cursorN, walk, short>>
  BY ZenonT(60) DEF Writes, WriteReturns, Runs
<1>3. Running(cmd[a])
  BY <1>2, InCall
<1>4. Absent.exp \in Int
  BY DEF Absent
<1>5. Outcome(cmd[a], Absent, g)
  BY <1>3, <1>4, HandlerOutcome, Zenon DEF Resume
<1> HIDE DEF g
<1>6. /\ call'[a] = g.call /\ cmd'[a] = g.cmd
      /\ \A c \in Clients \ {a} : call'[c] = call[c] /\ cmd'[c] = cmd[c]
      /\ DOMAIN call' = Clients /\ DOMAIN cmd' = Clients
  BY <1>1, <1>2, Installed, Zenon
<1>7. Resumes(a, cmd[a], Absent)
  BY <1>5, <1>6, Zenon DEF Resumes
<1>8. /\ DOMAIN holder' = Stripes
      /\ \A c \in Clients \ {a}, s \in Stripes : holder[s] = c => holder'[s] = c
  BY <1>1, <1>2, Released, Zenon
<1>9. Shapes' /\ OthersStay(a)
  BY <1>1, <1>2, <1>6, <1>8, Zenon DEF Shapes, OthersStay, Stripes
<1> QED BY <1>2, <1>7, <1>9, Zenon

\* A call that ends with an error leaves its client between commands.
LEMMA ErrsEffect ==
  ASSUME Base, NEW a \in Clients, Errs(a)
  PROVE  /\ Shapes' /\ OthersStay(a)
         /\ UNCHANGED <<db, now, cursors, cursorN, walk, short>>
         /\ call[a].at \in {"read", "write"} /\ call'[a] = NoCall /\ cmd'[a] = Idle
         /\ late' = late \/ late' = late \cup {call[a].muts}
<1>1. Shapes
  BY DEF Base, Shapes
<1>2. /\ call[a].at \in {"read", "write"} /\ Release(a)
      /\ late' = late \/ late' = late \cup {call[a].muts}
      /\ call' = [call EXCEPT ![a] = NoCall] /\ cmd' = [cmd EXCEPT ![a] = Idle]
      /\ UNCHANGED <<db, now, cursors, cursorN, walk, short>>
  BY DEF Errs, CallFails, Runs, Replied, Goes
<1>3. /\ call'[a] = NoCall /\ cmd'[a] = Idle
      /\ \A c \in Clients \ {a} : call'[c] = call[c] /\ cmd'[c] = cmd[c]
      /\ DOMAIN call' = Clients /\ DOMAIN cmd' = Clients
  BY <1>1, <1>2, Zenon DEF Shapes
<1>4. /\ DOMAIN holder' = Stripes
      /\ \A c \in Clients \ {a}, s \in Stripes : holder[s] = c => holder'[s] = c
  BY <1>1, <1>2, Released, ZenonT(60)
<1>5. Shapes' /\ OthersStay(a)
  BY <1>1, <1>2, <1>3, <1>4 DEF Shapes, OthersStay, Stripes
<1> QED BY <1>2, <1>3, <1>5, Zenon

\* Update read its key and called its function: it writes what the function
\* answers under the same stripe, or ends.
LEMMA UpdateFnEffect ==
  ASSUME Base, NEW a \in Clients, UpdateFn(a)
  PROVE  LET x == call[a]
             y == call'[a]
             cur == Visible(x.keys[1])
             f == Callback(cmd[a], cur)
         IN  /\ Shapes' /\ OthersStay(a)
             /\ UNCHANGED <<db, now, late, timeouts, cursors, cursorN, walk, short>>
             /\ x.op = "update" /\ x.at = "read"
             /\ \/ /\ f.act \in {"put", "delete"} /\ UNCHANGED <<holder, cmd>>
                   /\ DOMAIN y = CallFields /\ y.op = x.op /\ y.keys = x.keys /\ y.at = "write"
                   /\ y.cur = cur /\ y.muts = Only(x.keys[1], f.rec)
                \/ f.act \notin {"put", "delete"} /\ Resumes(a, cmd[a], cur)
<1> DEFINE x == call[a]
<1> DEFINE y == call'[a]
<1> DEFINE cur == Visible(x.keys[1])
<1> DEFINE f == Callback(cmd[a], cur)
<1> DEFINE g == IF f.act \in {"error", "panic"} THEN Replied ELSE Resume(a, cur)
<1>1. Shapes
  BY DEF Base, Shapes
<1>2. /\ x.op = "update" /\ x.at = "read"
      /\ \/ UpdateReads(a, f.act, f.rec) /\ UNCHANGED cmd
         \/ UpdateReturns(a, f.act, g.call) /\ Runs(a, g)
      /\ UNCHANGED <<walk, short>>
  BY ZenonT(60) DEF UpdateFn
<1>3. Running(cmd[a]) /\ x.keys[1] \in Keys /\ CallOK(x)
  BY <1>2, InCall, Zenon
<1>4. cur.exp \in Int
  BY <1>3, VisibleDeadline DEF Base
<1>5. Outcome(cmd[a], cur, g)
  <2>1. Outcome(cmd[a], cur, Resume(a, cur))
    BY <1>3, <1>4, HandlerOutcome, Zenon DEF Resume
  <2> QED BY <2>1, Zenon DEF Outcome
<1> HIDE DEF g, f
<1>6. CASE UpdateReads(a, f.act, f.rec) /\ UNCHANGED cmd
  <2>1. /\ f.act \in {"put", "delete"}
        /\ call' = [call EXCEPT ![a].at = "write", ![a].cur = cur, ![a].muts = Only(x.keys[1], f.rec)]
        /\ UNCHANGED <<db, now, holder, late, timeouts, cursors, cursorN, cmd>>
    BY <1>6, Zenon DEF UpdateReads
  <2>2. DOMAIN x = CallFields
    BY <1>3 DEF CallOK
  <2>3. /\ DOMAIN y = CallFields /\ y.op = x.op /\ y.keys = x.keys /\ y.at = "write"
        /\ y.cur = cur /\ y.muts = Only(x.keys[1], f.rec)
    BY <1>1, <2>1, <2>2, Zenon DEF Shapes, CallFields
  <2>4. DOMAIN call' = Clients /\ \A c \in Clients \ {a} : call'[c] = call[c]
    BY <1>1, <2>1, Zenon DEF Shapes
  <2> HIDE DEF x, y, cur
  <2>5. Shapes' /\ OthersStay(a)
    BY <1>1, <1>2, <2>1, <2>4 DEF Shapes, OthersStay, Stripes
  <2> QED BY <1>2, <2>1, <2>3, <2>5, Zenon DEF x, y, cur, f
<1>7. CASE UpdateReturns(a, f.act, g.call) /\ Runs(a, g)
  <2>1. /\ f.act \notin {"put", "delete"} /\ Release(a)
        /\ call' = [call EXCEPT ![a] = g.call] /\ cmd' = [cmd EXCEPT ![a] = g.cmd]
        /\ UNCHANGED <<db, now, late, timeouts, cursors, cursorN>>
    BY <1>7, Zenon DEF UpdateReturns, Runs
  <2>2. /\ call'[a] = g.call /\ cmd'[a] = g.cmd
        /\ \A c \in Clients \ {a} : call'[c] = call[c] /\ cmd'[c] = cmd[c]
        /\ DOMAIN call' = Clients /\ DOMAIN cmd' = Clients
    BY <1>1, <2>1, Installed, Zenon
  <2>3. Resumes(a, cmd[a], cur)
    BY <1>5, <2>2, Zenon DEF Resumes
  <2>4. /\ DOMAIN holder' = Stripes
        /\ \A c \in Clients \ {a}, s \in Stripes : holder[s] = c => holder'[s] = c
    BY <1>1, <2>1, Released, Zenon
  <2>5. Shapes' /\ OthersStay(a)
    BY <1>1, <1>2, <2>1, <2>2, <2>4 DEF Shapes, OthersStay, Stripes
  <2> QED BY <1>2, <2>1, <2>3, <2>5, Zenon DEF f
<1> QED BY <1>2, <1>6, <1>7, Zenon

\* cursors' holds entries of cursors only, each as it was.
Fewer == /\ DOMAIN cursors' \subseteq DOMAIN cursors
         /\ \A i \in DOMAIN cursors' : cursors'[i] = cursors[i]

\* A SCAN's cursor is taken out of the table.
LEMMA CursorFoundEffect ==
  ASSUME Base, NEW a \in Clients, CursorFound(a)
  PROVE  LET x == call[a]
             y == call'[a]
         IN  /\ Shapes' /\ OthersStay(a)
             /\ UNCHANGED <<db, now, holder, late, timeouts, cursorN, cmd, walk, short>>
             /\ x.at = "resume" /\ x.id \in DOMAIN cursors /\ Fewer
             /\ DOMAIN y = CallFields /\ y.op = x.op /\ y.keys = x.keys /\ y.muts = x.muts
             /\ y.at = "read" /\ y.start = cursors[x.id].start
<1> DEFINE x == call[a]
<1> DEFINE y == call'[a]
<1>1. Shapes
  BY DEF Base, Shapes
<1>2. /\ x.at = "resume" /\ x.id \in DOMAIN cursors
      /\ call' = [call EXCEPT ![a].at = "read", ![a].start = cursors[x.id].start]
      /\ cursors' = [i \in DOMAIN cursors \ {x.id} |-> cursors[i]]
      /\ UNCHANGED <<db, now, holder, late, timeouts, cursorN, cmd, walk, short>>
  BY ZenonT(60) DEF CursorFound, ScanResumes, Resolvable
<1>3. DOMAIN x = CallFields
  BY DEF Base, ClientOK, CallOK
<1>4. /\ DOMAIN y = CallFields /\ y.op = x.op /\ y.keys = x.keys /\ y.muts = x.muts
      /\ y.at = "read" /\ y.start = cursors[x.id].start
  BY <1>1, <1>2, <1>3, Zenon DEF Shapes, CallFields
<1>5. DOMAIN call' = Clients /\ \A c \in Clients \ {a} : call'[c] = call[c]
  BY <1>1, <1>2, Zenon DEF Shapes
<1> HIDE DEF x, y
<1>6. Fewer
  BY <1>2 DEF Fewer
<1>7. Shapes' /\ OthersStay(a)
  BY <1>1, <1>2, <1>5 DEF Shapes, OthersStay, Stripes
<1> QED BY <1>2, <1>4, <1>6, <1>7, Zenon DEF x, y

\* A cursor that is unknown or has expired ends the command.
LEMMA CursorRefusedEffect ==
  ASSUME Base, NEW a \in Clients, CursorRefused(a)
  PROVE  /\ Shapes' /\ OthersStay(a)
         /\ UNCHANGED <<db, now, holder, late, timeouts, cursorN, short>>
         /\ call[a].at = "resume" /\ call'[a] = NoCall /\ cmd'[a] = Idle /\ Fewer
         /\ walk'[a] = walk[a] \/ walk'[a].id = 0
<1>1. Shapes
  BY DEF Base, Shapes
<1>2. /\ call[a].at = "resume"
      /\ cursors' = [i \in DOMAIN cursors \ {call[a].id} |-> cursors[i]]
      /\ call' = [call EXCEPT ![a] = NoCall] /\ cmd' = [cmd EXCEPT ![a] = Idle]
      /\ UNCHANGED <<db, now, holder, late, timeouts, cursorN, short>>
      /\ walk' = walk \/ walk' = [walk EXCEPT ![a] = [id |-> 0, got |-> {}]]
  BY DEF CursorRefused, ScanRefused, Runs, Replied, Goes
<1>3. /\ call'[a] = NoCall /\ cmd'[a] = Idle
      /\ \A c \in Clients \ {a} : call'[c] = call[c] /\ cmd'[c] = cmd[c]
      /\ DOMAIN call' = Clients /\ DOMAIN cmd' = Clients
  BY <1>1, <1>2, ZenonT(60) DEF Shapes
<1>4. /\ DOMAIN walk' = Clients /\ \A c \in Clients \ {a} : walk'[c] = walk[c]
      /\ walk'[a] = walk[a] \/ walk'[a].id = 0
  BY <1>1, <1>2, SMTT(60) DEF Shapes
<1>5. Fewer
  BY <1>2, Zenon DEF Fewer
<1>6. Shapes' /\ OthersStay(a)
  BY <1>1, <1>2, <1>3, <1>4 DEF Shapes, OthersStay, Stripes
<1> QED BY <1>2, <1>3, <1>4, <1>5, <1>6, ZenonT(60)

\* A page arrives: a cursor is kept for the next, and `short` tells of a walk
\* that ended without a key it should have had.
LEMMA ScannedEffect ==
  ASSUME Base, NEW a \in Clients, Scanned(a)
  PROVE  LET page == Page(call[a].start, call[a].count)
             id == IF page.next = 0 THEN 0 ELSE cursorN'
             g == Handler(cmd[a], Absent, page, id)
             got == page.keys \cup IF cmd[a].name = "scan" THEN walk[a].got ELSE cmd[a].got
         IN  /\ Shapes' /\ OthersStay(a)
             /\ UNCHANGED <<db, now, holder, late, timeouts>>
             /\ call[a].op = "scan" /\ call[a].at = "read"
             /\ Resumes(a, cmd[a], Absent) /\ call'[a] = g.call /\ cmd'[a] = g.cmd
             /\ nextCursor(page)
             /\ walk'[a] = IF cmd[a].name = "scan" THEN [id |-> id, got |-> IF id = 0 THEN {} ELSE got]
                           ELSE walk[a]
             /\ short' => short \/ /\ cmd[a].name \in WalkNames /\ page.next = 0
                                   /\ ~(kept[a][cmd[a].name] \subseteq got)
<1> DEFINE page == Page(call[a].start, call[a].count)
<1> DEFINE id == IF page.next = 0 THEN 0 ELSE cursorN'
<1> DEFINE g == Handler(cmd[a], Absent, page, id)
<1> DEFINE got == page.keys \cup IF cmd[a].name = "scan" THEN walk[a].got ELSE cmd[a].got
<1> DEFINE w == [id |-> id, got |-> IF id = 0 THEN {} ELSE got]
<1>1. Shapes
  BY DEF Base, Shapes
<1>2. /\ call[a].op = "scan" /\ call[a].at = "read" /\ nextCursor(page)
      /\ call' = [call EXCEPT ![a] = g.call] /\ cmd' = [cmd EXCEPT ![a] = g.cmd]
      /\ walk' = IF cmd[a].name = "scan" THEN [walk EXCEPT ![a] = w] ELSE walk
      /\ UNCHANGED <<db, now, holder, late, timeouts>>
  BY Zenon DEF Scanned, ScanReturns, Runs
<1>3. short' => short \/ /\ cmd[a].name \in WalkNames /\ page.next = 0
                         /\ ~(kept[a][cmd[a].name] \subseteq got)
  BY ZenonT(60) DEF Scanned
<1>4. Running(cmd[a])
  BY <1>2, InCall, Zenon
<1>5. Absent.exp \in Int
  BY DEF Absent
<1>6. Outcome(cmd[a], Absent, g)
  BY <1>4, <1>5, HandlerOutcome, ZenonT(60)
<1> HIDE DEF g, page, id, got, w
<1>7. /\ call'[a] = g.call /\ cmd'[a] = g.cmd
      /\ \A c \in Clients \ {a} : call'[c] = call[c] /\ cmd'[c] = cmd[c]
      /\ DOMAIN call' = Clients /\ DOMAIN cmd' = Clients
  BY <1>1, <1>2, Installed, Zenon
<1>8. Resumes(a, cmd[a], Absent)
  BY <1>6, <1>7, Zenon DEF Resumes
<1>9. /\ DOMAIN walk' = Clients /\ \A c \in Clients \ {a} : walk'[c] = walk[c]
      /\ walk'[a] = IF cmd[a].name = "scan" THEN w ELSE walk[a]
  BY <1>1, <1>2, Zenon DEF Shapes
<1>10. Shapes' /\ OthersStay(a)
  BY <1>1, <1>2, <1>7, <1>9 DEF Shapes, OthersStay, Stripes
<1> QED BY <1>2, <1>3, <1>7, <1>8, <1>9, <1>10, Zenon DEF g, page, id, got, w

-----------------------------------------------------------------------------
(* Base is inductive. *)

\* The base of the invariant holds at the start.
LEMMA BaseInit ==
  Init => Base
<1> SUFFICES ASSUME Init PROVE Base
  OBVIOUS
<1>1. /\ DOMAIN call = Clients /\ DOMAIN cmd = Clients /\ DOMAIN walk = Clients
      /\ DOMAIN holder = Stripes
  BY DEF Init, ClientInit
<1>2. ASSUME NEW c \in Clients PROVE ClientOK(c) /\ HoldsStripes(c)
  <2>1. call[c] = NoCall /\ cmd[c] = Idle
    BY Zenon DEF Init, ClientInit
  <2>2. CallOK(NoCall) /\ NoCall.op \notin Striped
    BY NoCallFacts, SMTT(60) DEF CallOK, Striped
  <2> QED BY <2>1, <2>2, Zenon DEF ClientOK, HoldsStripes
<1>3. Deadlines
  BY CommandsAssumption DEF Init, ClientInit, Deadlines
<1> QED BY <1>1, <1>2, <1>3, Zenon DEF Base

\* A handler that goes on leaves its client in order.
LEMMA ResumedOK ==
  ASSUME NEW a \in Clients, NEW m, NEW r, Resumes(a, m, r)
  PROVE  ClientOK(a)' /\ HoldsStripes(a)'
<1>1. PICK g : Outcome(m, r, g) /\ call'[a] = g.call /\ cmd'[a] = g.cmd
  BY DEF Resumes
<1>2. CASE g = Replied
  <2>1. call'[a] = NoCall /\ cmd'[a] = Idle
    BY <1>1, <1>2, Zenon DEF Replied, Goes
  <2>2. CallOK(NoCall) /\ NoCall.op \notin Striped
    BY NoCallFacts DEF CallOK, Striped
  <2> QED BY <2>1, <2>2, ZenonT(60) DEF ClientOK, HoldsStripes
<1>3. CASE GoesOn(m, r, g)
  <2>1. Running(cmd'[a]) /\ Fresh(call'[a]) /\ Phase(cmd'[a], call'[a])
    BY <1>1, <1>3, Zenon DEF GoesOn
  <2>2. ClientOK(a)'
    BY <2>1, Zenon DEF ClientOK, Fresh
  <2>3. HoldsStripes(a)'
    BY <2>1, Zenon DEF HoldsStripes, Fresh
  <2> QED BY <2>2, <2>3
<1> QED BY <1>1, <1>2, <1>3, Zenon DEF Outcome

\* The clients that do not act stay in order: the stripes they hold are theirs.
LEMMA BystanderOK ==
  ASSUME Base, NEW a, OthersStay(a), NEW c \in Clients, c # a
  PROVE  ClientOK(c)' /\ HoldsStripes(c)'
<1>1. call'[c] = call[c] /\ cmd'[c] = cmd[c] /\ \A s \in Stripes : holder[s] = c => holder'[s] = c
  BY DEF OthersStay
<1>2. ClientOK(c) /\ HoldsStripes(c)
  BY DEF Base
<1>3. ClientOK(c)'
  BY <1>1, <1>2, Zenon DEF ClientOK
<1>4. call[c].op \in Striped => StripesOf(call[c].keys) \subseteq Stripes
  <2>1. CallOK(call[c])
    BY <1>2, Zenon DEF ClientOK
  <2>2. call[c].keys \in Seq(Keys)
    BY <2>1, Zenon DEF CallOK
  <2> QED BY <2>2, KeysFacts
<1>5. HoldsStripes(c)'
  BY <1>1, <1>2, <1>4 DEF HoldsStripes
<1> QED BY <1>3, <1>5

\* To keep the base, a step of one client has that client to account for.
LEMMA BaseFrom ==
  ASSUME Base, NEW a \in Clients, Shapes', OthersStay(a), ClientOK(a)', HoldsStripes(a)', Deadlines'
  PROVE  Base'
<1>1. \A c \in Clients : ClientOK(c)' /\ HoldsStripes(c)'
  BY BystanderOK
<1> QED BY <1>1, Zenon DEF Base, Shapes

\* A client that has been answered with an error.
LEMMA ErroredOK ==
  ASSUME NEW a \in Clients, call'[a] = NoCall, cmd'[a] = Idle
  PROVE  ClientOK(a)' /\ HoldsStripes(a)'
<1>1. CallOK(NoCall) /\ NoCall.op \notin Striped
  BY NoCallFacts DEF CallOK, Striped
<1> QED BY <1>1, Zenon DEF ClientOK, HoldsStripes

\* After a lock the client holds the stripes its call no longer waits for.
LEMMA LockedOK ==
  ASSUME Base, NEW a \in Clients, Locks(a)
  PROVE  ClientOK(a)' /\ HoldsStripes(a)'
<1> DEFINE x == call[a]
<1> DEFINE y == call'[a]
<1>1. /\ x.at = "lock" /\ DOMAIN y = CallFields /\ cmd'[a] = cmd[a]
      /\ y.op = x.op /\ y.keys = x.keys /\ y.muts = x.muts
      /\ y.at = IF y.locks # {} THEN "lock" ELSE IF x.op = "update" THEN "read" ELSE "write"
      /\ \E s \in x.locks : /\ y.locks = x.locks \ {s} /\ s \in Stripes /\ holder'[s] = a
                            /\ \A t \in Stripes \ {s} : holder'[t] = holder[t]
  BY LockEffect, SMTT(60)
<1>2. Running(cmd[a]) /\ Phase(cmd[a], x) /\ CallOK(x) /\ HoldsStripes(a) /\ x.op # "none"
  BY <1>1, InCall, Zenon
<1> HIDE DEF x, y
<1>3. PICK s \in x.locks : /\ y.locks = x.locks \ {s} /\ s \in Stripes /\ holder'[s] = a
                           /\ \A t \in Stripes \ {s} : holder'[t] = holder[t]
  BY <1>1, Zenon
<1>4. x.op \in Striped /\ x.locks \subseteq StripesOf(x.keys) /\ StripesOf(x.keys) \subseteq Stripes
  <2>1. x.keys \in Seq(Keys)
    BY <1>2, Zenon DEF CallOK
  <2>2. StripesOf(x.keys) \subseteq Stripes
    BY <2>1, KeysFacts, Zenon
  <2> QED BY <1>1, <1>2, <2>2 DEF CallOK, Striped
<1>5. CallOK(y)
  BY <1>1, <1>2, <1>3, <1>4, Zenon DEF CallOK
<1>6. Phase(cmd[a], y)
  <2>1. y.at = "write" => x.op # "update"
    BY <1>1
  <2> QED BY <1>1, <1>2, <2>1, Zenon DEF Phase
<1>7. ClientOK(a)'
  BY <1>1, <1>2, <1>5, <1>6, Zenon DEF ClientOK, y
<1>8. \A t \in StripesOf(x.keys) : holder[t] = a \/ t \in x.locks
  BY <1>1, <1>2, <1>4, ZenonT(60) DEF HoldsStripes, x
<1>9. \A t \in StripesOf(y.keys) : holder'[t] = a \/ (y.at = "lock" /\ t \in y.locks)
  BY <1>1, <1>3, <1>4, <1>8
<1>10. HoldsStripes(a)'
  BY <1>9, Zenon DEF HoldsStripes, y
<1> QED BY <1>7, <1>10, Zenon

\* After Update's function the client still holds the stripe it is to write under.
LEMMA UpdatedOK ==
  ASSUME Base, NEW a \in Clients, UpdateFn(a)
  PROVE  ClientOK(a)' /\ HoldsStripes(a)'
<1> DEFINE x == call[a]
<1> DEFINE y == call'[a]
<1> DEFINE k == x.keys[1]
<1> DEFINE f == Callback(cmd[a], Visible(k))
<1>1. /\ x.op = "update" /\ x.at = "read"
      /\ \/ /\ f.act \in {"put", "delete"} /\ UNCHANGED <<holder, cmd>>
            /\ DOMAIN y = CallFields /\ y.op = x.op /\ y.keys = x.keys /\ y.at = "write"
            /\ y.cur = Visible(k) /\ y.muts = Only(k, f.rec)
         \/ Resumes(a, cmd[a], Visible(k))
  BY UpdateFnEffect, ZenonT(60)
<1>2. /\ Running(cmd[a]) /\ Phase(cmd[a], x) /\ CallOK(x) /\ HoldsStripes(a) /\ x.op # "none"
      /\ k \in Keys
  BY <1>1, InCall, Zenon
<1>3. CASE Resumes(a, cmd[a], Visible(k))
  BY <1>3, ResumedOK
<1>4. CASE /\ f.act \in {"put", "delete"} /\ UNCHANGED <<holder, cmd>>
           /\ DOMAIN y = CallFields /\ y.op = x.op /\ y.keys = x.keys /\ y.at = "write"
           /\ y.muts = Only(k, f.rec)
  <2>1. cmd[a].name \in OneUpdate \cup {"renamenx", "copy"}
    BY <1>1, <1>2, Zenon DEF Phase
  <2>2. /\ f.rec.exp \in Int
        /\ cmd[a].name = "renamenx" => \/ f = ActionPut(cmd[a].rec) \/ f = ActionNone
    <3>1. Visible(k).exp \in Int
      BY <1>2, VisibleDeadline, Zenon DEF Base
    <3> QED BY <1>2, <2>1, <3>1, CallbackAnswers, ZenonT(60)
  <2> HIDE DEF f
  <2>3. cmd[a].name = "renamenx" => f.rec = cmd[a].rec
    BY <1>4, <2>2, SMTT(60) DEF ActionPut, ActionNone, Answer
  <2>4. DOMAIN Only(k, f.rec) = {k} /\ Only(k, f.rec)[k] = f.rec
    BY OnlyFacts, Zenon
  <2> HIDE DEF x
  <2>5. k \in Range(x.keys)
    <3>1. x.keys \in Seq(Keys) /\ Len(x.keys) >= 1
      BY <1>1, <1>2, SMTT(60) DEF CallOK
    <3> QED BY <3>1, KeysFacts
  <2>6. cmd[a].name \in Renaming => cmd[a].name = "renamenx" /\ (cmd[a].i = 2 => k = cmd[a].keys[2])
    <3>1. x.op = "update" /\ Phase(cmd[a], x)
      BY <1>1, <1>2, Zenon
    <3> DEFINE m == cmd[a]
    <3> HIDE DEF m
    <3>2. m.name \in Renaming => m.name = "renamenx" /\ (m.i = 2 => x.keys[1] = m.keys[2])
      BY <3>1, UpdatePhase, Zenon DEF m
    <3> QED BY <3>2, Zenon DEF m, k
  <2> HIDE DEF x, y, k
  <2>7. CallOK(y)
    BY <1>1, <1>2, <1>4, <2>2, <2>4, <2>5, Zenon DEF CallOK
  <2>8. Phase(cmd[a], y)
    BY <1>1, <1>2, <1>4, <2>3, <2>6, Zenon DEF Phase
  <2>9. ClientOK(a)'
    BY <1>1, <1>2, <1>4, <2>7, <2>8, Zenon DEF ClientOK, x, y
  <2>10. \A s \in StripesOf(x.keys) : holder[s] = a
    BY <1>1, <1>2, Zenon DEF HoldsStripes, x, Striped
  <2>11. HoldsStripes(a)'
    BY <1>4, <2>10, Zenon DEF HoldsStripes, x, y
  <2> QED BY <2>9, <2>11, Zenon
<1> QED BY <1>1, <1>3, <1>4, Zenon

\* After the cursor is found the page is to be read.
LEMMA FoundOK ==
  ASSUME Base, NEW a \in Clients, CursorFound(a)
  PROVE  ClientOK(a)' /\ HoldsStripes(a)'
<1> DEFINE x == call[a]
<1> DEFINE y == call'[a]
<1>1. /\ x.at = "resume" /\ DOMAIN y = CallFields /\ y.op = x.op /\ y.keys = x.keys
      /\ y.muts = x.muts /\ y.at = "read" /\ cmd'[a] = cmd[a]
  BY CursorFoundEffect, Zenon
<1>2. Running(cmd[a]) /\ Phase(cmd[a], x) /\ CallOK(x) /\ x.op # "none"
  BY <1>1, InCall, Zenon
<1> HIDE DEF x, y
<1>3. x.op = "scan"
  BY <1>1, <1>2, Zenon DEF CallOK
<1>4. CallOK(y) /\ y.op \notin Striped
  BY <1>1, <1>2, <1>3, SMTT(60) DEF CallOK, Striped
<1>5. Phase(cmd[a], y)
  BY <1>1, <1>2, <1>3, Zenon DEF Phase
<1> QED BY <1>1, <1>2, <1>4, <1>5, ZenonT(60) DEF ClientOK, HoldsStripes, y

\* What is written has a deadline, 0 or an instant.
LEMMA AppliedDeadlines ==
  ASSUME Deadlines, NEW muts, \A k \in DOMAIN muts : muts[k].exp \in Int, db' = Applied(muts)
  PROVE  \A k \in Keys : db'[k].exp \in Int
  BY DEF Deadlines, Applied

\* Every step keeps the base.
LEMMA BaseStep ==
  Base /\ [Next]_vars => Base'
<1> SUFFICES ASSUME Base, [Next]_vars PROVE Base'
  OBVIOUS
<1>1. Deadlines
  BY DEF Base
<1>2. UNCHANGED <<db, now, late>> => Deadlines'
  BY <1>1 DEF Deadlines
<1>3. ASSUME NEW a \in Clients, Dispatch(a) PROVE Base'
  <2>1. \E m : Resumes(a, m, Absent)
    BY <1>3, DispatchEffect, Zenon
  <2>2. Shapes' /\ OthersStay(a) /\ UNCHANGED <<db, now, late>>
    BY <1>3, DispatchEffect, Zenon
  <2> QED BY <1>2, <2>1, <2>2, ResumedOK, BaseFrom, Zenon
<1>4. ASSUME NEW a \in Clients, Locks(a) PROVE Base'
  <2>1. Shapes' /\ OthersStay(a) /\ UNCHANGED <<db, now, late>>
    BY <1>4, LockEffect, Zenon
  <2> QED BY <1>2, <1>4, <2>1, LockedOK, BaseFrom, Zenon
<1>5. ASSUME NEW a \in Clients, Reads(a) PROVE Base'
  <2>1. Shapes' /\ OthersStay(a) /\ UNCHANGED <<db, now, late>> /\ \E r : Resumes(a, cmd[a], r)
    BY <1>5, ReadsEffect, Zenon
  <2> QED BY <1>2, <2>1, ResumedOK, BaseFrom, Zenon
<1>6. ASSUME NEW a \in Clients, UpdateFn(a) PROVE Base'
  <2>1. Shapes' /\ OthersStay(a) /\ UNCHANGED <<db, now, late>>
    BY <1>6, UpdateFnEffect, Zenon
  <2> QED BY <1>2, <1>6, <2>1, UpdatedOK, BaseFrom, Zenon
<1>7. ASSUME NEW a \in Clients, Writes(a) PROVE Base'
  <2>1. /\ Shapes' /\ OthersStay(a) /\ UNCHANGED <<now, late>> /\ Resumes(a, cmd[a], Absent)
        /\ db' = Applied(call[a].muts)
    BY <1>7, WritesEffect, Zenon
  <2>2. \A k \in DOMAIN call[a].muts : call[a].muts[k].exp \in Int
    BY Zenon DEF Base, ClientOK, CallOK
  <2>3. Deadlines'
    <3>1. \A k \in Keys : db'[k].exp \in Int
      BY <1>1, <2>1, <2>2, AppliedDeadlines
    <3> QED BY <1>1, <2>1, <3>1, Zenon DEF Deadlines
  <2> QED BY <2>1, <2>3, ResumedOK, BaseFrom, Zenon
<1>8. ASSUME NEW a \in Clients, Errs(a) PROVE Base'
  <2>1. /\ Shapes' /\ OthersStay(a) /\ UNCHANGED <<db, now>> /\ call'[a] = NoCall /\ cmd'[a] = Idle
        /\ late' = late \/ late' = late \cup {call[a].muts}
    BY <1>8, ErrsEffect, Zenon
  <2>2. \A k \in DOMAIN call[a].muts : call[a].muts[k].exp \in Int
    BY Zenon DEF Base, ClientOK, CallOK
  <2>3. Deadlines'
    BY <1>1, <2>1, <2>2, Zenon DEF Deadlines
  <2> QED BY <2>1, <2>3, ErroredOK, BaseFrom, Zenon
<1>9. ASSUME NEW a \in Clients, CursorFound(a) PROVE Base'
  <2>1. Shapes' /\ OthersStay(a) /\ UNCHANGED <<db, now, late>>
    BY <1>9, CursorFoundEffect, Zenon
  <2> QED BY <1>2, <1>9, <2>1, FoundOK, BaseFrom, Zenon
<1>10. ASSUME NEW a \in Clients, CursorRefused(a) PROVE Base'
  <2>1. /\ Shapes' /\ OthersStay(a) /\ UNCHANGED <<db, now, late>>
        /\ call'[a] = NoCall /\ cmd'[a] = Idle
    BY <1>10, CursorRefusedEffect, Zenon
  <2> QED BY <1>2, <2>1, ErroredOK, BaseFrom, Zenon
<1>11. ASSUME NEW a \in Clients, Scanned(a) PROVE Base'
  <2>1. Shapes' /\ OthersStay(a) /\ UNCHANGED <<db, now, late>> /\ Resumes(a, cmd[a], Absent)
    BY <1>11, ScannedEffect, ZenonT(60)
  <2> QED BY <1>2, <2>1, ResumedOK, BaseFrom, Zenon
<1>12. ASSUME UNCHANGED <<call, cmd, walk, holder>>, Deadlines' PROVE Base'
  BY <1>12, Zenon DEF Base, ClientOK, HoldsStripes
<1>13. CASE Engine
  <2>1. UNCHANGED <<call, cmd, walk, holder>>
    BY <1>13, Zenon DEF Engine, LateWrite, Tick
  <2>2. CASE LateWrite
    <3>1. PICK muts \in late : late' = late \ {muts} /\ db' = Applied(muts) /\ now' = now
      BY <2>2, ZenonT(60) DEF LateWrite
    <3>2. \A k \in Keys : db'[k].exp \in Int
      BY <1>1, <3>1, AppliedDeadlines, Zenon DEF Deadlines
    <3>3. Deadlines'
      BY <1>1, <3>1, <3>2 DEF Deadlines
    <3> QED BY <1>12, <2>1, <3>3, Zenon
  <2>3. CASE Tick
    <3>1. Deadlines'
      BY <1>1, <2>3 DEF Deadlines, Tick
    <3> QED BY <1>12, <2>1, <3>1, Zenon
  <2> QED BY <1>13, <2>2, <2>3, Zenon DEF Engine
<1>14. CASE UNCHANGED vars
  BY <1>2, <1>12, <1>14, Zenon DEF vars, clientVars
<1> QED BY <1>3, <1>4, <1>5, <1>6, <1>7, <1>8, <1>9, <1>10, <1>11, <1>13, <1>14, Zenon
        DEF Next, Step
=============================================================================
