------------------------------ MODULE Commands ------------------------------
(***************************************************************************)
(* The command handlers, as the store calls they make and what they do     *)
(* between two calls, run by concurrent connections against the LSM client *)
(* (LsmClient).  The functions they hand to Store.Update are StringOps'.   *)
(*                                                                         *)
(* Each client issues commands of its own kinds, one at a time, each with  *)
(* its arguments parsed (StringOps models the parsing).  A reply is not    *)
(* state: a client is "idle" when it has been sent.                        *)
(***************************************************************************)
EXTENDS LsmClient, StringOps

CONSTANTS Work,        \* the commands each client may issue
          Budget,      \* bound: commands per client
          Stored,      \* what the engine may hold at the start
          KeysBudget,  \* keysScanBudget
          PageSize     \* the page KEYS asks for

VARIABLES
  cmd,     \* the command each client runs, with its handler's local variables
  budget,  \* commands each client may still issue
  walk,    \* each client's SCAN: the cursor it was given, and the keys it got
  touched, \* keys others have changed since a client last read them, and how
  kept,    \* keys that have been live since a client's walk began, SCAN's or KEYS'
  created, \* clients told that they created the key, since it was last missing
  short    \* a walk has ended without a key that was there all along

OneUpdate == {"set", "setnx", "getset", "getdel", "getex", "append", "incrby", "decrby",
              "setrange", "expire", "persist"}
OneByOne == {"get", "strlen", "getrange", "ttl", "exists", "mget", "del"}
TwoKeys == {"rename", "renamenx", "copy"}
Batches == {"mset", "msetnx"}
WalkNames == {"scan", "keys"}

\* A command as the dispatcher hands it on: known, and with the keys its arity
\* asks for.  i, rec and got are the handler's local variables.
Command ==
  {m \in [name : OneUpdate \cup OneByOne \cup TwoKeys \cup Batches \cup WalkNames
                    \cup {"setex", "flushall", "randomkey"},
          keys : Seq(Keys), val : Seq(Int), n : Int, opts : SUBSET STRING, at : Int,
          i : {0}, rec : {Absent}, got : {{}}] :
     /\ m.name \in OneUpdate \cup {"setex"} => Len(m.keys) = 1
     /\ m.name \in TwoKeys => Len(m.keys) = 2
     /\ m.name \in OneByOne \cup Batches => Len(m.keys) >= 1}

ASSUME CommandsAssumption ==
  /\ Nobody \notin Clients
  /\ \A c \in Clients : Work[c] \subseteq Command
  /\ Budget \in [Clients -> Nat]
  /\ Stored \subseteq [Keys -> [found : BOOLEAN, val : Seq(Int), exp : Int]]
  /\ KeysBudget \in Nat /\ PageSize \in Nat \ {0}

vars == <<clientVars, cmd, budget, walk, touched, kept, created, short>>

Idle == [name |-> "idle", keys |-> <<>>, val |-> <<>>, n |-> 0, opts |-> {}, at |-> 0,
         i |-> 0, rec |-> Absent, got |-> {}]

Init ==
  /\ ClientInit
  /\ db \in Stored
  /\ cmd = [c \in Clients |-> Idle]
  /\ budget = Budget
  /\ walk = [c \in Clients |-> [id |-> 0, got |-> {}]]
  /\ touched = [c \in Clients |-> {}]
  /\ kept = [c \in Clients |-> [w \in WalkNames |-> {}]]
  /\ created = [k \in Keys |-> 0]
  /\ short = FALSE

-----------------------------------------------------------------------------
(* What a handler does with the result of a call: its locals, and the call *)
(* it makes next.  `Replied' ends it.                                      *)

Goes(m, next) == [cmd |-> m, call |-> next]
Replied == Goes(Idle, NoCall)

At(m, i) == [m EXCEPT !.i = i]
Holding(m, r) == [m EXCEPT !.rec = r]
Gathering(m, ks) == [m EXCEPT !.got = @ \cup ks]

\* A loop over the arguments, one call each.
NextKey(m) ==
  IF m.i = Len(m.keys) THEN Replied
  ELSE Goes(At(m, m.i + 1),
            IF m.name = "del" THEN Delete(m.keys[m.i + 1]) ELSE Get(m.keys[m.i + 1]))

renameKeySwapped(m, r) ==
  CASE m.i = 0 -> Goes(At(m, 1), Get(m.keys[1]))
    [] m.i = 1 -> IF ~r.found \/ m.keys[1] = m.keys[2] THEN Replied
                  ELSE Goes(At(Holding(m, r), 2), Delete(m.keys[1]))
    [] m.i = 2 -> Goes(At(m, 3),
                       IF m.name = "renamenx" THEN Update(m.keys[2]) ELSE Put(m.keys[2], m.rec))
    [] m.i = 3 -> Replied

\* RENAME and RENAMENX: read src, write dst, delete src.
renameKey(m, r) ==
  CASE m.i = 0 -> Goes(At(m, 1), Get(m.keys[1]))
    [] m.i = 1 -> IF ~r.found \/ m.keys[1] = m.keys[2] THEN Replied
                  ELSE Goes(At(Holding(m, r), 2),
                            IF m.name = "renamenx" THEN Update(m.keys[2]) ELSE Put(m.keys[2], r))
    [] m.i = 2 -> IF m.name = "renamenx" /\ r.found THEN Replied
                  ELSE Goes(At(m, 3), Delete(m.keys[1]))
    [] m.i = 3 -> Replied

cmdCopy(m, r) ==
  CASE m.i = 0 -> IF m.keys[1] = m.keys[2] THEN Replied
                  ELSE Goes(At(m, 1), Get(m.keys[1]))
    [] m.i = 1 -> IF ~r.found THEN Replied
                  ELSE Goes(At(Holding(m, r), 2), Update(m.keys[2]))
    [] m.i = 2 -> Replied

\* MSET writes every pair in one batch, and the last of a repeated key wins.
Pairs(m) == [k \in Range(m.keys) |-> Record(m.val, 0)]
cmdMSet(m) == IF m.i = 1 THEN Replied ELSE Goes(At(m, 1), MultiWrite(m.keys, Pairs(m)))

cmdMSetNXShort(m, r) ==
  CASE m.i > 0 /\ m.i <= Len(m.keys) /\ r.found -> Replied
    [] m.i > Len(m.keys) -> Replied
    [] OTHER -> IF m.i < Len(m.keys) - 1 THEN Goes(At(m, m.i + 1), Get(m.keys[m.i + 1]))
                ELSE Goes(At(m, Len(m.keys) + 1), MultiWrite(m.keys, Pairs(m)))

\* MSETNX looks at every key, then writes them all.
cmdMSetNX(m, r) ==
  CASE m.i > 0 /\ m.i <= Len(m.keys) /\ r.found -> Replied
    [] m.i > Len(m.keys) -> Replied
    [] OTHER -> IF m.i < Len(m.keys) THEN Goes(At(m, m.i + 1), Get(m.keys[m.i + 1]))
                ELSE Goes(At(m, Len(m.keys) + 1), MultiWrite(m.keys, Pairs(m)))

\* KEYS pages through the keyspace with cursors of its own.
cmdKeys(m, page, id) ==
  CASE m.i = 0 -> Goes(At(m, 1), Scan(0, PageSize))
    [] m.i = 1 -> IF Cardinality(m.got \cup page.keys) > KeysBudget \/ page.next = 0 THEN Replied
                  ELSE Goes(Gathering(m, page.keys), Scan(id, PageSize))

\* RANDOMKEY tries a cursor picked at random (m.n), then the start.
cmdRandomKey(m, page) ==
  CASE m.i = 0 -> Goes(At(m, 1), Scan(m.n, 1))
    [] m.i = 1 -> IF page.keys # {} THEN Replied ELSE Goes(At(m, 2), Scan(0, 1))
    [] m.i = 2 -> Replied

NoPage == [keys |-> {}, next |-> 0]

\* The handler of m goes on: r is the record its last call read, page and id
\* what a scan returned.
Handler(m, r, page, id) ==
  CASE m.name \in OneUpdate -> IF m.i = 1 \/ Rejected(m) THEN Replied
                                ELSE Goes(At(m, 1), Update(m.keys[1]))
    [] m.name \in OneByOne -> NextKey(m)
    [] m.name = "setex" -> IF m.i = 1 THEN Replied
                           ELSE Goes(At(m, 1), Put(m.keys[1], Record(m.val, m.at)))
    [] m.name \in {"rename", "renamenx"} -> renameKey(m, r)
    [] m.name = "copy" -> cmdCopy(m, r)
    [] m.name = "mset" -> cmdMSet(m)
    [] m.name = "msetnx" -> cmdMSetNX(m, r)
    [] m.name = "flushall" -> IF m.i = 1 THEN Replied ELSE Goes(At(m, 1), FlushAll)
    [] m.name = "scan" -> IF m.i = 1 THEN Replied ELSE Goes(At(m, 1), Scan(m.n, 1))
    [] m.name = "keys" -> cmdKeys(m, page, id)
    [] m.name = "randomkey" -> cmdRandomKey(m, page)

\* The function a command passes to Update.
Callback(m, cur) ==
  CASE m.name = "set" -> cmdSet(m, cur)
    [] m.name = "setnx" -> cmdSetNX(m, cur)
    [] m.name = "getset" -> cmdGetSet(m, cur)
    [] m.name = "getdel" -> cmdGetDel(cur)
    [] m.name = "getex" -> cmdGetEx(m, cur)
    [] m.name = "append" -> cmdAppend(m, cur)
    [] m.name = "incrby" -> incrBy(m, cur)
    [] m.name = "decrby" -> cmdDecrBy(m, cur)
    [] m.name = "setrange" -> cmdSetRange(m, cur)
    [] m.name = "expire" -> expireCmd(m, cur, now)
    [] m.name = "persist" -> cmdPersist(cur)
    [] m.name = "renamenx" -> IF cur.found THEN ActionNone ELSE ActionPut(m.rec)
    [] m.name = "copy" -> IF cur.found /\ "replace" \notin m.opts THEN ActionNone
                          ELSE ActionPut(m.rec)

-----------------------------------------------------------------------------
(* The actions. *)

\* What client c's handler does next: its last call read r.
Resume(c, r) == Handler(cmd[c], r, NoPage, 0)
Runs(c, g) == cmd' = [cmd EXCEPT ![c] = g.cmd]

\* A command is dispatched.  SCAN takes the cursor the client holds, and
\* RANDOMKEY a number below 1024, which may be anybody's cursor.
Dispatch(c) ==
  \E w \in Work[c] : \E n \in IF w.name = "randomkey" THEN 0..(cursorN + 1) ELSE {w.n} :
    LET m == [w EXCEPT !.n = IF w.name = "scan" THEN walk[c].id ELSE n]
        g == Handler(m, Absent, NoPage, 0)
    IN  /\ cmd[c] = Idle /\ budget[c] > 0
        /\ budget' = [budget EXCEPT ![c] = @ - 1]
        /\ Runs(c, g)
        /\ call' = [call EXCEPT ![c] = g.call]
        /\ UNCHANGED <<db, now, holder, late, timeouts, cursors, cursorN, walk, short>>

Locks(c) == Lock(c) /\ UNCHANGED <<cmd, budget, walk, short>>

Reads(c) ==
  LET g == Resume(c, Visible(call[c].keys[1])) IN
  /\ GetReturns(c, g.call) /\ Runs(c, g)
  /\ UNCHANGED <<budget, walk, short>>

\* Update's read, and what its function makes of it.  A panic ends the
\* connection, whose other commands are never read.
UpdateFn(c) ==
  LET cur == Visible(call[c].keys[1])
      a == Callback(cmd[c], cur)
      g == IF a.act \in {"error", "panic"} THEN Replied ELSE Resume(c, cur)
  IN  /\ call[c].op = "update" /\ call[c].at = "read"
      /\ \/ UpdateReads(c, a.act, a.rec) /\ UNCHANGED <<cmd, budget>>
         \/ /\ UpdateReturns(c, a.act, g.call) /\ Runs(c, g)
            /\ budget' = IF a.act = "panic" THEN [budget EXCEPT ![c] = 0] ELSE budget
      /\ UNCHANGED <<walk, short>>

\* The write is acknowledged.  renamenx saw no record at dst, and goes on.
Writes(c) ==
  LET g == Resume(c, Absent) IN
  /\ WriteReturns(c, g.call) /\ Runs(c, g)
  /\ UNCHANGED <<budget, walk, short>>

\* Every handler answers a failed call with an error and stops.
Errs(c) ==
  /\ CallFails(c, NoCall) /\ Runs(c, Replied)
  /\ UNCHANGED <<budget, walk, short>>

CursorFound(c) == ScanResumes(c) /\ UNCHANGED <<cmd, budget, walk, short>>

\* The client of a refused SCAN starts over.
CursorRefused(c) ==
  /\ ScanRefused(c, NoCall) /\ Runs(c, Replied)
  /\ walk' = IF cmd[c].name = "scan" THEN [walk EXCEPT ![c] = [id |-> 0, got |-> {}]] ELSE walk
  /\ UNCHANGED <<budget, short>>

\* A page arrives.  At the end of a walk its client has every key that was
\* live all along, or the walk came up short.
Scanned(c) ==
  LET page == Page(call[c].start, call[c].count)
      id == IF page.next = 0 THEN 0 ELSE cursorN'
      g == Handler(cmd[c], Absent, page, id)
      got == page.keys \cup IF cmd[c].name = "scan" THEN walk[c].got ELSE cmd[c].got
      over == cmd[c].name = "keys" /\ Cardinality(got) > KeysBudget
  IN  /\ ScanReturns(c, g.call) /\ Runs(c, g)
      /\ walk' = IF cmd[c].name = "scan" THEN [walk EXCEPT ![c] = [id |-> id, got |-> IF id = 0 THEN {} ELSE got]] ELSE walk
      /\ short' = (short \/ /\ cmd[c].name \in WalkNames /\ page.next = 0 /\ ~over
                            /\ ~(kept[c][cmd[c].name] \subseteq got))
      /\ UNCHANGED budget

Step(c) ==
  \/ Locks(c) \/ Reads(c) \/ UpdateFn(c) \/ Writes(c) \/ Errs(c)
  \/ CursorFound(c) \/ CursorRefused(c) \/ Scanned(c)

(* What the properties need to remember of a step.                         *)

Acts(c) == call'[c] # call[c]
ReadBy(c) == IF Acts(c) /\ call[c].at = "read" THEN Range(call[c].keys) ELSE {}
Changed == {k \in Keys : db'[k] # db[k]}
How == IF \E c \in Clients : Acts(c) /\ call[c].op # "flush" THEN "stripe" ELSE "no stripe"

Begins(c, w) == cmd[c] = Idle /\ cmd'[c].name = w /\ (w = "scan" => cmd'[c].n = 0)
Walks(c, w) == cmd[c].name = w \/ (w = "scan" /\ walk[c].id # 0)

Creates(m) ==
  \/ m.name \in {"setnx", "renamenx"}
  \/ m.name = "set" /\ "nx" \in m.opts
  \/ m.name = "copy" /\ "replace" \notin m.opts
Told(k) == {c \in Clients : /\ call[c].op = "update" /\ call[c].at = "write" /\ Acts(c)
                            /\ timeouts' = timeouts /\ call[c].keys = <<k>> /\ Creates(cmd[c])}

Watch ==
  /\ touched' = [c \in Clients |->
                   IF cmd'[c] = Idle THEN {}
                   ELSE {t \in touched[c] : t[1] \notin ReadBy(c)}
                        \cup IF Acts(c) THEN {} ELSE Changed \X {How}]
  /\ kept' = [c \in Clients |-> [w \in WalkNames |->
                 CASE Begins(c, w) -> Live'
                   [] ~Begins(c, w) /\ Walks(c, w)' -> kept[c][w] \cap Live'
                   [] OTHER -> {}]]
  /\ created' = [k \in Keys |-> IF k \in Live' THEN created[k] + Cardinality(Told(k)) ELSE 0]

Engine == (LateWrite \/ Tick) /\ UNCHANGED <<cmd, budget, walk, short>>

Next ==
  \/ \E c \in Clients : (Dispatch(c) \/ Step(c)) /\ Watch
  \/ Engine /\ Watch

Spec == Init /\ [][Next]_vars /\ \A c \in Clients : WF_vars(Step(c) /\ Watch)

-----------------------------------------------------------------------------
(* Properties. *)

\* Update is an atomic read-modify-write: when its write goes out, the key
\* still holds what the function saw, whatever the other clients do.  The two
\* writers that take no stripe, FLUSHALL and a request that outlived its
\* deadline, are the exceptions.
UpdateIsAtomic ==
  \A c \in Clients :
    call[c].op = "update" /\ call[c].at = "write" =>
      LET k == call[c].keys[1] IN
      \/ call[c].cur \in {Visible(k), db[k]}
      \/ <<k, "no stripe">> \in touched[c]

\* The same without the exceptions: what Store.Update promises ("an atomic
\* read-modify-write") and ADR-005 repeats ("fully atomic").
UpdateIsAlwaysAtomic ==
  \A c \in Clients :
    call[c].op = "update" /\ call[c].at = "write" =>
      call[c].cur \in {Visible(call[c].keys[1]), db[call[c].keys[1]]}

\* No other client, and no late request, has changed k since c last read it.
Undisturbed(c, k) == \A t \in touched[c] : t[1] # k

\* A RENAME never drops the record it moves: at every point of it, failed
\* calls included, the record is under src or under dst, unless somebody else
\* wrote one of the two.
RenameKeepsValue ==
  \A c \in Clients :
    LET m == cmd[c] IN
    /\ m.name \in {"rename", "renamenx"} /\ m.i >= 2
    /\ Undisturbed(c, m.keys[1]) /\ Undisturbed(c, m.keys[2])
    => m.rec \in {db[m.keys[1]], db[m.keys[2]]}

\* RENAMEs alone never empty the keyspace.
RenamesLoseNothing == Live # {}

\* SETNX, SET NX, RENAMENX and COPY tell at most one client that it created a
\* key, until the key is gone again: what a lock built on SETNX relies on.
OneCreator == \A k \in Keys : created[k] <= 1

\* MSETNX writes only when it has seen every one of its keys missing.  A key
\* somebody else wrote since it looked is the window ADR-005 documents.
MSetNXSawNone ==
  \A c \in Clients :
    cmd[c].name = "msetnx" /\ call[c].op = "multi" =>
      \A k \in Range(cmd[c].keys) : Undisturbed(c, k) => ~Visible(k).found

\* A command that creates only what is missing does so: alone where ADR-005
\* promises it, and up to its documented window where it does not.
CreatesOnlyMissing == OneCreator /\ MSetNXSawNone

\* A SCAN walk, or a KEYS, that runs to its end has returned every key that
\* was live from its first page to its last: with writers, other walks, failed
\* pages, aged cursors and RANDOMKEY taking cursors in between.
WalkMissesNothing == ~short

\* Every command is answered: batches that share stripes with other batches
\* and with single-key calls do not wait for each other in a circle, and no
\* error, deadline or panic in Update's function leaves a stripe locked.
EveryCommandReplies == \A c \in Clients : (cmd[c] # Idle) ~> (cmd[c] = Idle)
=============================================================================
