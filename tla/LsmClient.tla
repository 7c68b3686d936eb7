----------------------------- MODULE LsmClient ------------------------------
(***************************************************************************)
(* The Go client of the LSM engine: the calls of store.Store as remote     *)
(* calls with a deadline, under a mutex per stripe of keys, and the table  *)
(* of SCAN cursors.                                                        *)
(*                                                                         *)
(* A call in progress is call[c].  At "lock" it waits for its next stripe, *)
(* at "resume" it is about to look its cursor up, and at "read" and        *)
(* "write" a request is with the engine.  An action that ends a call takes *)
(* the caller's next call as `next': a return and what the handler does up *)
(* to its next call are one step.                                          *)
(*                                                                         *)
(* A request whose deadline passes (or whose connection is cancelled) is   *)
(* `late': the caller has an error, the stripe is free, and the engine may *)
(* still carry the request out, or not.  Store.closed is left out: main    *)
(* closes the store after the last handler has returned (see Server).      *)
(***************************************************************************)
EXTENDS Integers, Sequences, FiniteSets, FiniteSetsExt, Functions, StoreRecord

CONSTANTS
  Clients,      \* goroutines that call the store, one command at a time
  Keys,         \* numbers: the engine keeps keys in order
  Stripe,       \* the stripe of each key
  MaxTimeouts,  \* bound: calls that run into their deadline
  MaxTime,      \* bound: the clock stops here
  CursorTTL     \* cursorTTL

ASSUME LsmClientAssumption ==
  /\ Keys \subseteq Nat \ {0} /\ Stripe \in [Keys -> Nat]
  /\ MaxTimeouts \in Nat /\ MaxTime \in Nat /\ CursorTTL \in Nat

VARIABLES
  db,        \* the engine's records
  now,       \* Clock.NowMs
  call,      \* the call each client has in progress
  holder,    \* who holds each stripe's mutex
  late,      \* write requests that outlived their caller's deadline
  timeouts,  \* deadlines passed so far
  cursors,   \* cursor id |-> the key to resume from and when it was issued
  cursorN    \* the last id handed out

clientVars == <<db, now, call, holder, late, timeouts, cursors, cursorN>>

Stripes == {Stripe[k] : k \in Keys}
Nobody == "nobody"

\* The engine answers a read at now_ms: an expired record is not found.
Visible(k) == IF db[k].found /\ (db[k].exp = 0 \/ db[k].exp > now) THEN db[k] ELSE Absent
Live == {k \in Keys : Visible(k).found}

NoCall == [op |-> "none", at |-> "idle", keys |-> <<>>, locks |-> {}, cur |-> Absent,
           muts |-> <<>>, id |-> 0, start |-> 0, count |-> 0]

\* The stripes of a call's keys, each once.
StripesOf(ks) == {Stripe[k] : k \in Range(ks)}

NextStripeUnsorted(x) == Stripe[SelectSeq(x.keys, LAMBDA k : Stripe[k] \in x.locks)[1]]

\* They are locked in ascending order.
NextStripe(x) == Min(x.locks)

\* A map with one entry.
Only(k, rec) == [j \in {k} |-> rec]

\* The calls as a handler makes them.  `muts' maps keys to what is written.
Get(k) == [NoCall EXCEPT !.op = "get", !.at = "read", !.keys = <<k>>]
Put(k, rec) == [NoCall EXCEPT !.op = "put", !.at = "lock", !.keys = <<k>>,
                              !.locks = StripesOf(<<k>>), !.muts = Only(k, rec)]
Delete(k) == [NoCall EXCEPT !.op = "delete", !.at = "lock", !.keys = <<k>>,
                            !.locks = StripesOf(<<k>>), !.muts = Only(k, Absent)]
Update(k) == [NoCall EXCEPT !.op = "update", !.at = "lock", !.keys = <<k>>,
                            !.locks = StripesOf(<<k>>)]
MultiWrite(ks, recs) == [NoCall EXCEPT !.op = "multi", !.at = "lock", !.keys = ks,
                                       !.locks = StripesOf(ks), !.muts = recs]
FlushAll == [NoCall EXCEPT !.op = "flush", !.at = "write", !.muts = [k \in Keys |-> Absent]]
Scan(id, count) == [NoCall EXCEPT !.op = "scan", !.at = IF id = 0 THEN "read" ELSE "resume",
                                  !.id = id, !.count = count]

ClientInit ==
  /\ now = 1
  /\ call = [c \in Clients |-> NoCall]
  /\ holder = [s \in Stripes |-> Nobody]
  /\ late = {} /\ timeouts = 0
  /\ cursors = <<>> /\ cursorN = 0

-----------------------------------------------------------------------------

Release(c) == holder' = [s \in Stripes |-> IF holder[s] = c THEN Nobody ELSE holder[s]]

Applied(muts) == [k \in Keys |-> IF k \in DOMAIN muts THEN muts[k] ELSE db[k]]

\* mu.Lock(): the next stripe, then the first request.
Lock(c) ==
  /\ call[c].at = "lock"
  /\ holder[NextStripe(call[c])] = Nobody
  /\ holder' = [holder EXCEPT ![NextStripe(call[c])] = c]
  /\ LET left == call[c].locks \ {NextStripe(call[c])} IN
     call' = [call EXCEPT ![c].locks = left,
                          ![c].at = CASE left # {} -> "lock"
                                      [] left = {} -> IF call[c].op = "update" THEN "read" ELSE "write"]
  /\ UNCHANGED <<db, now, late, timeouts, cursors, cursorN>>

GetReturns(c, next) ==
  /\ call[c].op = "get" /\ call[c].at = "read"
  /\ call' = [call EXCEPT ![c] = next]
  /\ UNCHANGED <<db, now, holder, late, timeouts, cursors, cursorN>>

UpdateReadsUnlocked(c, act, rec) ==
  /\ call[c].op = "update" /\ call[c].at = "read" /\ act \in {"put", "delete"}
  /\ call' = [call EXCEPT ![c].at = "write", ![c].cur = Visible(call[c].keys[1]),
                          ![c].muts = Only(call[c].keys[1], rec)]
  /\ Release(c)
  /\ UNCHANGED <<db, now, late, timeouts, cursors, cursorN>>

\* Update's first round trip, when the function wants a write: `act' and
\* `rec' are its answer to the record just read.
UpdateReads(c, act, rec) ==
  /\ call[c].op = "update" /\ call[c].at = "read" /\ act \in {"put", "delete"}
  /\ call' = [call EXCEPT ![c].at = "write", ![c].cur = Visible(call[c].keys[1]),
                          ![c].muts = Only(call[c].keys[1], rec)]
  /\ UNCHANGED <<db, now, holder, late, timeouts, cursors, cursorN>>

UpdateReturnsLocked(c, act, next) ==
  /\ call[c].op = "update" /\ call[c].at = "read" /\ act \notin {"put", "delete"}
  /\ IF act = "panic" THEN UNCHANGED holder ELSE Release(c)
  /\ call' = [call EXCEPT ![c] = next]
  /\ UNCHANGED <<db, now, late, timeouts, cursors, cursorN>>

\* The function wanted no write, failed or panicked: the deferred Unlock runs
\* in every case.
UpdateReturns(c, act, next) ==
  /\ call[c].op = "update" /\ call[c].at = "read" /\ act \notin {"put", "delete"}
  /\ Release(c)
  /\ call' = [call EXCEPT ![c] = next]
  /\ UNCHANGED <<db, now, late, timeouts, cursors, cursorN>>

\* A write is applied and acknowledged within its deadline.
WriteReturns(c, next) ==
  /\ call[c].at = "write"
  /\ db' = Applied(call[c].muts)
  /\ Release(c)
  /\ call' = [call EXCEPT ![c] = next]
  /\ UNCHANGED <<now, late, timeouts, cursors, cursorN>>

\* The deadline passes: an error goes up, the stripes are released, and a
\* write request stays with the engine.
CallFails(c, next) ==
  /\ call[c].at \in {"read", "write"}
  /\ timeouts < MaxTimeouts
  /\ timeouts' = timeouts + 1
  /\ late' = IF call[c].at = "write" THEN late \cup {call[c].muts} ELSE late
  /\ Release(c)
  /\ call' = [call EXCEPT ![c] = next]
  /\ UNCHANGED <<db, now, cursors, cursorN>>

\* The engine carries out a request nobody waits for any more.
LateWrite ==
  \E muts \in late :
    /\ late' = late \ {muts}
    /\ db' = Applied(muts)
    /\ UNCHANGED <<now, call, holder, timeouts, cursors, cursorN>>

-----------------------------------------------------------------------------
(* SCAN. *)

Expired(entry) == now - entry.issuedAt > CursorTTL
Resolvable(id) == id \in DOMAIN cursors /\ ~Expired(cursors[id])

\* The cursor is looked up, and removed whatever comes of it.
ScanResumes(c) ==
  LET id == call[c].id IN
  /\ call[c].at = "resume"
  /\ Resolvable(id)
  /\ call' = [call EXCEPT ![c].at = "read", ![c].start = cursors[id].start]
  /\ cursors' = [i \in DOMAIN cursors \ {id} |-> cursors[i]]
  /\ UNCHANGED <<db, now, holder, late, timeouts, cursorN>>

ScanRefused(c, next) ==
  LET id == call[c].id IN
  /\ call[c].at = "resume"
  /\ ~Resolvable(id)
  /\ cursors' = [i \in DOMAIN cursors \ {id} |-> cursors[i]]
  /\ call' = [call EXCEPT ![c] = next]
  /\ UNCHANGED <<db, now, holder, late, timeouts, cursorN>>

\* The engine's page: the first live keys from `start' on, and the key the
\* next page starts with, 0 when there is none.
Page(start, count) ==
  LET ks == {k \in Live : k >= start}
      first == {k \in ks : Cardinality({j \in ks : j < k}) < count}
  IN  [keys |-> first, next |-> IF first = ks THEN 0 ELSE Min(ks \ first)]

nextCursorSkips(page) ==
  IF page.next = 0 THEN UNCHANGED <<cursors, cursorN>>
  ELSE /\ cursorN' = cursorN + 1
       /\ cursors' = [i \in {cursorN'} \cup DOMAIN cursors |->
                         IF i = cursorN' THEN [start |-> page.next + 1, issuedAt |-> now] ELSE cursors[i]]

\* A page with more to come gets a fresh cursor; entries past their time go.
nextCursor(page) ==
  IF page.next = 0 THEN UNCHANGED <<cursors, cursorN>>
  ELSE /\ cursorN' = cursorN + 1
       /\ cursors' = [i \in {cursorN'} \cup {j \in DOMAIN cursors : ~Expired(cursors[j])} |->
                         IF i = cursorN' THEN [start |-> page.next, issuedAt |-> now] ELSE cursors[i]]

ScanReturns(c, next) ==
  /\ call[c].op = "scan" /\ call[c].at = "read"
  /\ nextCursor(Page(call[c].start, call[c].count))
  /\ call' = [call EXCEPT ![c] = next]
  /\ UNCHANGED <<db, now, holder, late, timeouts>>

Tick ==
  /\ now < MaxTime
  /\ now' = now + 1
  /\ UNCHANGED <<db, call, holder, late, timeouts, cursors, cursorN>>
=============================================================================
