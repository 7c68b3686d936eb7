----------------------------- MODULE StringOps ------------------------------
(***************************************************************************)
(* The pure part of the string and key commands: integer parsing, expiry   *)
(* arithmetic, index rules, option parsing, and the function each command  *)
(* hands to Store.Update.                                                  *)
(*                                                                         *)
(* int64 is the range MinInt .. MaxInt, and a second has MsPerSec          *)
(* milliseconds, so that both ends of the range are within reach.          *)
(***************************************************************************)
EXTENDS Integers, Sequences, StoreRecord

CONSTANTS MaxInt,    \* math.MaxInt64
          MsPerSec,  \* 1000
          MaxValue   \* proto-max-bulk-len

ASSUME StringOpsAssumption ==
  MaxInt \in Nat /\ MaxInt >= 9 /\ MsPerSec \in Nat \ {0} /\ MaxValue \in 1..MaxInt

MinInt == -MaxInt - 1
Int64 == MinInt..MaxInt

\* Two's complement: what int64 arithmetic leaves of an exact result.
Wrap(n) == ((n - MinInt) % (2 * (MaxInt + 1))) + MinInt

\* A loop over the elements of s, from the first to the last.
Through(step(_, _), base, s) ==
  LET upto[i \in 0..Len(s)] == IF i = 0 THEN base ELSE step(upto[i - 1], s[i])
  IN  upto[Len(s)]

\* Integer division truncates towards zero in Go.  b is positive.
Quot(a, b) == IF a >= 0 THEN a \div b ELSE -((-a) \div b)

-----------------------------------------------------------------------------
(* Integers as text. *)

Zero == 48
Minus == 45
Plus == 43
Digit(b) == b \in Zero..(Zero + 9)

parseIntUnchecked(b) ==
  LET neg == b # <<>> /\ b[1] = Minus
      digits == IF b # <<>> /\ b[1] \in {Minus, Plus} THEN Tail(b) ELSE b
      step(v, c) == IF v = -1 \/ ~Digit(c) THEN -1 ELSE v * 10 + c - Zero
      v == Through(step, 0, digits)
  IN  [ok |-> digits # <<>> /\ v # -1, n |-> Wrap(IF neg THEN -v ELSE v)]

parseInt(b) ==
  LET neg == b # <<>> /\ b[1] = Minus
      digits == IF b # <<>> /\ b[1] \in {Minus, Plus} THEN Tail(b) ELSE b
      limit == IF neg THEN MaxInt + 1 ELSE MaxInt
      step(v, c) == IF v = -1 \/ ~Digit(c) \/ v > (limit - (c - Zero)) \div 10
                    THEN -1 ELSE v * 10 + c - Zero
      v == Through(step, 0, digits)
  IN  [ok |-> digits # <<>> /\ v # -1, n |-> IF neg THEN -v ELSE v]

parseStrictInt(b) ==
  LET from == IF b # <<>> /\ b[1] = Minus THEN 2 ELSE 1
      v == parseInt(b)
  IN  IF \/ Len(b) \notin 1..20 \/ from > Len(b)
         \/ b[from] = Zero /\ Len(b) > from
         \/ ~v.ok \/ (from = 2 /\ v.n > 0)
      THEN [ok |-> FALSE, n |-> 0] ELSE v

\* strconv.AppendInt
Decimal[n \in 0..(MaxInt + 1)] ==
  IF n < 10 THEN <<Zero + n>> ELSE Append(Decimal[n \div 10], Zero + (n % 10))
AppendInt(n) == IF n < 0 THEN <<Minus>> \o Decimal[-n] ELSE Decimal[n]

-----------------------------------------------------------------------------
(* Expiry times. *)

addClampedWraps(a, b) == Wrap(a + b)

addClamped(a, b) ==
  CASE b > 0 /\ a > MaxInt - b -> MaxInt
    [] b < 0 /\ a < MinInt - b -> MinInt
    [] OTHER -> a + b

Relative == {"ex", "px"}
Units == Relative \cup {"exat", "pxat"}

absoluteExpiry(unit, n, now) ==
  LET seconds == unit \in {"ex", "exat"}
      fits == n <= Quot(MaxInt, MsPerSec) /\ n >= Quot(MinInt, MsPerSec)
      ms == IF seconds /\ fits THEN n * MsPerSec ELSE n
  IN  [ok |-> seconds => fits,
       at |-> IF unit \in Relative THEN addClamped(now, ms) ELSE ms]

ttlCmdTruncates(rec, now, divisor) ==
  LET left == IF rec.exp - now < 0 THEN 0 ELSE rec.exp - now
  IN  CASE ~rec.found -> -2
        [] rec.found /\ rec.exp = 0 -> -1
        [] OTHER -> Quot(left, divisor)

ttlCmd(rec, now, divisor) ==
  LET left == IF rec.exp - now < 0 THEN 0 ELSE rec.exp - now
  IN  CASE ~rec.found -> -2
        [] rec.found /\ rec.exp = 0 -> -1
        [] OTHER -> IF divisor = MsPerSec THEN Quot(Wrap(left + MsPerSec - 1), MsPerSec) ELSE left

expireTimeCmd(rec, divisor) ==
  CASE ~rec.found -> -2
    [] rec.found /\ rec.exp = 0 -> -1
    [] OTHER -> Quot(rec.exp, divisor)

\* SETEX and PSETEX: the deadline, when n is one they accept.
setWithTTL(n, unitMs, now) ==
  [ok |-> n > 0 /\ n <= Quot(MaxInt, unitMs),
   at |-> IF n > 0 /\ n <= Quot(MaxInt, unitMs) THEN addClamped(now, n * unitMs) ELSE 0]

-----------------------------------------------------------------------------
(* Option lists.  A token is a word, or a number when `word' is "num". *)

NoOptions == [ok |-> TRUE, opts |-> {}, at |-> 0, n |-> 0, unit |-> "", pending |-> ""]

Refused(f) == [f EXCEPT !.ok = FALSE]

\* The number after EX, PX, EXAT or PXAT.
ExpiryValue(f, tok, now) ==
  LET e == absoluteExpiry(f.pending, tok.n, now) IN
  IF tok.word # "num" \/ ~e.ok THEN Refused(f)
  ELSE [f EXCEPT !.pending = "", !.opts = @ \cup {"exp"}, !.at = e.at, !.n = tok.n,
                 !.unit = f.pending]

parseSetOptionsLax(toks, now) ==
  LET read(f, tok) ==
        CASE ~f.ok -> f
          [] f.ok /\ f.pending # "" -> ExpiryValue(f, tok, now)
          [] OTHER ->
             LET w == tok.word
                 clash == \/ w \in Units /\ "exp" \in f.opts
                 flags == {"nx", "xx", "get", "keepttl"}
             IN  IF clash \/ w \notin flags \cup Units THEN Refused(f)
                 ELSE IF w \in flags THEN [f EXCEPT !.opts = @ \cup {w}]
                 ELSE [f EXCEPT !.pending = w]
      f == Through(read, NoOptions, toks)
  IN  [f EXCEPT !.ok = @ /\ f.pending = ""]

parseSetOptions(toks, now) ==
  LET read(f, tok) ==
        CASE ~f.ok -> f
          [] f.ok /\ f.pending # "" -> ExpiryValue(f, tok, now)
          [] OTHER ->
             LET w == tok.word
                 clash == \/ w = "nx" /\ "xx" \in f.opts
                          \/ w = "xx" /\ "nx" \in f.opts
                          \/ w = "keepttl" /\ "exp" \in f.opts
                          \/ w \in Units /\ f.opts \cap {"exp", "keepttl"} # {}
                 flags == {"nx", "xx", "get", "keepttl"}
             IN  IF clash \/ w \notin flags \cup Units THEN Refused(f)
                 ELSE IF w \in flags THEN [f EXCEPT !.opts = @ \cup {w}]
                 ELSE [f EXCEPT !.pending = w]
      f == Through(read, NoOptions, toks)
  IN  [f EXCEPT !.ok = @ /\ f.pending = ""]

\* SET as a whole: a zero or negative EX or PX is refused after the parse.
SetArguments(toks, now) ==
  LET f == parseSetOptions(toks, now)
  IN  [f EXCEPT !.ok = @ /\ ~("exp" \in f.opts /\ f.unit \in Relative /\ f.n <= 0)]

GetExArguments(toks, now) ==
  LET read(f, tok) ==
        CASE ~f.ok -> f
          [] f.ok /\ f.pending # "" ->
             IF f.pending \in Relative /\ tok.n <= 0 THEN Refused(f)
             ELSE ExpiryValue(f, tok, now)
          [] OTHER ->
             LET w == tok.word IN
             IF \/ w = "persist" /\ "exp" \in f.opts
                \/ w \in Units /\ f.opts # {}
                \/ w \notin {"persist"} \cup Units THEN Refused(f)
             ELSE IF w = "persist" THEN [f EXCEPT !.opts = @ \cup {w}]
             ELSE [f EXCEPT !.pending = w]
      f == Through(read, NoOptions, toks)
  IN  [f EXCEPT !.ok = @ /\ f.pending = ""]

-----------------------------------------------------------------------------
(* The functions handed to Store.Update.  `act' is what the engine does:   *)
(* put `rec', delete, nothing, or nothing because the function returned an *)
(* error or panicked.                                                      *)

Answer(act, rec) == [act |-> act, rec |-> rec]
ActionPut(rec) == Answer("put", rec)
ActionNone == Answer("none", Absent)
ActionDelete == Answer("delete", Absent)
Fails == Answer("error", Absent)

cmdSet(m, cur) ==
  IF ("nx" \in m.opts /\ cur.found) \/ ("xx" \in m.opts /\ ~cur.found) THEN ActionNone
  ELSE ActionPut(Record(m.val, CASE "exp" \in m.opts -> m.at
                                 [] "keepttl" \in m.opts /\ cur.found -> cur.exp
                                 [] OTHER -> 0))

cmdSetNXAlways(m, cur) == ActionPut(Record(m.val, 0))

cmdSetNX(m, cur) == IF cur.found THEN ActionNone ELSE ActionPut(Record(m.val, 0))

cmdGetSet(m, cur) == ActionPut(Record(m.val, 0))

cmdGetDel(cur) == IF cur.found THEN ActionDelete ELSE ActionNone

cmdGetEx(m, cur) ==
  CASE cur.found /\ "persist" \in m.opts /\ cur.exp # 0 -> ActionPut(Record(cur.val, 0))
    [] cur.found /\ "exp" \in m.opts -> ActionPut(Record(cur.val, m.at))
    [] OTHER -> ActionNone

cmdAppend(m, cur) ==
  IF Len(cur.val) + Len(m.val) > MaxValue THEN Fails
  ELSE ActionPut(Record(cur.val \o m.val, cur.exp))

incrByWraps(m, cur) ==
  LET base == IF cur.found THEN parseStrictInt(cur.val) ELSE [ok |-> TRUE, n |-> 0]
  IN  IF ~base.ok THEN Fails ELSE ActionPut(Record(AppendInt(Wrap(base.n + m.n)), cur.exp))

incrBy(m, cur) ==
  LET base == IF cur.found THEN parseStrictInt(cur.val) ELSE [ok |-> TRUE, n |-> 0]
  IN  IF \/ ~base.ok
         \/ m.n > 0 /\ base.n > MaxInt - m.n
         \/ m.n < 0 /\ base.n < MinInt - m.n
      THEN Fails ELSE ActionPut(Record(AppendInt(base.n + m.n), cur.exp))

\* DECRBY n is INCRBY -n, which the most negative int64 does not have.
cmdDecrBy(m, cur) == incrBy([m EXCEPT !.n = -@], cur)

SetRangeEnd(m) == Wrap(m.n + Len(m.val))

SetRangeSizeOfPatch(length, end) == end
SetRangeSize(length, end) == IF length > end THEN length ELSE end

\* make([]byte, size) panics on a negative size, and the slice next[offset:]
\* on an offset beyond it.
cmdSetRange(m, cur) ==
  LET end == SetRangeEnd(m)
      size == SetRangeSize(Len(cur.val), end)
      patched(i) == i > m.n /\ i <= m.n + Len(m.val)
      byte(i) == IF patched(i) THEN m.val[i - m.n]
                 ELSE IF i <= Len(cur.val) THEN cur.val[i] ELSE 0
  IN  CASE m.val = <<>> -> ActionNone
        [] m.val # <<>> /\ (size < 0 \/ m.n > size) -> Answer("panic", Absent)
        [] OTHER -> ActionPut(Record([i \in 1..size |-> byte(i)], cur.exp))

NotLaterThanZero(at, exp) == at <= exp

\* A key without expiry is infinitely far away: GT cannot put that off.
NotLater(at, exp) == exp = 0 \/ at <= exp

\* EXPIRE and its spellings, with the deadline absoluteExpiry gave in m.at.
expireCmd(m, cur, now) ==
  IF \/ ~cur.found
     \/ "nx" \in m.opts /\ cur.exp # 0
     \/ "xx" \in m.opts /\ cur.exp = 0
     \/ "gt" \in m.opts /\ NotLater(m.at, cur.exp)
     \/ "lt" \in m.opts /\ cur.exp # 0 /\ m.at >= cur.exp
  THEN ActionNone
  ELSE IF m.at <= now THEN ActionDelete ELSE ActionPut(Record(cur.val, m.at))

\* What a handler refuses before it calls the store.
Rejected(m) ==
  \/ m.name = "decrby" /\ m.n = MinInt
  \/ m.name = "setrange" /\ (m.n < 0 \/ SetRangeEnd(m) > MaxValue)
  \/ m.name = "expire" /\ \/ "nx" \in m.opts /\ m.opts \cap {"xx", "gt", "lt"} # {}
                          \/ {"gt", "lt"} \subseteq m.opts

cmdPersist(cur) ==
  IF ~cur.found \/ cur.exp = 0 THEN ActionNone ELSE ActionPut(Record(cur.val, 0))

-----------------------------------------------------------------------------
(* GETRANGE. *)

resolveRangeOpen(start, end, length) ==
  LET lo == IF start < 0 THEN (IF start + length < 0 THEN 0 ELSE start + length) ELSE start
      hi == IF end < 0 THEN (IF end + length < 0 THEN 0 ELSE end + length) ELSE end
  IN  IF length = 0 \/ lo > hi \/ lo >= length
      THEN [lo |-> 0, hi |-> 0, empty |-> TRUE]
      ELSE [lo |-> lo, hi |-> hi, empty |-> FALSE]

resolveRange(start, end, length) ==
  LET lo == IF start < 0 THEN (IF start + length < 0 THEN 0 ELSE start + length) ELSE start
      up == IF end < 0 THEN (IF end + length < 0 THEN 0 ELSE end + length) ELSE end
      hi == IF up >= length THEN length - 1 ELSE up
  IN  IF length = 0 \/ lo > hi \/ lo >= length
      THEN [lo |-> 0, hi |-> 0, empty |-> TRUE]
      ELSE [lo |-> lo, hi |-> hi, empty |-> FALSE]
=============================================================================
