------------------------------- MODULE Codecs -------------------------------
(***************************************************************************)
(* Checks of the pure code over every small input: the wire protocol, the  *)
(* disk formats, the pages of a scan, the pattern matcher, number and      *)
(* option parsing, index and expiry arithmetic, and the histogram.  An     *)
(* input grows one element at a time; `kind' is the code it is an input    *)
(* of.                                                                     *)
(***************************************************************************)
EXTENDS RespCodec, Glob, DiskFormat, Histogram, LsmScan

CONSTANTS Alphabet, Bound, Names, Fractions

VARIABLES kind, input

vars == <<kind, input>>

Init == kind \in DOMAIN Alphabet /\ input = <<>>
Grow == /\ Len(input) < Bound[kind]
        /\ \E e \in Alphabet[kind] : input' = Append(input, e)
        /\ UNCHANGED kind
Spec == Init /\ [][Grow]_vars

\* The bytes of an input given in chunks, cut at each place in the last chunk.
Bytes == FlattenSeq(input)
Cuts == LET last == Len(input[Len(input)])
        IN  IF input = <<>> THEN {<<>>}
            ELSE {SubSeq(Bytes, 1, Len(Bytes) - i) : i \in 0..last}

-----------------------------------------------------------------------------
(* The wire protocol. *)

\* HasCompleteCommand looks at the buffer and ReadCommand at the stream: when
\* the first says a command is there the second returns without waiting, so no
\* reply is held back by a read that blocks, and a command that is all there is
\* never left for the next round.
LookaheadMatchesRead ==
  kind = "command" =>
    \A p \in Cuts : Len(p) <= ReadBufferSize =>
      /\ HasCompleteCommand(p) => ReadCommand(p).st # "more"
      /\ ReadCommand(p).st = "ok" => HasCompleteCommand(p)

\* Once ReadCommand has decided, the bytes that arrive later change nothing:
\* how TCP cuts the stream into segments cannot change what a command means.
ReadIgnoresSegments ==
  (kind = "command" /\ input # <<>>) =>
    \A p \in Cuts : LET early == ReadCommand(p) IN
      early.st # "more" => ReadCommand(Bytes) = early

\* What ReadCommand takes off the stream is the encoding of what it returns:
\* no byte is skipped, and none is taken for another argument's.
ReadsWhatWasWritten ==
  kind = "command" =>
    LET r == ReadCommand(Bytes) IN
    (r.st = "ok" /\ Bytes[1] = Type.array /\ r.args # <<>>) =>
      SubSeq(Bytes, 1, r.used) = WriteCommand(r.args)

\* A command that WriteCommand encodes is read back whole, whatever follows it.
CommandRoundTrip ==
  (kind = "words" /\ input # <<>>) =>
    \A tail \in {<<>>, <<Type.array>>, CRLF} :
      ReadCommand(WriteCommand(input) \o tail)
        = [st |-> "ok", used |-> Len(WriteCommand(input)), args |-> input]

\* The request half of the protocol, end to end: what a client writes is what the
\* server reads, however TCP cuts it, and the lookahead knows when it can.
CommandsAreReadExactly ==
  LookaheadMatchesRead /\ ReadIgnoresSegments /\ ReadsWhatWasWritten /\ CommandRoundTrip

\* Discard and read consume the same bytes of every reply, except a null
\* attribute: the load generator, which discards, stays framed.
RECURSIVE NullAttribute(_)
NullAttribute(p) ==
  Len(p) >= 3 /\ (SubSeq(p, 1, 2) = <<Type.attribute, Minus>> \/ NullAttribute(Tail(p)))
DiscardMatchesRead ==
  (kind = "replies" /\ ~NullAttribute(Bytes)) =>
    LET r == read(Bytes, 0) IN
    r.st = "ok" => /\ discard(Bytes, 0).st = "ok"
                   /\ discard(Bytes, 0).used = r.used

\* The reply a value should be read as, in each version.
ReadAs(v, ver) ==
  LET as(t) == Reply(t) IN
  CASE v.is \in {"string", "bulk"} -> [as(Type[v.is]) EXCEPT !.str = v.str]
    [] v.is = "error" -> [as(Type.error) EXCEPT !.str = sanitizeLine(v.str)]
    [] v.is = "integer" -> [as(Type.integer) EXCEPT !.n = v.n]
    [] v.is = "boolean" -> [as(IF ver = 3 THEN Type.boolean ELSE Type.integer) EXCEPT !.n = v.n]
    [] v.is = "double" -> IF ver = 3 THEN [as(Type.double) EXCEPT !.n = v.n]
                          ELSE [as(Type.bulk) EXCEPT !.str = AppendInt(v.n)]
    [] v.is = "null" -> [as(IF ver = 3 THEN Type.null ELSE Type.bulk) EXCEPT !.null = TRUE]
    [] v.is = "nullArray" -> [as(IF ver = 3 THEN Type.null ELSE Type.array) EXCEPT !.null = TRUE]
    [] v.is = "bigNumber" -> [as(IF ver = 3 THEN Type.bigNumber ELSE Type.bulk) EXCEPT !.str = v.str]
    [] v.is = "verbatim" -> IF ver = 3
                            THEN [as(Type.verbatim) EXCEPT !.str = <<116, 120, 116, 58>> \o v.str]
                            ELSE [as(Type.bulk) EXCEPT !.str = v.str]

\* Replies written one after another, or inside an array, map, set or push of
\* either version, are read back one for one: an error text with a line end in
\* it, a null or a nested header never shifts the replies behind it.
RepliesStayFramed ==
  (kind = "values" /\ input # <<>>) =>
    \A ver \in {2, 3}, is \in {"array", "map", "set", "push"} :
      (is = "map" => Len(input) % 2 = 0) =>
        LET r == read(WriteAggregateHeader(is, Len(input), ver) \o WriteAll(input, ver) \o CRLF, 0)
        IN  /\ r.st = "ok"
            /\ r.reply.elems = [i \in 1..Len(input) |-> ReadAs(input[i], ver)]

\* The reply half: no reply's bytes shift the next one, whether the reader keeps
\* a reply or discards it.
RepliesAreReadExactly == DiscardMatchesRead /\ RepliesStayFramed

-----------------------------------------------------------------------------
(* The disk formats. *)

Payload(r) == CASE r.typ = RecPut -> appendPutPayload(r.key, r.rec)
                [] r.typ = RecDelete -> appendDeletePayload(r.key)
                [] r.typ = RecFlushAll -> <<>>
                [] r.typ = RecBatch -> appendBatchPayload(r.muts)
Meant(r) == CASE r.typ = RecPut -> [ok |-> TRUE, del |-> FALSE, key |-> r.key, rec |-> r.rec]
              [] r.typ = RecDelete -> [ok |-> TRUE, del |-> TRUE, key |-> r.key]
              [] r.typ = RecFlushAll -> [ok |-> TRUE]
              [] r.typ = RecBatch -> [ok |-> TRUE, muts |-> r.muts]
Frames == [i \in 1..Len(input) |-> appendRecord(input[i].typ, i, Payload(input[i]))]
FirstMeant(n) == [i \in 1..n |-> Meant(input[i])]
EndOf(n) == Len(FlattenSeq(SubSeq(Frames, 1, n)))

\* One cell overwritten: by zero, or by the next value.
Damaged(file, i) == {[file EXCEPT ![i] = v] : v \in {0, file[i] + 1} \ {file[i]}}

\* The file cut after byte i, or damaged in the byte behind it.
Spoiled(file, i) ==
  {SubSeq(file, 1, i)} \cup IF i = Len(file) THEN {} ELSE Damaged(file, i + 1)

ReplaysWholeRecords(file, ends) ==
  \A i \in 0..Len(file) : \A f \in Spoiled(file, i) :
    \E n \in 0..Len(input) :
      /\ ends[n] <= i /\ (n = Len(input) \/ ends[n + 1] > i)
      /\ replaySegment(f, 0, 0, 0, <<>>) =
           [applied |-> FirstMeant(n), off |-> ends[n],
            how |-> IF Len(f) = ends[n] THEN "clean" ELSE "damaged"]

\* A segment cut anywhere, or damaged in any one cell, replays exactly the
\* records that lie before the cut or the damage, each as it was written, and
\* the offset to truncate at is where the last of them ends.
ReplaySurvivesDamage ==
  kind = "log" => ReplaysWholeRecords(FlattenSeq(Frames), [n \in 0..Len(input) |-> EndOf(n)])

\* A snapshot image loads as the entries it was written from, and one that is
\* cut short, followed by more bytes or damaged in any one cell is refused.
ImageIsAllOrNothing ==
  kind = "image" =>
    LET img == WriteImage(2, 3, input) IN
    /\ Load(img) = [ok |-> TRUE, lsn |-> 2, entries |-> input]
    /\ \A i \in 0..(Len(img) - 1) : ~Load(SubSeq(img, 1, i)).ok
    /\ \A i \in 1..Len(img) : \A f \in Damaged(img, i) : ~Load(f).ok
    /\ ~Load(Append(img, FooterMagic)).ok

\* What is read back from a damaged or cut file is what had been written, or nothing.
DamageIsNoticed == ReplaySurvivesDamage /\ ImageIsAllOrNothing

-----------------------------------------------------------------------------
(* The pages of a scan over the engine's sorted tables. *)

\* The keys whose newest entry is a put: with expired ones, and without.
NewestIs(kinds) ==
  {k \in UNION {DOMAIN input[i] : i \in 1..Len(input)} :
     input[Max({i \in 1..Len(input) : k \in DOMAIN input[i]})][k] \in kinds}
Walks == {Walk(input, disk, 0, limit) : disk \in {Len(input), Len(input) - 1} \ {-1}, limit \in 1..2}
Ascending(s) == \A i \in 1..(Len(s) - 1) : s[i] < s[i + 1]

\* A walk over scan's pages returns no key twice, none whose newest entry is a
\* tombstone; and none is missing when no source holds an entry that shows
\* nothing, although every source is read in parts and sources are cut at
\* different keys.
PagesFollowTheMerge ==
  kind = "tables" =>
    \A w \in Walks :
      /\ Ascending(w)
      /\ ToSet(w) \subseteq NewestIs({"put", "ttl"})
      /\ (\A i \in 1..Len(input) : Range(input[i]) \subseteq {"put"}) => ToSet(w) = NewestIs({"put"})

\* The comment on scan: "the merge cannot miss one".
PagesMissNothing ==
  kind = "tables" => \A w \in Walks : NewestIs({"put"}) \subseteq ToSet(w)

-----------------------------------------------------------------------------
(* Numbers and options. *)

Sign == IF input # <<>> /\ input[1] \in {Minus, Plus} THEN 1 ELSE 0

\* parseInt accepts an optional sign and digits whose value fits in int64, with
\* nothing lost at either end of the range, and refuses everything else; what
\* the strict parser of INCR accepts, it reads the same.
ParseIsExact ==
  kind = "digits" =>
    LET digits == SubSeq(input, Sign + 1, Len(input))
        value == FoldLeft(LAMBDA v, i : v + (digits[i] - Zero) * 10^(Len(digits) - i), 0,
                          [i \in 1..Len(digits) |-> i])
        n == IF Sign = 1 /\ input[1] = Minus THEN -value ELSE value
        fits == digits # <<>> /\ (\A i \in 1..Len(digits) : Digit(digits[i])) /\ n \in Int64
    IN  /\ parseInt(input).ok <=> fits
        /\ fits => parseInt(input).n = n
        /\ parseStrictInt(input).ok => parseStrictInt(input).n = n

\* The comment on parseStrictInt: it accepts no plus sign and no leading zero,
\* so INCR never rewrites the spelling of a value it accepts.
StrictMeansCanonical ==
  kind = "digits" =>
    LET v == parseStrictInt(input) IN v.ok => AppendInt(v.n) = input

Pair == kind = "numbers" /\ Len(input) = 2
Fst == input[1]
Snd == input[2]
Clamp(n) == IF n > MaxInt THEN MaxInt ELSE IF n < MinInt THEN MinInt ELSE n

\* INCRBY and DECRBY store the exact sum with the key's expiry, or change
\* nothing: no counter ever wraps.
CountersNeverWrap ==
  Pair =>
    LET cur == Record(AppendInt(Fst), 5)
        exact(n) == IF n \in Int64 THEN ActionPut(Record(AppendInt(n), 5)) ELSE Fails
    IN  /\ incrBy([name |-> "incrby", n |-> Snd], cur) = exact(Fst + Snd)
        /\ LET m == [name |-> "decrby", n |-> Snd] IN
           Rejected(m) \/ cmdDecrBy(m, cur) = exact(Fst - Snd)

\* A deadline is the exact sum of the clock and the time to live, saturated: no
\* large time to live comes out as a time in the past.
DeadlinesNeverWrap ==
  (Pair /\ Fst >= 0) =>
    /\ \A unit \in Units :
         LET e == absoluteExpiry(unit, Snd, Fst)
             ms == IF unit \in {"ex", "exat"} THEN Snd * MsPerSec ELSE Snd
         IN  /\ e.ok <=> ms \in Int64
             /\ e.ok => e.at = Clamp(ms + IF unit \in Relative THEN Fst ELSE 0)
    /\ \A unitMs \in {1, MsPerSec} :
         LET e == setWithTTL(Snd, unitMs, Fst) IN
         /\ e.ok <=> Snd > 0 /\ Snd * unitMs \in Int64
         /\ e.ok => e.at = Clamp(Fst + Snd * unitMs)

\* TTL reads back the seconds EX was given, and never shows 0 for a key that
\* is still live; EXPIRETIME given back to EXAT puts no deadline off.  The sum
\* that rounds up fits because the clock is past its first second.
TtlReadsBack ==
  (Pair /\ Fst >= MsPerSec) =>
    LET ex == absoluteExpiry("ex", Snd, Fst)
        rec == Record(<<>>, Snd)
    IN  /\ (Snd > 0 /\ ex.ok /\ ex.at < MaxInt) =>
             ttlCmd(Record(<<>>, ex.at), Fst, MsPerSec) = Snd
        /\ Snd > Fst =>
             /\ ttlCmd(rec, Fst, MsPerSec) > 0 /\ ttlCmd(rec, Fst, 1) = Snd - Fst
             /\ LET at == absoluteExpiry("exat", expireTimeCmd(rec, MsPerSec), Fst).at
                IN  at <= Snd /\ Snd - at < MsPerSec

\* EXPIRE with GT never brings a deadline forward, with LT never puts one off,
\* where a key without expiry has its deadline at the end of time.
ExpireKeepsOrder ==
  (Pair /\ Fst >= 0) =>
    \A now \in 1..3 : (Fst = 0 \/ Fst > now) =>
      LET cur == Record(<<>>, Fst)
          end(exp) == IF exp = 0 THEN MaxInt + 1 ELSE exp
          after(r) == IF r.act = "put" THEN end(r.rec.exp) ELSE IF r.act = "delete" THEN now ELSE end(Fst)
          expire(opt) == after(expireCmd([opts |-> {opt}, at |-> Snd], cur, now))
      IN  expire("gt") >= end(Fst) /\ expire("lt") <= end(Fst)

\* GETRANGE selects the bytes whose index lies between its bounds, an index
\* below zero counting from the end, and an end before the first byte as the
\* first byte.
RangeIsSlice ==
  Pair =>
    \A length \in 0..3 :
      LET at(i) == IF i < 0 THEN i + length ELSE i
          last == IF at(Snd) < 0 THEN 0 ELSE at(Snd)
          chosen == {i \in 0..(length - 1) : at(Fst) <= i /\ i <= last}
          r == resolveRange(Fst, Snd, length)
      IN  IF chosen = {} THEN r.empty
          ELSE ~r.empty /\ r.lo..r.hi = chosen

\* SETRANGE changes the bytes it names, zero-fills the gap and keeps the rest
\* and the expiry, whenever offset + length fits in int64.
SetRangePatches ==
  (Pair /\ Fst >= 0 /\ Snd \in 0..3) =>
    \A patch \in {<<>>, <<1>>, <<1, 2>>} :
      LET old == [i \in 1..Snd |-> 7]
          m == [name |-> "setrange", n |-> Fst, val |-> patch]
          r == cmdSetRange(m, Record(old, 5))
          byte(i) == IF i \in (Fst + 1)..(Fst + Len(patch)) THEN patch[i - Fst]
                     ELSE IF i <= Snd THEN 7 ELSE 0
      IN  (Fst + Len(patch) <= MaxInt /\ ~Rejected(m)) =>
            IF patch = <<>> THEN r = ActionNone
            ELSE /\ r.act = "put" /\ r.rec.exp = 5
                 /\ Len(r.rec.val) = (IF Fst + Len(patch) > Snd THEN Fst + Len(patch) ELSE Snd)
                 /\ \A i \in 1..Len(r.rec.val) : r.rec.val[i] = byte(i)

\* SET and GETEX take their options in any order: they accept them when no two
\* contradict each other, every unit has its number and a time to live is above
\* zero, and the deadline comes from that number alone.
OptionsInAnyOrder ==
  kind = "options" =>
    LET is(i, words) == i \in 1..Len(input) /\ input[i].word \in words
        units == {i \in 1..Len(input) : is(i, Units) /\ ~is(i - 1, Units)}
        has(w) == \E i \in 1..Len(input) : is(i, {w}) /\ ~is(i - 1, Units)
        f == parseSetOptions(input, 4)
        g == GetExArguments(input, 4)
        flags == {"nx", "xx", "get", "keepttl"}
        deadline(i) == absoluteExpiry(input[i].word, input[i + 1].n, 4)
        legal(words) ==
          /\ \A i \in 1..Len(input) : is(i, Units \cup words \cup {"num"})
          /\ Cardinality(units) <= 1
          /\ units # {} => ~has("keepttl") /\ ~has("persist")
          /\ ~(has("nx") /\ has("xx"))
          /\ \A i \in 1..Len(input) : is(i, {"num"}) <=> is(i - 1, Units)
          /\ \A i \in units : is(i + 1, {"num"}) /\ deadline(i).ok
        lives == \A i \in units : is(i, Relative) => input[i + 1].n > 0
    IN  /\ f.ok <=> legal(flags)
        /\ f.ok => /\ f.opts \cap flags = {w \in flags : has(w)}
                   /\ \A i \in units : f.at = deadline(i).at
        /\ SetArguments(input, 4).ok <=> legal(flags) /\ lives
        /\ g.ok <=> legal({"persist"}) /\ lives
        /\ g.ok => \A i \in units : g.at = deadline(i).at

-----------------------------------------------------------------------------
(* The pattern matcher and the histogram. *)

\* A pattern is given as tokens: how each is spelled, the set of bytes it stands
\* for or, when `neg', leaves out, and whether it may only come last.
Spelled == FlattenSeq([i \in 1..Len(input) |-> input[i].text])
TokensFit(name, ci) ==
  LET n == Len(input)
      one(i, b) == (\E c \in input[i].set : byteEq(c, b, ci)) # input[i].neg
      ends == [0..n -> 0..Len(name)]
  IN  \E e \in ends :
        /\ e[0] = 0 /\ e[n] = Len(name)
        /\ \A i \in 1..n : IF input[i].text = <<Star>> THEN e[i - 1] <= e[i]
                           ELSE e[i] = e[i - 1] + 1 /\ one(i, name[e[i]])

\* KEYS, SCAN MATCH and CONFIG GET: a name matches when it splits into pieces, one for each
\* token of the pattern, whatever the tokens are and however they are escaped;
\* and a pattern KEYS treats as trivial matches every name.
PatternMeansTokens ==
  (kind = "pattern" /\ \A i \in 1..(Len(input) - 1) : ~input[i].ends) =>
    \A name \in Names, ci \in BOOLEAN :
      /\ matchPattern(Spelled, name, ci) = TokensFit(name, ci)
      /\ isTrivialPattern(Spelled) => matchPattern(Spelled, name, ci)

\* What a handler makes of its arguments, at the edges of the integer width and
\* for every spelling of a pattern.
ArgumentsAreExact ==
  /\ ParseIsExact /\ CountersNeverWrap /\ DeadlinesNeverWrap /\ TtlReadsBack
  /\ ExpireKeepsOrder /\ RangeIsSlice /\ SetRangePatches /\ OptionsInAnyOrder /\ PatternMeansTokens

Observed(s) == FoldLeft(RecordDuration, NewHistogram, s)
Floor0(d) == IF d < 0 THEN 0 ELSE d
Sorted == SortSeq([i \in 1..Len(input) |-> Floor0(input[i])], <)

\* The bucket of a value starts at or below it, ends above it, and is no wider
\* than its start over subBuckets: the error the histogram advertises.
BucketsAreTight ==
  kind = "samples" =>
    \A i \in 1..Len(input) :
      LET v == Floor0(input[i])
          b == indexOf(v)
      IN  /\ b \in Buckets /\ valueOf(b) <= v
          /\ b + 1 \in Buckets => v < valueOf(b + 1)
          /\ (v - valueOf(b)) * subBuckets <= valueOf(b)

\* A quantile is the bucket of the observation of that rank, the same from
\* Quantile and from the single pass of Quantiles.
QuantilesAreRanks ==
  (kind = "samples" /\ input # <<>>) =>
    LET h == Observed(input)
        rank(q) == valueOf(indexOf(Sorted[Ceil(q, Len(input))]))
    IN  \A j \in 1..Len(Fractions) :
          /\ Quantile(h, Fractions[j]) = rank(Fractions[j])
          /\ Quantiles(h, Fractions)[j] = rank(Fractions[j])

\* Merging the histograms of two workers, empty ones included, gives the one
\* that would have seen all their observations.
MergeIsUnion ==
  kind = "samples" =>
    \A i \in 0..Len(input) :
      Merge(Observed(SubSeq(input, 1, i)), Observed(SubSeq(input, i + 1, Len(input)))) = Observed(input)

\* What the histogram reports is what was observed, up to the width of a bucket.
HistogramIsExact == BucketsAreTight /\ QuantilesAreRanks /\ MergeIsUnion
=============================================================================
