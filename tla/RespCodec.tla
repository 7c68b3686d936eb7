----------------------------- MODULE RespCodec ------------------------------
(***************************************************************************)
(* The wire protocol: reading commands, looking ahead for a whole command, *)
(* writing replies in both versions, and the client side that reads them.  *)
(*                                                                         *)
(* A reading operator takes the bytes that have arrived.  Its `st' is "ok",*)
(* "error" for a protocol error, or "more" where the code blocks on the    *)
(* socket; `used' is how many bytes it consumed.                           *)
(***************************************************************************)
EXTENDS StringOps, SequencesExt

CONSTANTS MaxBulkSize, MaxMultiBulkLen, MaxInlineSize, ReadBufferSize, MaxReplyDepth

CR == 13
LF == 10
CRLF == <<CR, LF>>
Space == 32

\* resp.go: the first byte of every value.
Type == [string |-> 43, error |-> 45, integer |-> 58, bulk |-> 36, array |-> 42, null |-> 95,
         double |-> 44, boolean |-> 35, blobError |-> 33, verbatim |-> 61, bigNumber |-> 40, map |-> 37,
         set |-> 126, attribute |-> 124, push |-> 62]

More == [st |-> "more", used |-> 0]
Error == [st |-> "error", used |-> 0]
Then(r, Use(_)) == IF r.st = "ok" THEN Use(r) ELSE r
From(s, i) == SubSeq(s, i, Len(s))

-----------------------------------------------------------------------------
(* Reader: commands from a client. *)

readLineImpatient(s) ==
  LET ends == {i \in 1..Len(s) : s[i] = LF}
      nl == CHOOSE i \in ends : \A j \in ends : i <= j
  IN  IF ends = {} THEN Error
      ELSE IF nl < 2 \/ s[nl - 1] # CR THEN Error
      ELSE [st |-> "ok", used |-> nl, line |-> SubSeq(s, 1, nl - 2)]

\* ReadSlice('\n') fails when the buffer is full without one.
readLine(s) ==
  LET ends == {i \in 1..Len(s) : i <= ReadBufferSize /\ s[i] = LF}
      nl == CHOOSE i \in ends : \A j \in ends : i <= j
  IN  IF ends = {} THEN (IF Len(s) >= ReadBufferSize THEN Error ELSE More)
      ELSE IF nl < 2 \/ s[nl - 1] # CR THEN Error
      ELSE [st |-> "ok", used |-> nl, line |-> SubSeq(s, 1, nl - 2)]

\* int is as wide as int64, so the range check leaves out MinInt only.
CountIn(line) == LET v == parseInt(line) IN [v EXCEPT !.ok = @ /\ v.n # MinInt]
readCount(s) ==
  Then(readLine(s), LAMBDA l :
    LET v == CountIn(l.line) IN IF v.ok THEN [st |-> "ok", used |-> l.used, n |-> v.n] ELSE Error)

\* A length that disagrees with the bytes would desynchronise the stream.
TerminatedAnyhow(tail) == TRUE
Terminated(tail) == tail = CRLF

readBulk(s) ==
  IF s = <<>> THEN More
  ELSE IF s[1] # Type.bulk THEN Error
  ELSE Then(readCount(Tail(s)), LAMBDA c :
         LET end == 1 + c.used + c.n
         IN  IF c.n < 0 \/ c.n > MaxBulkSize THEN Error
             ELSE IF Len(s) < end + 2 THEN More
             ELSE IF ~Terminated(SubSeq(s, end + 1, end + 2)) THEN Error
             ELSE [st |-> "ok", used |-> end + 2, arg |-> SubSeq(s, end - c.n + 1, end)])

\* The words of a line: the maximal runs without white space.
Words(line) ==
  LET isSpace(i) == line[i] \in {Space, 9, CR, LF, 11, 12}
      word(i, j) == /\ \A k \in i..j : ~isSpace(k)
                    /\ i = 1 \/ isSpace(i - 1)
                    /\ j = Len(line) \/ isSpace(j + 1)
      spans == {p \in (1..Len(line)) \X (1..Len(line)) : p[1] <= p[2] /\ word(p[1], p[2])}
      inOrder == SetToSortSeq(spans, LAMBDA p, q : p[1] < q[1])
  IN  [i \in 1..Len(inOrder) |-> SubSeq(line, inOrder[i][1], inOrder[i][2])]

readInline(s) ==
  Then(readLine(s), LAMBDA l :
    IF Len(l.line) > MaxInlineSize THEN Error
    ELSE [st |-> "ok", used |-> l.used, args |-> Words(l.line)])

\* args = <<>> stands for the nil slice of a command there is nothing to do for.
ReadCommand(s) ==
  LET bulk(sofar, i) ==
        Then(sofar, LAMBDA r : Then(readBulk(From(s, r.used + 1)), LAMBDA b :
          [st |-> "ok", used |-> r.used + b.used, args |-> Append(r.args, b.arg)]))
      multibulk(c) ==
        IF c.n > MaxMultiBulkLen THEN Error
        ELSE FoldLeft(bulk, [st |-> "ok", used |-> 1 + c.used, args |-> <<>>], [i \in 1..c.n |-> i])
  IN  IF s = <<>> THEN More
      ELSE IF s[1] # Type.array THEN readInline(s)
      ELSE Then(readCount(Tail(s)), multibulk)

\* The first CRLF, which is not always the first line end.
peekCount(s) ==
  LET ends == {i \in 1..(Len(s) - 1) : SubSeq(s, i, i + 1) = CRLF}
      framed(i) == LET v == CountIn(SubSeq(s, 1, i - 1))
                   IN  [st |-> "ok", n |-> IF v.ok THEN v.n ELSE 0, rest |-> From(s, i + 2)]
  IN  IF ends = {} THEN [st |-> "no"] ELSE framed(Min(ends))

BulkBufferedEarly(tail, size) == Len(tail) >= size
BulkBuffered(tail, size) == Len(tail) >= size + 2

\* "yes" as soon as the real reader would return, with or without an error.
peekBulk(r) ==
  LET c == peekCount(Tail(r.rest)) IN
  IF r.st # "ok" THEN r
  ELSE IF r.rest = <<>> THEN [st |-> "no"]
  ELSE IF r.rest[1] # Type.bulk THEN [st |-> "yes"]
  ELSE IF c.st = "no" THEN c
  ELSE IF c.n < 0 \/ c.n > MaxBulkSize THEN [st |-> "yes"]
  ELSE IF ~BulkBuffered(c.rest, c.n) THEN [st |-> "no"]
  ELSE [st |-> "ok", rest |-> From(c.rest, c.n + 3)]

HasCompleteCommand(s) ==
  LET c == peekCount(Tail(s))
      multibulk ==
        IF c.n > MaxMultiBulkLen THEN [st |-> "yes"]
        ELSE FoldLeft(LAMBDA r, i : peekBulk(r), [st |-> "ok", rest |-> c.rest], [i \in 1..c.n |-> i])
  IN  IF s = <<>> THEN FALSE
      ELSE IF s[1] # Type.array THEN LF \in ToSet(s)
      ELSE c.st # "no" /\ multibulk.st # "no"

-----------------------------------------------------------------------------
(* Writer.  A value to be written is [is, str, n]; `ver' is 2 or 3.  The   *)
(* doubles are the integral ones, and verbatim text has format `txt'.      *)

writeHeader(type, n) == <<type>> \o AppendInt(n) \o CRLF

sanitizeLineKeeps(s) == s
sanitizeLine(s) == [i \in 1..Len(s) |-> IF s[i] \in {CR, LF} THEN Space ELSE s[i]]

WriteBulk(b) == writeHeader(Type.bulk, Len(b)) \o b \o CRLF

WriteLine(type, s) == <<type>> \o s \o CRLF

WriteScalar(v, ver) ==
  CASE v.is = "string" -> WriteLine(Type.string, v.str)
    [] v.is = "error" -> WriteLine(Type.error, sanitizeLine(v.str))
    [] v.is = "integer" -> writeHeader(Type.integer, v.n)
    [] v.is = "bulk" -> WriteBulk(v.str)
    [] v.is = "null" -> IF ver = 3 THEN WriteLine(Type.null, <<>>) ELSE writeHeader(Type.bulk, -1)
    [] v.is = "nullArray" -> IF ver = 3 THEN WriteLine(Type.null, <<>>) ELSE writeHeader(Type.array, -1)
    [] v.is = "boolean" -> IF ver = 3 THEN WriteLine(Type.boolean, IF v.n = 1 THEN <<116>> ELSE <<102>>)
                           ELSE writeHeader(Type.integer, v.n)
    [] v.is = "double" -> IF ver = 3 THEN WriteLine(Type.double, AppendInt(v.n))
                          ELSE WriteBulk(AppendInt(v.n))
    [] v.is = "verbatim" -> IF ver = 3 THEN writeHeader(Type.verbatim, Len(v.str) + 4)
                                            \o <<116, 120, 116, 58>> \o v.str \o CRLF
                            ELSE WriteBulk(v.str)
    [] v.is = "bigNumber" -> IF ver = 3 THEN WriteLine(Type.bigNumber, v.str) ELSE WriteBulk(v.str)

\* WriteMapHeader takes pairs; the others take elements.
WriteAggregateHeader(is, elems, ver) ==
  CASE is = "map" /\ ver = 3 -> writeHeader(Type.map, elems \div 2)
    [] is = "set" /\ ver = 3 -> writeHeader(Type.set, elems)
    [] is = "push" /\ ver = 3 -> writeHeader(Type.push, elems)
    [] OTHER -> writeHeader(Type.array, elems)

WriteAll(vs, ver) == FlattenSeq([i \in 1..Len(vs) |-> WriteScalar(vs[i], ver)])

WriteCommandBare(args) ==
  writeHeader(Type.array, Len(args))
  \o FlattenSeq([i \in 1..Len(args) |-> writeHeader(Type.bulk, Len(args[i])) \o args[i]
                                         \o (IF args[i] = <<>> THEN <<>> ELSE CRLF)])

WriteCommand(args) ==
  writeHeader(Type.array, Len(args)) \o FlattenSeq([i \in 1..Len(args) |-> WriteBulk(args[i])])

-----------------------------------------------------------------------------
(* ReplyReader.  A decoded reply is [kind, str, n, null, elems].           *)

Line == {Type.string, Type.error, Type.bigNumber}
Number == {Type.integer, Type.double}
Blob == {Type.bulk, Type.verbatim, Type.blobError}
Aggregate == {Type.array, Type.set, Type.push, Type.map}

Reply(kind) == [kind |-> kind, str |-> <<>>, n |-> 0, null |-> FALSE, elems |-> <<>>]
Decoded(reply, used) == [st |-> "ok", used |-> used, reply |-> reply]

RECURSIVE read(_, _)
readMany(s, count, depth, used) ==
  LET one(r, i) == LET e == read(From(s, r.used + 1), depth) IN
                   IF r.st # "ok" THEN r
                   ELSE IF e.st # "ok" THEN e
                   ELSE [st |-> "ok", used |-> r.used + e.used, elems |-> Append(r.elems, e.reply)]
  IN  FoldLeft(one, [st |-> "ok", used |-> used, elems |-> <<>>], [i \in 1..count |-> i])

read(s, depth) ==
  LET t == s[1]
      l == readLine(Tail(s))
      used == 1 + l.used
      n == parseInt(l.line)
      rep == Reply(t)
      count == IF t \in {Type.map, Type.attribute} THEN Wrap(2 * n.n) ELSE n.n
  IN  CASE depth > MaxReplyDepth -> Error
        [] depth <= MaxReplyDepth /\ s = <<>> -> More
        [] OTHER ->
           IF l.st # "ok" THEN l
           ELSE IF t \in Line THEN Decoded([rep EXCEPT !.str = l.line], used)
           ELSE IF t = Type.null THEN Decoded([rep EXCEPT !.null = TRUE], used)
           ELSE IF t = Type.boolean THEN Decoded([rep EXCEPT !.n = IF l.line = <<116>> THEN 1 ELSE 0], used)
           ELSE IF t \notin Blob \cup Aggregate \cup Number \cup {Type.attribute} \/ ~n.ok THEN Error
           ELSE IF t \in Number THEN Decoded([rep EXCEPT !.n = n.n], used)
           ELSE IF t # Type.attribute /\ n.n < 0 THEN Decoded([rep EXCEPT !.null = TRUE], used)
           ELSE IF t \in Blob THEN
                IF n.n > MaxBulkSize THEN Error
                ELSE IF Len(s) < used + n.n + 2 THEN More
                ELSE Decoded([rep EXCEPT !.str = SubSeq(s, used + 1, used + n.n)], used + n.n + 2)
           ELSE IF t \in Aggregate /\ count > MaxMultiBulkLen THEN Error
           ELSE IF t \in Aggregate /\ count < 0 THEN [st |-> "panic", used |-> 0]
           ELSE LET es == readMany(s, count, depth + 1, used)
                    next == read(From(s, es.used + 1), depth)
                IN  IF es.st # "ok" THEN es
                    ELSE IF t \in Aggregate THEN Decoded([rep EXCEPT !.elems = es.elems], es.used)
                    ELSE IF next.st # "ok" THEN next
                    ELSE Decoded(next.reply, es.used + next.used)

RECURSIVE discard(_, _)
discardMany(s, count, depth, used) ==
  LET one(r, i) == LET e == discard(From(s, r.used + 1), depth) IN
                   IF r.st # "ok" THEN r
                   ELSE IF e.st # "ok" THEN e ELSE [st |-> "ok", used |-> r.used + e.used]
  IN  FoldLeft(one, [st |-> "ok", used |-> used], [i \in 1..count |-> i])

discardCountMapOnly(t, n) == IF t = Type.map THEN Wrap(2 * n) ELSE n
discardCount(t, n) == IF t \in {Type.map, Type.attribute} THEN Wrap(2 * n) ELSE n

discard(s, depth) ==
  LET t == s[1]
      l == readLine(Tail(s))
      used == 1 + l.used
      n == parseInt(l.line)
      skipped == [st |-> "ok", used |-> used]
  IN  CASE depth > MaxReplyDepth -> Error
        [] depth <= MaxReplyDepth /\ s = <<>> -> More
        [] OTHER ->
           IF l.st # "ok" THEN l
           ELSE IF t \in Line \cup Number \cup {Type.null, Type.boolean} THEN skipped
           ELSE IF t \notin Blob \cup Aggregate \cup {Type.attribute} \/ ~n.ok THEN Error
           ELSE IF n.n < 0 THEN skipped
           ELSE IF t \in Blob THEN
                IF n.n > MaxBulkSize THEN Error
                ELSE IF Len(s) < used + n.n + 2 THEN More
                ELSE [skipped EXCEPT !.used = @ + n.n + 2]
           ELSE LET es == discardMany(s, discardCount(t, n.n), depth + 1, used)
                    next == discard(From(s, es.used + 1), depth)
                IN  IF es.st # "ok" \/ t # Type.attribute THEN es
                    ELSE IF next.st # "ok" THEN next
                    ELSE [st |-> "ok", used |-> es.used + next.used]
=============================================================================
