----------------------------- MODULE DiskFormat -----------------------------
(***************************************************************************)
(* The bytes on disk: log records, the reading loop of a log segment, and  *)
(* the snapshot image.                                                     *)
(*                                                                         *)
(* A varint byte carries a digit below Radix (128 in the code), plus Radix *)
(* when more digits follow.  A fixed-width field is one cell, so a file is *)
(* a sequence of numbers and may end or be damaged at any of them.         *)
(***************************************************************************)
EXTENDS Integers, Sequences, SequencesExt

CONSTANTS Radix, MaxUvarint, MaxRecordSize

RecPut == 1
RecDelete == 2
RecFlushAll == 3
RecBatch == 4

Corrupt == [ok |-> FALSE]
IfOK(r, Use(_)) == IF r.ok THEN Use(r) ELSE Corrupt
Rest(p, n) == SubSeq(p, n + 1, Len(p))

\* crc32 as a polynomial residue: it too tells apart contents that differ in
\* one cell.
Checksum(cells) == FoldLeft(LAMBDA sum, c : (sum * 257 + c + 1) % 46337, 1, cells)

\* encoding/binary: least significant digit first; zigzag for signed values.
AppendUvarint[n \in 0..MaxUvarint] ==
  IF n < Radix THEN <<n>> ELSE <<Radix + (n % Radix)>> \o AppendUvarint[n \div Radix]
AppendVarint(n) == AppendUvarint[IF n < 0 THEN -2 * n - 1 ELSE 2 * n]

Uvarint(p) ==
  LET value(last) == FoldLeft(LAMBDA v, i : v * Radix + (p[last + 1 - i] % Radix), 0, [i \in 1..last |-> i])
      upTo(last) == IF last = 0 THEN Corrupt
                    ELSE IF value(last) > MaxUvarint THEN Corrupt
                    ELSE [ok |-> TRUE, n |-> value(last), rest |-> Rest(p, last)]
  IN  upTo(SelectInSeq(p, LAMBDA b : b < Radix))
Varint(p) ==
  IfOK(Uvarint(p), LAMBDA u : [u EXCEPT !.n = IF @ % 2 = 0 THEN @ \div 2 ELSE -((@ + 1) \div 2)])

-----------------------------------------------------------------------------
(* Log records. *)

Sized(b) == AppendUvarint[Len(b)] \o b

appendPutPayload(key, rec) == Sized(key) \o AppendVarint(rec.exp) \o Sized(rec.val)
appendDeletePayload(key) == Sized(key)

appendBatchPayload(muts) ==
  LET one(m) == IF m.del THEN <<RecDelete>> \o appendDeletePayload(m.key)
                ELSE <<RecPut>> \o appendPutPayload(m.key, m.rec)
  IN  AppendUvarint[Len(muts)] \o FlattenSeq([i \in 1..Len(muts) |-> one(muts[i])])

HeaderSize == 4

CoveredPayload(n, typ, lsn, payload) == payload

\* What the checksum covers: length, type and LSN as well as the payload.
Covered(n, typ, lsn, payload) == <<n, typ, lsn>> \o payload

appendRecord(typ, lsn, payload) ==
  <<Checksum(Covered(Len(payload), typ, lsn, payload)), Len(payload), typ, lsn>> \o payload

takeBytes(p) ==
  IfOK(Uvarint(p), LAMBDA u :
    IF u.n > Len(u.rest) THEN Corrupt
    ELSE [ok |-> TRUE, val |-> SubSeq(u.rest, 1, u.n), rest |-> Rest(u.rest, u.n)])

\* The expiry and the value that follow the key of a put.
takeRecord(p) ==
  IfOK(Varint(p), LAMBDA exp : IfOK(takeBytes(exp.rest), LAMBDA val :
    [ok |-> TRUE, rec |-> [val |-> val.val, exp |-> exp.n], rest |-> val.rest]))

decodePut(p) ==
  IfOK(takeBytes(p), LAMBDA key : IfOK(takeRecord(key.rest), LAMBDA r :
    IF r.rest # <<>> THEN Corrupt
    ELSE [ok |-> TRUE, del |-> FALSE, key |-> key.val, rec |-> r.rec]))

decodeDelete(p) ==
  IfOK(takeBytes(p), LAMBDA key :
    IF key.rest # <<>> THEN Corrupt ELSE [ok |-> TRUE, del |-> TRUE, key |-> key.val])

decodeBatch(p) ==
  LET put(d, key) ==
        IfOK(takeRecord(key.rest), LAMBDA r :
          [ok |-> TRUE, rest |-> r.rest,
           muts |-> Append(d.muts, [del |-> FALSE, key |-> key.val, rec |-> r.rec])])
      mutation(d) ==
        IF d.rest = <<>> THEN Corrupt
        ELSE IfOK(takeBytes(Tail(d.rest)), LAMBDA key :
               CASE d.rest[1] = RecDelete ->
                      [ok |-> TRUE, rest |-> key.rest,
                       muts |-> Append(d.muts, [del |-> TRUE, key |-> key.val])]
                 [] d.rest[1] = RecPut -> put(d, key)
                 [] OTHER -> Corrupt)
      all(count) == FoldLeft(LAMBDA d, i : IfOK(d, mutation),
                             [ok |-> TRUE, rest |-> count.rest, muts |-> <<>>], [i \in 1..count.n |-> i])
  IN  IfOK(Uvarint(p), LAMBDA count :
        IF count.n > MaxRecordSize THEN Corrupt
        ELSE IfOK(all(count), LAMBDA d :
               IF d.rest # <<>> THEN Corrupt ELSE [ok |-> TRUE, muts |-> d.muts]))

applyRecord(typ, payload) ==
  CASE typ = RecPut -> decodePut(payload)
    [] typ = RecDelete -> decodeDelete(payload)
    [] typ = RecFlushAll -> IF payload # <<>> THEN Corrupt ELSE [ok |-> TRUE]
    [] typ = RecBatch -> decodeBatch(payload)
    [] OTHER -> Corrupt

\* What the loop over the records of a segment has handed to the applier when
\* it stops, and how: at a clean end, at damage from offset `off' on, or with
\* an error from the applier.  `expect' is 0 before the first record.
RECURSIVE replaySegment(_, _, _, _, _)
replaySegment(seg, off, expect, afterLSN, applied) ==
  LET h == Rest(seg, off)
      n == h[2]
      payload == SubSeq(h, HeaderSize + 1, HeaderSize + n)
      rec == applyRecord(h[3], payload)
      stop(how) == [how |-> how, off |-> off, applied |-> applied]
      on(more) == replaySegment(seg, off + HeaderSize + n, h[4] + 1, afterLSN, applied \o more)
  IN  IF h = <<>> THEN stop("clean")
      ELSE IF Len(h) < HeaderSize THEN stop("damaged")
      ELSE IF n > MaxRecordSize THEN stop("damaged")
      ELSE IF Len(h) < HeaderSize + n THEN stop("damaged")
      ELSE IF Checksum(Covered(n, h[3], h[4], payload)) # h[1] THEN stop("damaged")
      ELSE IF expect # 0 /\ h[4] # expect THEN stop("damaged")
      ELSE IF h[4] <= afterLSN THEN on(<<>>)
      ELSE IF ~rec.ok THEN stop("error") ELSE on(<<rec>>)

-----------------------------------------------------------------------------
(* The snapshot image. *)

FileMagic == 7
FooterMagic == 8
FormatVersion == 1

encodeHeader(lsn, createdAtMs) ==
  LET b == <<FileMagic, FormatVersion, createdAtMs, lsn>> IN Append(b, Checksum(b))

decodeHeader(hdr) ==
  IF hdr[1] # FileMagic THEN Corrupt
  ELSE IF Checksum(SubSeq(hdr, 1, 4)) # hdr[5] THEN Corrupt
  ELSE IF hdr[2] # FormatVersion THEN Corrupt
  ELSE [ok |-> TRUE, lsn |-> hdr[4]]

\* The file that Write renames into place, for the entries iter emits.
WriteImage(lsn, createdAtMs, entries) ==
  LET body == FlattenSeq([i \in 1..Len(entries) |-> appendPutPayload(entries[i].key, entries[i].rec)])
  IN  encodeHeader(lsn, createdAtMs) \o body
      \o <<Len(entries), Len(body), Checksum(body), FooterMagic>>

readN(p, n) == IF n > MaxRecordSize \/ n > Len(p) THEN Corrupt
               ELSE [ok |-> TRUE, val |-> SubSeq(p, 1, n), rest |-> Rest(p, n)]

readEntry(p) ==
  IfOK(Uvarint(p), LAMBDA klen : IfOK(readN(klen.rest, klen.n), LAMBDA key :
    IfOK(Varint(key.rest), LAMBDA exp : IfOK(Uvarint(exp.rest), LAMBDA vlen :
      IfOK(readN(vlen.rest, vlen.n), LAMBDA val :
        [ok |-> TRUE, key |-> key.val, rec |-> [val |-> val.val, exp |-> exp.n], rest |-> val.rest])))))

BodyMatchesInLength(sum, want, left) == left = <<>>

\* After the last entry: the checksum of what was read, and nothing left over.
BodyMatches(sum, want, left) == sum = want /\ left = <<>>

loadEntries(body, count) ==
  LET entry(d) == IfOK(readEntry(d.rest), LAMBDA e :
                    [ok |-> TRUE, rest |-> e.rest,
                     entries |-> Append(d.entries, [key |-> e.key, rec |-> e.rec])])
  IN  FoldLeft(LAMBDA d, i : IfOK(d, entry), [ok |-> TRUE, rest |-> body, entries |-> <<>>],
               [i \in 1..count |-> i])

Load(img) ==
  LET size == Len(img)
      ftr == Rest(img, size - 4)
      body == SubSeq(img, 6, size - 4)
      readOf(rest) == SubSeq(body, 1, Len(body) - Len(rest))
  IN  IF size < 9 THEN Corrupt
      ELSE IfOK(decodeHeader(img), LAMBDA header :
             IF ftr[4] # FooterMagic \/ ftr[2] # size - 9 THEN Corrupt
             ELSE IfOK(loadEntries(body, ftr[1]), LAMBDA d :
                    IF ~BodyMatches(Checksum(readOf(d.rest)), ftr[3], d.rest) THEN Corrupt
                    ELSE [ok |-> TRUE, lsn |-> header.lsn, entries |-> d.entries]))
=============================================================================
