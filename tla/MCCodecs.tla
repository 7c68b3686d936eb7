------------------------------ MODULE MCCodecs ------------------------------
(* Small alphabets for the codecs, chosen so that two or three elements     *)
(* reach every branch.                                                      *)
EXTENDS Codecs

A == 97

Chunks ==
  {writeHeader(Type.array, n) : n \in {1, 2, 4, -1}} \cup {writeHeader(Type.bulk, n) : n \in {0, 1, 6}}
  \cup {WriteBulk(<<A>>), <<A>> \o CRLF, CRLF, <<LF>>, <<A, Space>>}

ReplyChunks ==
  {writeHeader(Type.array, 2), writeHeader(Type.map, 1), writeHeader(Type.attribute, 1), writeHeader(Type.push, 0),
   writeHeader(Type.bulk, 1), writeHeader(Type.bulk, -1), writeHeader(Type.integer, 7), <<A>> \o CRLF,
   <<Type.string, A>> \o CRLF, <<Type.null>> \o CRLF, <<Type.boolean, 116>> \o CRLF}

Value(is, str, n) == [is |-> is, str |-> str, n |-> n]
Values ==
  {Value(is, <<A>>, 0) : is \in {"string", "bulk", "bigNumber", "verbatim"}}
  \cup {Value("bulk", <<>>, 0), Value("bulk", CRLF, 0), Value("error", <<A, CR, LF, Type.integer>>, 0)}
  \cup {Value(is, <<>>, n) : is \in {"integer", "double"}, n \in {0, -12}}
  \cup {Value("boolean", <<>>, n) : n \in {0, 1}}
  \cup {Value(is, <<>>, 0) : is \in {"null", "nullArray"}}

Rec(val, exp) == [val |-> val, exp |-> exp]
Put(key, rec) == [del |-> FALSE, key |-> key, rec |-> rec]
Entries == {[key |-> k, rec |-> Rec(v, e)] : k \in {<<>>, <<1, 2>>}, v \in {<<>>, <<3>>, <<0, 1, 2>>}, e \in {0, 5, -3}}
LogRecords ==
  {[typ |-> RecPut, key |-> k, rec |-> Rec(v, e)] : k \in {<<1>>, <<3, 0, 2>>}, v \in {<<>>, <<2, 1>>}, e \in {0, -5}}
  \cup {[typ |-> RecDelete, key |-> k] : k \in {<<>>, <<1, 1>>}}
  \cup {[typ |-> RecFlushAll]}
  \cup {[typ |-> RecBatch, muts |-> ms] :
          ms \in {<<>>, <<Put(<<1>>, Rec(<<2>>, 3)), [del |-> TRUE, key |-> <<0, 0>>]>>}}

Word(w) == [word |-> w, n |-> 0]
Tokens == {Word(w) : w \in {"nx", "xx", "get", "keepttl", "ex", "pxat", "persist"}}
          \cup {[word |-> "num", n |-> n] : n \in {0, 3, 4}}

B == 98
Token(text, set) == [text |-> text, set |-> set, neg |-> FALSE, ends |-> FALSE]
AllBut(text, set) == [text |-> text, set |-> set, neg |-> TRUE, ends |-> FALSE]
Final(text, set) == [text |-> text, set |-> set, neg |-> FALSE, ends |-> TRUE]
PatternTokens ==
  {Token(<<A>>, {A}), Token(<<Star>>, {}), AllBut(<<Question>>, {}),
   Token(<<Backslash, Star>>, {Star}), Token(<<Open, A, Close>>, {A}),
   AllBut(<<Open, Caret, A, Close>>, {A}), Token(<<Open, B, Dash, A, Close>>, {A, B}),
   Token(<<Open, Backslash, Close, A, Close>>, {A, Close}), Token(<<Open, A, Dash, Close>>, {A, Dash}),
   Token(<<Open, Close>>, {}), AllBut(<<Open, Caret, Close>>, {}),
   Final(<<Backslash>>, {Backslash}),
   Final(<<Open, B, A>>, {A, B})}
SomeNames == UNION {[1..n -> {A, B, Star}] : n \in 0..3} \cup UNION {[1..n -> {A, 65, Close, Dash, Backslash}] : n \in 1..2}

Tables ==
  UNION {{t \in [S -> {"put", "del", "ttl"}] : \A k \in S : (k > 1 => t[k] # "ttl") /\ (k = 4 => t[k] = "put")} :
           S \in SUBSET (1..4)}

Inputs ==
  [command |-> Chunks, words |-> {<<>>, <<A>>, CRLF, <<A, Space, Type.bulk>>}, replies |-> ReplyChunks,
   values |-> Values, log |-> LogRecords, image |-> Entries,
   digits |-> {Minus, Plus, Zero, Zero + 1, Zero + 2, Zero + 3, A}, numbers |-> Int64, options |-> Tokens,
   pattern |-> PatternTokens, samples |-> {-1, 0, 3, 4, 7, 9, 21, 32, 63},
   tables |-> Tables]
Lengths ==
  [command |-> 4, words |-> 3, replies |-> 4, values |-> 2, log |-> 2, image |-> 2, digits |-> 4,
   numbers |-> 2, options |-> 4, pattern |-> 3, samples |-> 3, tables |-> 2]
Percentiles == <<<<1, 2>>, <<9, 10>>, <<99, 100>>>>
=============================================================================
