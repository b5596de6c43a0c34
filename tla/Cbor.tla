-------------------------------- MODULE Cbor --------------------------------
(***************************************************************************)
(* core/cbor.js: items to bytes and back.  A byte is its three high bits   *)
(* and its five low ones; the bytes of a name, a digest or a signature are *)
(* one token, which counts as one byte wherever it is read.  Arguments of  *)
(* more than two bytes are left out: nothing here is as long.              *)
(***************************************************************************)
EXTENDS Integers, Sequences, TLC

B(m, ai) == <<"byte", m, ai>>
byte(n) == B(n \div 32, n % 32)

\* What a token counts as: a letter, or any byte of a signature.
bits(t) ==
  CASE t[1] = "byte" -> <<t[2], t[3]>>
    [] t[1] \in {"word", "kid", "cap"} -> <<3, 11>>
    [] t[1] = "digest" -> <<3, 6>>
    [] t[1] = "sig" -> <<5, 1>>
major(t) == bits(t)[1]
info(t) == bits(t)[2]
value(t) == 32 * major(t) + info(t)

\* The shortest head that holds n.
head(m, n) ==
  IF n < 24 THEN <<B(m, n)>>
  ELSE IF n < 256 THEN <<B(m, 24), byte(n)>>
  ELSE <<B(m, 25), byte(n \div 256), byte(n % 256)>>

\* An item is its major type and its content; -1 - n is held as n.
Uint(n) == <<0, n>>
Nint(n) == <<1, n>>
Bstr(s) == <<2, s>>
Tstr(s) == <<3, s>>
Arr(s) == <<4, s>>
Map(pairs) == <<5, pairs>>
Tag(n, v) == <<6, <<n, v>> >>
Simple(n) == <<7, n>>
False == Simple(20)
True == Simple(21)
Null == Simple(22)

\* Buffer.compare() of encoded keys.
before(s, t) ==
  \/ \E i \in 1..Len(s) \cap 1..Len(t) :
       value(s[i]) < value(t[i]) /\ \A j \in 1..i - 1 : s[j] = t[j]
  \/ Len(s) < Len(t) /\ SubSeq(t, 1, Len(s)) = s

\* The entries of a map are sorted by their keys' encodings.
RECURSIVE encode(_)
RECURSIVE concat(_)
concat(s) == IF s = <<>> THEN <<>> ELSE Head(s) \o concat(Tail(s))
encode(v) ==
  CASE v[1] \in {0, 1} -> head(v[1], v[2])
    [] v[1] \in {2, 3} -> head(v[1], Len(v[2])) \o v[2]
    [] v[1] = 4 -> head(4, Len(v[2])) \o concat([i \in DOMAIN v[2] |-> encode(v[2][i])])
    [] v[1] = 5 ->
         LET entries == [i \in DOMAIN v[2] |-> <<encode(v[2][i][1]), encode(v[2][i][2])>>]
             sorted == SortSeq(entries, LAMBDA e, f : before(e[1], f[1]))
         IN  head(5, Len(entries)) \o concat([i \in DOMAIN sorted |-> sorted[i][1] \o sorted[i][2]])
    [] v[1] = 6 -> head(6, v[2][1]) \o encode(v[2][2])
    [] v[1] = 7 -> <<B(7, v[2])>>

-----------------------------------------------------------------------------
\* A read: a value and the position after it, or a throw.
Read(v, i) == [ok |-> TRUE, v |-> v, i |-> i]
Throw == [ok |-> FALSE]

\* Mutant: the byte of a long argument is not read past.
readArgInPlace(b, i, ai) ==
  CASE ai < 24 -> Read(ai, i)
    [] ai = 24 /\ i <= Len(b) -> Read(value(b[i]), i)
    [] OTHER -> Throw

readArg(b, i, ai) ==
  CASE ai < 24 -> Read(ai, i)
    [] ai = 24 /\ i <= Len(b) -> Read(value(b[i]), i + 1)
    [] ai = 25 /\ i + 1 <= Len(b) -> Read(256 * value(b[i]) + value(b[i + 1]), i + 2)
    [] OTHER -> Throw

RECURSIVE readItem(_, _)
RECURSIVE readItems(_, _, _)

\* n items in a row.
readItems(b, i, n) ==
  IF n = 0 THEN Read(<<>>, i)
  ELSE LET first == readItem(b, i)
           rest == readItems(b, first.i, n - 1)
       IN  IF ~first.ok \/ ~rest.ok THEN Throw ELSE Read(<<first.v>> \o rest.v, rest.i)

pairs(s) == [k \in 1..Len(s) \div 2 |-> <<s[2 * k - 1], s[2 * k]>>]

readItem(b, i) ==
  IF i > Len(b) THEN Throw
  ELSE LET m == major(b[i])
           arg == readArg(b, i + 1, info(b[i]))
           n == arg.v
           content == readItems(b, arg.i, IF m = 4 THEN n ELSE IF m = 5 THEN 2 * n ELSE 1)
       IN  CASE m = 7 -> IF info(b[i]) \in {20, 21, 22} THEN Read(Simple(info(b[i])), i + 1) ELSE Throw
             [] m # 7 /\ ~arg.ok -> Throw
             [] m \in {0, 1} /\ arg.ok -> Read(<<m, n>>, arg.i)
             [] m \in {2, 3} /\ arg.ok ->
                  IF arg.i + n - 1 > Len(b) THEN Throw
                  ELSE Read(<<m, SubSeq(b, arg.i, arg.i + n - 1)>>, arg.i + n)
             [] m \in {4, 5, 6} /\ arg.ok ->
                  IF ~content.ok THEN Throw
                  ELSE Read(CASE m = 4 -> Arr(content.v) [] m = 5 -> Map(pairs(content.v))
                              [] m = 6 -> Tag(n, content.v[1]), content.i)

\* What follows the first item is not looked at.
decode(b) == readItem(b, 1)

\* Map.get(): the last entry of a key, if it has one.
get(map, key) ==
  LET at == {k \in DOMAIN map[2] : map[2][k][1] = key}
  IN  IF at = {} THEN Null ELSE map[2][CHOOSE k \in at : \A j \in at : j <= k][2]
=============================================================================
