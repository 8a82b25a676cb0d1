------------------------- MODULE MultiplexReadProofs -------------------------
(***************************************************************************)
(* multiplex_read for any number of partitions, any files and slices, and  *)
(* any schedule of the processors: the parser never loses its place.       *)
(***************************************************************************)
EXTENDS MultiplexRead, StreamLemmas

Reading == {"idle", "parse", "poll", "verify"}

\* How many bytes of the file the parser has taken.
Parsed == fed - Len(extra_buffer) - Len(slice)

ParserType ==
    /\ file \in Files
    /\ fed \in Nat /\ fed <= Len(file.bytes)
    /\ extra_buffer \in Seq(Byte) /\ slice \in Seq(Byte)
    /\ current_state \in [at : {"StartBlock", "U16Length", "Block"}, part : Nat, len : Nat]

\* What is buffered is what was fed and not taken, and at least the last four bytes.
PlaceInv ==
    pc \in Reading =>
        /\ Parsed \in Nat
        /\ Least(fed, RETENTION) <= Len(extra_buffer) + Len(slice)
        /\ \A i \in 1..Len(extra_buffer) : extra_buffer[i] = file.bytes[Parsed + i]
        /\ \A i \in 1..Len(slice) : slice[i] = file.bytes[Parsed + Len(extra_buffer) + i]
        /\ pc # "parse" => slice = <<>>

ParserInv == ParserType /\ PlaceInv

-----------------------------------------------------------------------------
(* The partial buffer                                                      *)

\* Of what is buffered, size bytes are taken, from the extra buffer first.
LEMMA TakeSomeMoves ==
    ASSUME ParserType, NEW size \in Nat, NEW retention \in Nat, TakeSome(size, retention)
    PROVE  LET x == FromExtra(size)
           IN  /\ x \in 0..Len(extra_buffer) /\ size - x \in 0..Len(slice)
               /\ x < size => x = Len(extra_buffer)
               /\ extra_buffer' \in Seq(Byte) /\ slice' \in Seq(Byte)
               /\ Len(extra_buffer') = Len(extra_buffer) - x
               /\ Len(slice') = Len(slice) - (size - x)
               /\ \A i \in 1..Len(extra_buffer') : extra_buffer'[i] = extra_buffer[x + i]
               /\ \A i \in 1..Len(slice') : slice'[i] = slice[(size - x) + i]
  <1> DEFINE x == FromExtra(size)
             y == size - x
  <1>1. /\ extra_buffer \in Seq(Byte) /\ slice \in Seq(Byte)
        /\ Len(extra_buffer) \in Nat /\ Len(slice) \in Nat
        /\ Len(extra_buffer) + Len(slice) >= size + retention
    BY LenProperties DEF ParserType, TakeSome, Available
  <1>2. x \in 0..Len(extra_buffer) /\ y \in 0..Len(slice) /\ (x < size => x = Len(extra_buffer))
    BY <1>1 DEF FromExtra
  <1>3. /\ extra_buffer' = SubSeq(extra_buffer, x + 1, Len(extra_buffer))
        /\ slice' = SubSeq(slice, y + 1, Len(slice))
    BY DEF TakeSome
  <1> HIDE DEF x
  <1>4. /\ extra_buffer' \in Seq(Byte) /\ Len(extra_buffer') = Len(extra_buffer) - x
        /\ \A i \in 1..(Len(extra_buffer) - x) : extra_buffer'[i] = extra_buffer[x + i]
    <2>1. x \in Nat /\ Len(extra_buffer) \in x..Len(extra_buffer)
      BY <1>1, <1>2
    <2> QED  BY <1>1, <1>3, <2>1, PartEntries
  <1> HIDE DEF y
  <1>5. /\ slice' \in Seq(Byte) /\ Len(slice') = Len(slice) - y
        /\ \A i \in 1..(Len(slice) - y) : slice'[i] = slice[y + i]
    <2>1. y \in Nat /\ Len(slice) \in y..Len(slice)
      BY <1>1, <1>2
    <2> QED  BY <1>1, <1>3, <2>1, PartEntries
  <1> QED
    BY <1>2, <1>4, <1>5 DEF x, y

\* The parser moves on by what it takes, keeps the retained bytes, and what it takes is
\* what follows in the file.
LEMMA TakeSomeInPlace ==
    ASSUME ParserInv, pc \in Reading, NEW size \in Nat, TakeSome(size, RETENTION),
           UNCHANGED <<file, fed>>
    PROVE  /\ extra_buffer' \in Seq(Byte) /\ slice' \in Seq(Byte)
           /\ Parsed' = Parsed + size
           /\ Parsed + size + RETENTION <= fed
           /\ Least(fed, RETENTION) <= Len(extra_buffer') + Len(slice')
           /\ \A i \in 1..Len(extra_buffer') : extra_buffer'[i] = file.bytes[Parsed' + i]
           /\ \A i \in 1..Len(slice') : slice'[i] = file.bytes[Parsed' + Len(extra_buffer') + i]
           /\ Taken(size) = SubSeq(file.bytes, Parsed + 1, Parsed + size)
  <1> DEFINE x == FromExtra(size)
             y == size - x
             a == Len(extra_buffer)
             b == Len(slice)
             q == Parsed
             bytes == file.bytes
  <1>1. /\ bytes \in Seq(Byte) /\ Len(bytes) \in Nat
        /\ fed \in Nat /\ fed <= Len(bytes) /\ extra_buffer \in Seq(Byte) /\ slice \in Seq(Byte)
        /\ a \in Nat /\ b \in Nat /\ a + b >= size + 4 /\ q \in Nat /\ q = fed - a - b
    <2>1. extra_buffer \in Seq(Byte) /\ slice \in Seq(Byte) /\ bytes \in Seq(Byte)
      BY ReadAssumption DEF ParserInv, ParserType
    <2> QED
      BY <2>1, LenProperties DEF ParserInv, ParserType, PlaceInv, TakeSome, Available, RETENTION, Parsed
  <1>2. /\ \A i \in 1..a : extra_buffer[i] = bytes[q + i]
        /\ \A i \in 1..b : slice[i] = bytes[q + a + i]
    BY DEF ParserInv, PlaceInv
  <1>3. /\ x \in 0..a /\ y \in 0..b /\ (x < size => x = a)
        /\ extra_buffer' \in Seq(Byte) /\ slice' \in Seq(Byte)
        /\ Len(extra_buffer') = a - x /\ Len(slice') = b - y
        /\ \A i \in 1..(a - x) : extra_buffer'[i] = extra_buffer[x + i]
        /\ \A i \in 1..(b - y) : slice'[i] = slice[y + i]
    <2>1. RETENTION \in Nat
      BY DEF RETENTION
    <2> QED  BY <2>1, TakeSomeMoves DEF ParserInv
  <1>4. Taken(size) = SubSeq(extra_buffer, 1, x) \o SubSeq(slice, 1, y)
    BY DEF Taken
  <1>5. Parsed' = fed - Len(extra_buffer') - Len(slice')
    BY DEF Parsed
  <1> HIDE DEF a, b, x, q, bytes
  <1>6. /\ y = size - x /\ x \in Nat /\ y \in Nat /\ x <= a /\ y <= b /\ x <= size
        /\ x < size => x = a
    BY <1>1, <1>3
  <1> HIDE DEF y
  <1>7. Parsed' = q + size /\ q + size + 4 <= fed /\ q + size + (a - x) = q + a + y
    BY <1>1, <1>3, <1>5, <1>6
  <1>8. ASSUME NEW i \in 1..(a - x) PROVE extra_buffer'[i] = bytes[q + size + i]
    <2>1. i \in Nat /\ i >= 1 /\ i <= a - x /\ a \in Nat /\ q \in Nat
      BY <1>1, <1>6
    <2>2. x = size
      BY <1>6, <2>1
    <2>3. x + i \in 1..a /\ q + (x + i) = q + size + i
      BY <1>6, <2>1, <2>2
    <2> QED  BY <1>2, <1>3, <2>3
  <1>9. ASSUME NEW i \in 1..(b - y) PROVE slice'[i] = bytes[q + size + (a - x) + i]
    <2>1. y + i \in 1..b /\ q + a + (y + i) = q + size + (a - x) + i
      BY <1>1, <1>3, <1>6, <1>9
    <2> QED  BY <1>2, <1>3, <2>1
  <1>10. Taken(size) = SubSeq(bytes, q + 1, q + size)
    <2> DEFINE u == SubSeq(extra_buffer, 1, x)
               v == SubSeq(slice, 1, y)
               w == SubSeq(bytes, q + 1, q + size)
    <2>1. u \in Seq(Byte) /\ Len(u) = x /\ \A i \in 1..x : u[i] = extra_buffer[i]
      BY <1>1, <1>3, PrefixEntries DEF a
    <2>2. v \in Seq(Byte) /\ Len(v) = y /\ \A i \in 1..y : v[i] = slice[i]
      BY <1>1, <1>3, PrefixEntries DEF b
    <2>3. w \in Seq(Byte) /\ Len(w) = size /\ \A i \in 1..size : w[i] = bytes[q + i]
      <3>1. q + size \in q..Len(bytes) /\ (q + size) - q = size
        BY <1>1, <1>7
      <3> QED  BY <1>1, <3>1, PartEntries
    <2> HIDE DEF u, v, w
    <2>4. u \o v \in Seq(Byte) /\ Len(u \o v) = Len(w)
          /\ \A i \in 1..size : (u \o v)[i] = IF i <= x THEN u[i] ELSE v[i - x]
      <3>1. /\ u \o v \in Seq(Byte) /\ Len(u \o v) = Len(u) + Len(v)
            /\ \A i \in 1..Len(u) + Len(v) : (u \o v)[i] = IF i <= Len(u) THEN u[i] ELSE v[i - Len(u)]
        BY <2>1, <2>2, ConcatProperties
      <3>2. Len(u) = x /\ Len(v) = y /\ Len(w) = size /\ Len(u) + Len(v) = size
        BY <1>6, <2>1, <2>2, <2>3
      <3> QED  BY <3>1, <3>2, Zenon
    <2>5. ASSUME NEW i \in 1..size PROVE (u \o v)[i] = w[i]
      <3>1. CASE i <= x
        <4>1. i \in 1..x /\ i \in 1..a
          BY <1>1, <1>6, <3>1
        <4>2. (u \o v)[i] = u[i] /\ u[i] = extra_buffer[i]
          BY <2>1, <2>4, <3>1, <4>1, Zenon
        <4>3. w[i] = bytes[q + i] /\ extra_buffer[i] = bytes[q + i]
          BY <1>2, <2>3, <4>1, Zenon
        <4> QED  BY <4>2, <4>3, Zenon
      <3>2. CASE ~(i <= x)
        <4>1. x = a /\ i - x \in 1..y /\ i - x \in 1..b /\ q + a + (i - x) = q + i
          BY <1>1, <1>3, <1>6, <3>2
        <4>2. (u \o v)[i] = v[i - x] /\ v[i - x] = slice[i - x]
          BY <2>2, <2>4, <3>2, <4>1, Zenon
        <4>3. w[i] = bytes[q + i] /\ slice[i - x] = bytes[q + i]
          BY <1>2, <2>3, <4>1, Zenon
        <4> QED  BY <4>2, <4>3, Zenon
      <3> QED  BY <3>1, <3>2
    <2>6. u \o v = w
      BY <2>3, <2>4, <2>5, SeqEqual
    <2> QED  BY <1>4, <2>6 DEF u, v, w
  <1>11. Least(fed, RETENTION) <= Len(extra_buffer') + Len(slice')
    <2>1. Len(extra_buffer') + Len(slice') = (a - x) + (b - y)
      BY <1>3, Zenon
    <2>2. (a - x) + (b - y) >= 4 /\ fed \in Nat
      BY <1>1, <1>6
    <2>3. Least(fed, RETENTION) <= (a - x) + (b - y)
      BY <1>1, <1>6, <2>2 DEF Least, RETENTION
    <2> QED  BY <2>1, <2>3, Zenon
  <1> QED
    BY <1>3, <1>7, <1>8, <1>9, <1>10, <1>11 DEF RETENTION, q, bytes

\* The bytes that are taken, one by one.
LEMMA TakenBytes ==
    ASSUME ParserInv, pc = "parse", NEW size \in Nat, TakeSome(size, RETENTION),
           UNCHANGED <<file, fed>>
    PROVE  /\ Parsed \in Nat /\ Parsed + size \in Nat
           /\ Parsed + size + RETENTION <= Len(file.bytes) /\ Len(file.bytes) \in Nat
           /\ Taken(size) \in Seq(Byte) /\ Len(Taken(size)) = size
           /\ \A i \in 1..size : Taken(size)[i] = file.bytes[Parsed + i] /\ Taken(size)[i] \in Byte
  <1> DEFINE q == Parsed
             bytes == file.bytes
             t == Taken(size)
  <1>1. pc \in Reading
    BY DEF Reading
  <1>2. t = SubSeq(bytes, q + 1, q + size) /\ q + size + RETENTION <= fed
    BY <1>1, TakeSomeInPlace
  <1>3. /\ bytes \in Seq(Byte) /\ Len(bytes) \in Nat /\ q \in Nat
        /\ fed \in Nat /\ fed <= Len(bytes)
    BY <1>1, ReadAssumption, LenProperties DEF ParserInv, ParserType, PlaceInv
  <1> HIDE DEF q, bytes, t
  <1>4. q + size + RETENTION <= Len(bytes) /\ q + size \in q..Len(bytes) /\ (q + size) - q = size
    BY <1>2, <1>3 DEF RETENTION
  <1>5. t \in Seq(Byte) /\ Len(t) = size /\ \A i \in 1..size : t[i] = bytes[q + i]
    BY <1>2, <1>3, <1>4, PartEntries
  <1>6. \A i \in 1..size : t[i] \in Byte
    BY <1>5, ElementOfSeq
  <1>7. q + size \in Nat
    BY <1>3
  <1> QED  BY <1>3, <1>4, <1>5, <1>6, <1>7, Zenon DEF q, bytes, t

\* A take that finds too little moves everything to the extra buffer.
LEMMA TakeNoneInPlace ==
    ASSUME ParserInv, pc \in Reading, NEW size, NEW retention, TakeNone(size, retention),
           UNCHANGED <<file, fed>>
    PROVE  /\ extra_buffer' \in Seq(Byte) /\ slice' = <<>> /\ slice' \in Seq(Byte)
           /\ Len(extra_buffer') = Len(extra_buffer) + Len(slice) /\ Len(slice') = 0
           /\ Parsed' = Parsed
           /\ \A i \in 1..Len(extra_buffer') : extra_buffer'[i] = file.bytes[Parsed + i]
  <1> DEFINE a == Len(extra_buffer)
             b == Len(slice)
             q == Parsed
             bytes == file.bytes
  <1>1. /\ extra_buffer \in Seq(Byte) /\ slice \in Seq(Byte) /\ fed \in Nat
        /\ a \in Nat /\ b \in Nat /\ q \in Nat /\ q = fed - a - b
    BY LenProperties DEF ParserInv, ParserType, PlaceInv, Parsed
  <1>2. /\ \A i \in 1..a : extra_buffer[i] = bytes[q + i]
        /\ \A i \in 1..b : slice[i] = bytes[q + a + i]
    BY DEF ParserInv, PlaceInv
  <1>3. extra_buffer' = extra_buffer \o slice /\ slice' = <<>>
    BY DEF TakeNone
  <1>4. /\ extra_buffer' \in Seq(Byte) /\ Len(extra_buffer') = a + b
        /\ \A i \in 1..(a + b) : extra_buffer'[i] = IF i <= a THEN extra_buffer[i] ELSE slice[i - a]
    BY <1>1, <1>3, ConcatProperties
  <1>5. Parsed' = fed - Len(extra_buffer') - Len(slice')
    BY DEF Parsed
  <1>6. slice' \in Seq(Byte) /\ Len(slice') = 0
    BY <1>3, EmptySeq
  <1> HIDE DEF a, b, q, bytes
  <1>7. ASSUME NEW i \in 1..(a + b) PROVE extra_buffer'[i] = bytes[q + i]
    <2>1. CASE i <= a
      <3>1. i \in 1..a
        BY <1>1, <2>1
      <3> QED  BY <1>2, <1>4, <2>1, <3>1
    <2>2. CASE ~(i <= a)
      <3>1. i - a \in 1..b /\ q + a + (i - a) = q + i
        BY <1>1, <2>2
      <3> QED  BY <1>2, <1>4, <2>2, <3>1
    <2> QED  BY <2>1, <2>2
  <1>8. Parsed' = q
    BY <1>1, <1>4, <1>5, <1>6
  <1> QED
    BY <1>3, <1>4, <1>6, <1>7, <1>8 DEF q, bytes, a, b

-----------------------------------------------------------------------------
(* Every step keeps the parser's place                                     *)

\* What a marker or a length can say is a number of bytes.
LEMMA LengthTypes ==
    /\ \A m \in Byte : MarkerPartition(m) \in Nat /\ MarkerLen(m) \in Nat /\ MarkerLen(m) >= 1
    /\ \A b0, b1 \in Byte : U16Len(b0, b1) \in Nat /\ U16Len(b0, b1) >= 1
  <1>1. ASSUME NEW m \in Byte PROVE MarkerPartition(m) \in Nat /\ MarkerLen(m) \in Nat /\ MarkerLen(m) >= 1
    <2>1. m % 16 \in Nat /\ ((m \div 16) % 4) + 1 \in 1..4
      BY DEF Byte
    <2>2. BlockLen[((m \div 16) % 4) + 1] \in 1..WriteBufferSize
      BY <2>1, BlockLenAssumption
    <2>3. MarkerPartition(m) = m % 16 /\ MarkerLen(m) = BlockLen[((m \div 16) % 4) + 1]
      BY Zenon DEF MarkerPartition, MarkerLen, FlaggedLen
    <2>4. MarkerLen(m) \in 1..WriteBufferSize
      BY <2>2, <2>3, Zenon
    <2>5. \A k \in 1..WriteBufferSize : k \in Nat /\ k >= 1
      BY DEF WriteBufferSize
    <2> QED
      BY <2>1, <2>3, <2>4, <2>5, Zenon
  <1>2. ASSUME NEW b0 \in Byte, NEW b1 \in Byte PROVE U16Len(b0, b1) \in Nat /\ U16Len(b0, b1) >= 1
    BY DEF U16Len, Byte
  <1> QED  BY <1>1, <1>2

\* A step that takes bytes while it parses.
LEMMA ParseKeepsPlace ==
    ASSUME ParserInv, pc = "parse", NEW size \in Nat, TakeSome(size, RETENTION),
           UNCHANGED <<file, fed>>, pc' \in {"parse", "done"},
           current_state' \in [at : {"StartBlock", "U16Length", "Block"}, part : Nat, len : Nat]
    PROVE  ParserInv'
  <1> DEFINE q == Parsed'
  <1>1. /\ extra_buffer' \in Seq(Byte) /\ slice' \in Seq(Byte)
        /\ q = Parsed + size
        /\ Least(fed, RETENTION) <= Len(extra_buffer') + Len(slice')
        /\ \A i \in 1..Len(extra_buffer') : extra_buffer'[i] = file.bytes[q + i]
        /\ \A i \in 1..Len(slice') : slice'[i] = file.bytes[q + Len(extra_buffer') + i]
    <2>1. pc \in Reading
      BY DEF Reading
    <2> QED  BY <2>1, TakeSomeInPlace
  <1>2. q \in Nat
    <2>1. Parsed \in Nat
      BY DEF ParserInv, PlaceInv, Reading
    <2> QED  BY <1>1, <2>1
  <1>3. ParserType'
    BY <1>1 DEF ParserInv, ParserType
  <1>4. PlaceInv'
    <2>1. pc' \in Reading => pc' = "parse"
      BY DEF Reading
    <2> QED  BY <1>1, <1>2, <2>1, Zenon DEF PlaceInv
  <1> QED  BY <1>3, <1>4 DEF ParserInv

\* Steps that leave parser and buffer alone.
LEMMA ParserKept ==
    ASSUME ParserInv, UNCHANGED <<parser, partial>>,
           pc' = pc \/ pc' \notin Reading \/ (pc = "poll" /\ pc' \in {"idle", "verify"})
    PROVE  ParserInv'
  <1>1. UNCHANGED <<file, fed, current_state, extra_buffer, slice>>
    BY DEF parser, partial
  <1>2. ParserType'
    BY <1>1 DEF ParserInv, ParserType
  <1>3. Parsed' = Parsed
    BY <1>1 DEF Parsed
  <1>4. PlaceInv'
    <2> SUFFICES ASSUME pc' \in Reading PROVE PlaceInv'
      BY DEF PlaceInv
    <2>1. pc \in Reading /\ (pc' # "parse" => pc # "parse")
      BY DEF Reading
    <2> QED  BY <1>1, <1>3, <2>1, Zenon DEF PlaceInv, ParserInv
  <1> QED  BY <1>2, <1>4 DEF ParserInv

\* A slice that arrives is put behind what is left of the earlier ones.
LEMMA FeedKeepsPlace ==
    ASSUME ParserInv, NEW n \in SliceSizes, NEW last \in BOOLEAN, Feed(n, last)
    PROVE  ParserInv' /\ Parsed' = Parsed
  <1> DEFINE room == Len(file.bytes) - fed
             size == IF n > room THEN room ELSE n
             a == Len(extra_buffer)
             bytes == file.bytes
  <1>1. /\ bytes \in Seq(Byte) /\ Len(bytes) \in Nat /\ fed \in Nat /\ fed <= Len(bytes)
        /\ extra_buffer \in Seq(Byte) /\ a \in Nat /\ n \in Nat
    <2>1. bytes \in Seq(Byte) /\ extra_buffer \in Seq(Byte) /\ n \in Nat
      BY ReadAssumption DEF ParserInv, ParserType
    <2> QED  BY <2>1, LenProperties DEF ParserInv, ParserType
  <1>2. /\ pc = "idle" /\ pc' = "parse" /\ fed' = fed + size
        /\ slice' = SubSeq(bytes, fed + 1, fed + size)
        /\ UNCHANGED <<file, current_state, extra_buffer>>
    BY Zenon DEF Feed, NewSlice
  <1>3. /\ Parsed = fed - a /\ Parsed \in Nat /\ Least(fed, RETENTION) <= a
        /\ \A i \in 1..a : extra_buffer[i] = bytes[Parsed + i]
    <2>1. pc \in Reading /\ pc # "parse"
      BY <1>2 DEF Reading
    <2>2. /\ Parsed \in Nat /\ Least(fed, RETENTION) <= a + Len(slice) /\ slice = <<>>
          /\ \A i \in 1..a : extra_buffer[i] = bytes[Parsed + i]
      BY <2>1, Zenon DEF ParserInv, PlaceInv
    <2>3. Len(slice) = 0
      BY <2>2
    <2> QED  BY <1>1, <2>2, <2>3 DEF Parsed
  <1>4. size \in Nat /\ fed + size <= Len(bytes)
    BY <1>1
  <1> HIDE DEF size, a
  <1>5. /\ slice' \in Seq(Byte) /\ Len(slice') = size
        /\ \A i \in 1..size : slice'[i] = bytes[fed + i]
    <2>1. fed + size \in fed..Len(bytes) /\ (fed + size) - fed = size
      BY <1>1, <1>4
    <2> QED  BY <1>1, <1>2, <2>1, PartEntries
  <1>6. Parsed' = Parsed /\ Parsed + a = fed
    BY <1>1, <1>2, <1>3, <1>4, <1>5 DEF Parsed, a
  <1>7. Least(fed + size, RETENTION) <= a + size
    BY <1>1, <1>3, <1>4 DEF Least, RETENTION
  <1>8. ParserType'
    BY <1>1, <1>2, <1>4, <1>5 DEF ParserInv, ParserType
  <1>9. PlaceInv'
    <2>1. Least(fed', RETENTION) <= Len(extra_buffer') + Len(slice')
      BY <1>2, <1>5, <1>7, Zenon DEF a
    <2>2. \A i \in 1..Len(extra_buffer') : extra_buffer'[i] = file'.bytes[Parsed' + i]
      BY <1>2, <1>3, <1>6, Zenon DEF a
    <2>3. \A i \in 1..Len(slice') : slice'[i] = file'.bytes[Parsed' + Len(extra_buffer') + i]
      BY <1>2, <1>5, <1>6, Zenon DEF a
    <2> QED  BY <1>2, <1>3, <1>6, <2>1, <2>2, <2>3, Zenon DEF PlaceInv
  <1> QED  BY <1>6, <1>8, <1>9 DEF ParserInv

\* The place of the parser is kept by every step.
LEMMA ParserStep == ParserInv /\ [Next]_vars => ParserInv'
  <1> SUFFICES ASSUME ParserInv, [Next]_vars PROVE ParserInv'
    OBVIOUS
  <1> DEFINE States == [at : {"StartBlock", "U16Length", "Block"}, part : Nat, len : Nat]
  <1>0. current_state \in States
    BY DEF ParserInv, ParserType
  <1>1. ASSUME NEW n \in SliceSizes, NEW last \in BOOLEAN, Feed(n, last) PROVE ParserInv'
    BY <1>1, FeedKeepsPlace
  <1>2. CASE ParseStarved
    <2>1. /\ pc = "parse" /\ pc' = "poll" /\ TakeNone(Wanted, RETENTION)
          /\ UNCHANGED <<file, fed, current_state>>
      BY <1>2, Zenon DEF ParseStarved, parser
    <2>2. pc \in Reading /\ pc' # "parse"
      BY <2>1 DEF Reading
    <2>3. /\ extra_buffer' \in Seq(Byte) /\ slice' = <<>> /\ slice' \in Seq(Byte)
          /\ Len(extra_buffer') = Len(extra_buffer) + Len(slice) /\ Len(slice') = 0
          /\ Parsed' = Parsed
          /\ \A i \in 1..Len(extra_buffer') : extra_buffer'[i] = file.bytes[Parsed + i]
      BY <2>1, <2>2, TakeNoneInPlace
    <2>4. ParserType'
      BY <2>1, <2>3 DEF ParserInv, ParserType
    <2>5. PlaceInv'
      <3>1. Parsed \in Nat /\ Least(fed, RETENTION) <= Len(extra_buffer) + Len(slice)
        BY <2>2 DEF ParserInv, PlaceInv
      <3>2. Len(extra_buffer') \in Nat /\ Len(extra_buffer') + 0 = Len(extra_buffer')
        BY <2>3, LenProperties
      <3>3. Least(fed', RETENTION) <= Len(extra_buffer') + Len(slice')
        BY <2>1, <2>3, <3>1, <3>2, Zenon
      <3>4. \A i \in 1..Len(slice') : slice'[i] = file'.bytes[Parsed' + Len(extra_buffer') + i]
        BY <2>3
      <3> QED  BY <2>1, <2>3, <3>1, <3>3, <3>4, Zenon DEF PlaceInv
    <2> QED  BY <2>4, <2>5 DEF ParserInv
  <1>3. CASE ParseMarker
    <2> DEFINE m == Taken(1)[1]
    <2>1. /\ pc = "parse" /\ TakeSome(1, RETENTION) /\ UNCHANGED <<file, fed>>
          /\ pc' \in {pc, "done"}
          /\ \/ UNCHANGED current_state
             \/ current_state' = U16Length(MarkerPartition(m))
             \/ current_state' = BlockState(MarkerPartition(m), MarkerLen(m))
      BY <1>3 DEF ParseMarker, Fail
    <2>2. m \in Byte
      <3>1. 1 \in Nat /\ 1 \in 1..1
        OBVIOUS
      <3> QED  BY <2>1, <3>1, TakenBytes
    <2> HIDE DEF m
    <2>3. current_state' \in States
      <3>1. MarkerPartition(m) \in Nat /\ MarkerLen(m) \in Nat
        BY <2>2, LengthTypes
      <3> QED  BY <1>0, <2>1, <3>1 DEF U16Length, BlockState
    <2>4. 1 \in Nat /\ pc' \in {"parse", "done"}
      BY <2>1
    <2> QED  BY <2>1, <2>3, <2>4, ParseKeepsPlace
  <1>4. CASE ParseLength
    <2> DEFINE b0 == Taken(2)[1]
               b1 == Taken(2)[2]
    <2>1. /\ pc = "parse" /\ TakeSome(2, RETENTION) /\ UNCHANGED <<file, fed>>
          /\ pc' = pc
          /\ current_state' = BlockState(current_state.part, U16Len(b0, b1))
      BY <1>4 DEF ParseLength
    <2>2. b0 \in Byte /\ b1 \in Byte
      <3>1. 2 \in Nat /\ 1 \in 1..2 /\ 2 \in 1..2
        OBVIOUS
      <3> QED  BY <2>1, <3>1, TakenBytes
    <2> HIDE DEF b0, b1
    <2>3. current_state' \in States
      <3>1. U16Len(b0, b1) \in Nat
        BY <2>2, LengthTypes
      <3> QED  BY <1>0, <2>1, <3>1 DEF BlockState
    <2>4. 2 \in Nat /\ pc' \in {"parse", "done"}
      BY <2>1
    <2> QED  BY <2>1, <2>3, <2>4, ParseKeepsPlace
  <1>5. CASE ParseBlock
    <2>1. /\ pc = "parse" /\ TakeSome(current_state.len, RETENTION) /\ UNCHANGED <<file, fed>>
          /\ pc' = pc /\ current_state' = StartBlock
      BY <1>5 DEF ParseBlock
    <2>2. current_state.len \in Nat /\ StartBlock \in States /\ pc' \in {"parse", "done"}
      BY <1>0, <2>1 DEF StartBlock
    <2> QED  BY <2>1, <2>2, ParseKeepsPlace
  <1>6. CASE VerifySize
    <2>1. /\ pc = "verify" /\ pc' \notin Reading
          /\ UNCHANGED <<file, fed, current_state>>
      BY <1>6, Zenon DEF VerifySize, parser, Fail, Reading
    <2>2. extra_buffer' \in Seq(Byte) /\ slice' \in Seq(Byte)
      <3>1. CASE TakeNone(4, 0)
        <4>1. pc \in Reading
          BY <2>1 DEF Reading
        <4> QED  BY <2>1, <3>1, <4>1, TakeNoneInPlace
      <3>2. CASE TakeSome(4, 0)
        <4>1. 4 \in Nat /\ 0 \in Nat /\ ParserType
          BY DEF ParserInv
        <4> QED  BY <3>2, <4>1, TakeSomeMoves
      <3> QED  BY <1>6, <3>1, <3>2 DEF VerifySize
    <2> QED  BY <2>1, <2>2 DEF ParserInv, ParserType, PlaceInv
  <1>7. CASE \/ TryGetMessage \/ TryGetDisconnected \/ PollEmpty \/ SendEof \/ WaitMessage
             \/ WaitDisconnected \/ AllRetrieved \/ RunInline \/ InlineReturned \/ DropInline
    <2>1. UNCHANGED <<parser, partial>>
      BY <1>7, Zenon DEF TryGetMessage, TakeFrontMessage, TryGetDisconnected, PollEmpty, SendEof,
         WaitMessage, WaitDisconnected, AllRetrieved, RunInline, InlineReturned, DropInline
    <2>2. pc' = pc \/ pc' \notin Reading \/ (pc = "poll" /\ pc' \in {"idle", "verify"})
      BY <1>7 DEF TryGetMessage, TakeFrontMessage, TryGetDisconnected, PollEmpty, SendEof,
         WaitMessage, WaitDisconnected, AllRetrieved, RunInline, InlineReturned, DropInline, Fail,
         Reading
    <2> QED  BY <2>1, <2>2, ParserKept
  <1>8. CASE PoolWorkerStep \/ Terminated \/ UNCHANGED vars
    <2>1. UNCHANGED <<parser, partial, pc>>
      BY <1>8, Zenon DEF PoolWorkerStep, Terminated, vars
    <2> QED  BY <2>1, ParserKept
  <1>9. ASSUME NEW p \in P, ClosureStep(p) PROVE ParserInv'
    <2>1. UNCHANGED others
      BY <1>9, Zenon DEF ClosureStep, ReadBuffer, ReadSlow, SendPartial, SendLast, SendComplete, SendError
    <2>2. UNCHANGED <<parser, partial, pc>>
      BY <2>1, Zenon DEF others
    <2> QED  BY <2>2, ParserKept
  <1> QED
    BY <1>1, <1>2, <1>3, <1>4, <1>5, <1>6, <1>7, <1>8, <1>9, Zenon DEF Next, CallerStep

\* The parser starts with nothing fed.
LEMMA ParserInit == Init => ParserInv
  <1> SUFFICES ASSUME Init PROVE ParserInv
    OBVIOUS
  <1>1. /\ file \in Files /\ fed = 0 /\ extra_buffer = <<>> /\ slice = <<>> /\ pc = "idle"
        /\ current_state = StartBlock
    BY Zenon DEF Init, InitPartial
  <1>2. file.bytes \in Seq(Byte) /\ Len(file.bytes) \in Nat
    BY <1>1, ReadAssumption, LenProperties
  <1>3. <<>> \in Seq(Byte) /\ Len(<<>>) = 0
    BY EmptySeq
  <1>4. ParserType
    BY <1>1, <1>2, <1>3 DEF ParserType, StartBlock
  <1>5. PlaceInv
    BY <1>1, <1>3 DEF PlaceInv, Parsed, Least, RETENTION
  <1> QED  BY <1>4, <1>5 DEF ParserInv

\* The extra buffer and the slice together are what follows in the file.
LEMMA PlaceMeansUnread == ParserInv => PendingIsUnread
  <1> SUFFICES ASSUME ParserInv, pc \in Reading
               PROVE  /\ Pending = SubSeq(file.bytes, fed - Len(Pending) + 1, fed)
                      /\ Len(Pending) >= IF fed < RETENTION THEN fed ELSE RETENTION
    BY DEF PendingIsUnread, Reading
  <1> DEFINE q == Parsed
             a == Len(extra_buffer)
             b == Len(slice)
             bytes == file.bytes
             w == SubSeq(bytes, q + 1, fed)
             pending == Pending
  <1>1. /\ bytes \in Seq(Byte) /\ fed \in Nat /\ fed <= Len(bytes)
        /\ extra_buffer \in Seq(Byte) /\ slice \in Seq(Byte)
        /\ a \in Nat /\ b \in Nat /\ q \in Nat /\ q = fed - a - b /\ Len(bytes) \in Nat
    BY ReadAssumption, LenProperties DEF ParserInv, ParserType, PlaceInv, Parsed
  <1>2. /\ \A i \in 1..a : extra_buffer[i] = bytes[q + i]
        /\ \A i \in 1..b : slice[i] = bytes[q + a + i]
        /\ Least(fed, RETENTION) <= a + b
    BY DEF ParserInv, PlaceInv
  <1>3. /\ pending \in Seq(Byte) /\ Len(pending) = a + b
        /\ \A i \in 1..(a + b) : pending[i] = IF i <= a THEN extra_buffer[i] ELSE slice[i - a]
    BY <1>1, ConcatProperties DEF Pending
  <1> HIDE DEF q, a, b, bytes, pending
  <1>4. w \in Seq(Byte) /\ Len(w) = a + b /\ \A i \in 1..(a + b) : w[i] = bytes[q + i]
    <2>1. fed \in q..Len(bytes) /\ fed - q = a + b
      BY <1>1
    <2> QED  BY <1>1, <2>1, PartEntries
  <1> HIDE DEF w
  <1>5. ASSUME NEW i \in 1..(a + b) PROVE pending[i] = w[i]
    <2>1. CASE i <= a
      <3>1. i \in 1..a
        BY <1>1, <2>1
      <3> QED  BY <1>2, <1>3, <1>4, <2>1, <3>1
    <2>2. CASE ~(i <= a)
      <3>1. i - a \in 1..b /\ q + a + (i - a) = q + i
        BY <1>1, <2>2
      <3> QED  BY <1>2, <1>3, <1>4, <2>2, <3>1
    <2> QED  BY <2>1, <2>2
  <1>6. pending = w
    BY <1>3, <1>4, <1>5, SeqEqual
  <1>7. fed - Len(pending) + 1 = q + 1
    BY <1>1, <1>3
  <1>8. Len(pending) >= IF fed < RETENTION THEN fed ELSE RETENTION
    BY <1>1, <1>2, <1>3 DEF Least, RETENTION
  <1> QED  BY <1>6, <1>7, <1>8 DEF w, pending, bytes

\* However a file is cut into slices, process_buffer neither loses nor repeats a byte
\* between slices and never takes the last four bytes fed so far for blocks: what the
\* partial buffer holds is the end of what was fed (PendingIsUnread).
THEOREM ReadPendingIsUnread == Spec => []PendingIsUnread
  <1>1. Init => ParserInv
    BY ParserInit
  <1>2. ParserInv /\ [Next]_vars => ParserInv'
    BY ParserStep
  <1>3. ParserInv => PendingIsUnread
    BY PlaceMeansUnread
  <1> QED  BY <1>1, <1>2, <1>3, PTL DEF Spec

-----------------------------------------------------------------------------
(* The reference: what GoDemultiplex gives, from each position on          *)

\* The loop ends at pos.
GoStops(data, pos) == pos > Len(data) \/ (MarkerNeedsLength(data[pos]) /\ pos + 2 > Len(data))

\* Where the turn that starts at pos continues.
GoEnd(data, pos) == Least(DataStart(data, pos) + DataLen(data, pos), Len(data) + 1)

\* What one turn finds lies behind pos, within the data.
LEMMA TurnFacts ==
    ASSUME NEW data \in Seq(Byte), NEW pos \in Nat, pos >= 1, ~GoStops(data, pos)
    PROVE  /\ data[pos] \in Byte
           /\ DataStart(data, pos) \in Nat /\ DataLen(data, pos) \in Nat /\ GoEnd(data, pos) \in Nat
           /\ pos < DataStart(data, pos) /\ DataStart(data, pos) <= GoEnd(data, pos)
           /\ GoEnd(data, pos) <= Len(data) + 1
           /\ DataLen(data, pos) >= 1
  <1> DEFINE L == Len(data)
             s == DataStart(data, pos)
             l == DataLen(data, pos)
             m == data[pos]
             long == MarkerNeedsLength(m)
  <1>1. L \in Nat /\ pos <= L /\ (long => pos + 2 <= L)
    BY LenProperties DEF GoStops
  <1>2. m \in Byte
    BY <1>1, ElementOfSeq
  <1>3. s \in Nat /\ pos < s /\ s <= L + 1
    BY <1>1 DEF DataStart
  <1>4. l \in Nat /\ l >= 1
    <2>1. CASE long
      <3>1. pos + 1 \in 1..L /\ pos + 2 \in 1..L
        BY <1>1, <2>1
      <3>2. data[pos + 1] \in Byte /\ data[pos + 2] \in Byte
        BY <3>1, ElementOfSeq
      <3> QED  BY <2>1, <3>2, LengthTypes, Zenon DEF DataLen
    <2>2. CASE ~long
      BY <1>2, <2>2, LengthTypes, Zenon DEF DataLen
    <2> QED  BY <2>1, <2>2
  <1>5. GoEnd(data, pos) = IF s + l < L + 1 THEN s + l ELSE L + 1
    BY Zenon DEF GoEnd, Least
  <1> HIDE DEF L, s, l, m
  <1>6. GoEnd(data, pos) \in Nat /\ s <= GoEnd(data, pos) /\ GoEnd(data, pos) <= L + 1
    BY <1>1, <1>3, <1>4, <1>5
  <1> QED  BY <1>2, <1>3, <1>4, <1>6 DEF L, s, l, m

\* A turn in which the data of partition k is d and the rest what end adds.
Turn(k, d, rest, n) == [p \in 0 .. n - 1 |-> IF p = k THEN d \o rest[p] ELSE rest[p]]

\* The loop's turn, in those words.
LEMMA GoTurnCases ==
    ASSUME NEW data, NEW n, NEW from, NEW pos
    PROVE  GoTurn(data, n, from, pos) =
               IF GoStops(data, pos) THEN [p \in 0 .. n - 1 |-> << >>]
               ELSE Turn(MarkerPartition(data[pos]),
                         SubSeq(data, DataStart(data, pos), GoEnd(data, pos) - 1),
                         from[GoEnd(data, pos)], n)
  BY Zenon DEF GoTurn, GoStops, GoEnd, Turn

\* from obeys the loop at every position of the data behind the first k.
Demultiplexes(from, data, n, k) ==
    \A pos \in 1 .. Len(data) + 1 : pos > k => from[pos] = GoTurn(data, n, from, pos)

\* A turn only looks at later positions.
LEMMA TurnLooksAhead ==
    ASSUME NEW data \in Seq(Byte), NEW n \in Nat, NEW pos \in Nat, pos >= 1, NEW g, NEW h,
           \A e \in Nat : pos < e /\ e <= Len(data) + 1 => g[e] = h[e]
    PROVE  GoTurn(data, n, g, pos) = GoTurn(data, n, h, pos)
  <1>1. CASE GoStops(data, pos)
    BY <1>1, GoTurnCases, Zenon
  <1>2. CASE ~GoStops(data, pos)
    <2>1. g[GoEnd(data, pos)] = h[GoEnd(data, pos)]
      <3>1. GoEnd(data, pos) \in Nat /\ pos < GoEnd(data, pos) /\ GoEnd(data, pos) <= Len(data) + 1
        BY <1>2, TurnFacts
      <3> QED  BY <3>1, Zenon
    <2> QED  BY <1>2, <2>1, GoTurnCases, Zenon
  <1> QED  BY <1>1, <1>2

\* The function by which GoDemultiplex is defined exists.
LEMMA GoFromExists ==
    ASSUME NEW data \in Seq(Byte), NEW n \in Nat
    PROVE  \E from : from = [pos \in 1 .. Len(data) + 1 |-> GoTurn(data, n, from, pos)]
  <1> DEFINE L == Len(data)
             D == 1 .. L + 1
             T == {d \in Nat : \E g : g = [pos \in D |-> g[pos]] /\ Demultiplexes(g, data, n, L + 1 - d)}
  <1>1. L \in Nat
    BY LenProperties
  <1>2. 0 \in T
    <2> DEFINE g == [pos \in D |-> << >>]
    <2>1. Demultiplexes(g, data, n, L + 1)
      BY <1>1 DEF Demultiplexes
    <2>2. g = [pos \in D |-> g[pos]] /\ L + 1 - 0 = L + 1
      BY <1>1
    <2> HIDE DEF g, L
    <2> QED  BY <2>1, <2>2
  <1>3. ASSUME NEW d \in Nat, d \in T PROVE d + 1 \in T
    <2> DEFINE k == L + 1 - d
    <2>1. PICK g : g = [pos \in D |-> g[pos]] /\ Demultiplexes(g, data, n, k)
      BY <1>3
    <2> DEFINE h == [pos \in D |-> IF pos = k THEN GoTurn(data, n, g, pos) ELSE g[pos]]
    <2>2. k \in Int /\ L + 1 - (d + 1) = k - 1
      BY <1>1
    <2> HIDE DEF L, k
    <2>3. ASSUME NEW pos \in 1 .. L + 1, pos > k - 1 PROVE h[pos] = GoTurn(data, n, h, pos)
      <3>1. pos \in Nat /\ pos >= 1 /\ pos \in D
        BY <1>1
      <3>2. h[pos] = GoTurn(data, n, g, pos)
        <4>1. CASE pos = k
          BY <3>1, <4>1
        <4>2. CASE pos # k
          <5>1. pos > k /\ h[pos] = g[pos]
            BY <2>2, <2>3, <3>1, <4>2
          <5> QED  BY <2>1, <5>1 DEF Demultiplexes, L
        <4> QED  BY <4>1, <4>2
      <3>3. \A e \in Nat : pos < e /\ e <= Len(data) + 1 => g[e] = h[e]
        <4>1. ASSUME NEW e \in Nat, pos < e, e <= L + 1 PROVE g[e] = h[e]
          <5>1. e \in D /\ e # k
            BY <1>1, <2>2, <2>3, <3>1, <4>1
          <5> QED  BY <5>1
        <4> QED  BY <4>1 DEF L
      <3> HIDE DEF h
      <3>4. GoTurn(data, n, g, pos) = GoTurn(data, n, h, pos)
        BY <3>1, <3>3, TurnLooksAhead
      <3> QED  BY <3>2, <3>4
    <2>4. h = [pos \in D |-> h[pos]]
      OBVIOUS
    <2> HIDE DEF h
    <2>5. Demultiplexes(h, data, n, k - 1)
      BY <2>3 DEF Demultiplexes, L
    <2>6. \E f : f = [pos \in D |-> f[pos]] /\ Demultiplexes(f, data, n, L + 1 - (d + 1))
      BY <2>2, <2>4, <2>5, Zenon
    <2> QED  BY <2>6 DEF L
  <1> HIDE DEF T
  <1>4. \A d \in Nat : d \in T
    BY <1>2, <1>3, InductionOnSet, Zenon
  <1>5. PICK g : g = [pos \in D |-> g[pos]] /\ Demultiplexes(g, data, n, L + 1 - (L + 1))
    <2>1. L + 1 \in Nat
      BY <1>1
    <2> QED  BY <1>4, <2>1, Zenon DEF T
  <1>6. \A pos \in D : g[pos] = GoTurn(data, n, g, pos)
    <2>1. \A pos \in D : pos > L + 1 - (L + 1)
      BY <1>1
    <2> QED  BY <1>5, <2>1, Zenon DEF Demultiplexes
  <1>7. g = [pos \in D |-> GoTurn(data, n, g, pos)]
    BY <1>5, <1>6, Zenon
  <1> QED  BY <1>7, Zenon

\* GoDemultiplexFrom obeys the loop, and what it gives are bytes.
LEMMA GoFromFacts ==
    ASSUME NEW data \in Seq(Byte), NEW n \in Nat
    PROVE  \A pos \in 1 .. Len(data) + 1 :
               /\ GoDemultiplexFrom(data, n)[pos] = GoTurn(data, n, GoDemultiplexFrom(data, n), pos)
               /\ GoDemultiplexFrom(data, n)[pos] \in [0 .. n - 1 -> Seq(Byte)]
  <1> DEFINE from == GoDemultiplexFrom(data, n)
             L == Len(data)
             D == 1 .. L + 1
             Good == [0 .. n - 1 -> Seq(Byte)]
  <1>1. from = [pos \in D |-> GoTurn(data, n, from, pos)]
    <2>1. from = CHOOSE g : g = [pos \in D |-> GoTurn(data, n, g, pos)]
      BY Zenon DEF GoDemultiplexFrom
    <2> QED  BY <2>1, GoFromExists, Zenon
  <1> HIDE DEF from
  <1>2. \A pos \in D : from[pos] = GoTurn(data, n, from, pos)
    BY <1>1, Zenon
  <1> DEFINE T == {d \in Nat : \A pos \in D : pos >= L + 1 - d => from[pos] \in Good}
  <1>3. L \in Nat
    BY LenProperties
  <1>4. ASSUME NEW pos \in D, \A e \in D : e > pos => from[e] \in Good PROVE from[pos] \in Good
    <2>1. CASE GoStops(data, pos)
      <3>1. from[pos] = [p \in 0 .. n - 1 |-> << >>]
        BY <1>2, <2>1, GoTurnCases, Zenon
      <3> QED  BY <3>1, EmptySeq
    <2>2. CASE ~GoStops(data, pos)
      <3> DEFINE k == MarkerPartition(data[pos])
                 s == DataStart(data, pos)
                 e == GoEnd(data, pos)
                 d == SubSeq(data, s, e - 1)
      <3>1. from[pos] = Turn(k, d, from[e], n)
        BY <1>2, <2>2, GoTurnCases, Zenon
      <3>2. /\ pos \in Nat /\ pos >= 1
            /\ s \in Nat /\ e \in Nat /\ pos < s /\ s <= e /\ e <= L + 1
        <4>1. pos \in Nat /\ pos >= 1
          BY <1>3
        <4> QED  BY <2>2, <4>1, TurnFacts
      <3> HIDE DEF s, e, k
      <3>3. d \in Seq(Byte)
        <4>1. \A i \in s .. e - 1 : data[i] \in Byte
          BY <1>3, <3>2, ElementOfSeq
        <4>2. s \in Int /\ e - 1 \in Int
          BY <3>2
        <4> QED  BY <4>1, <4>2, SubSeqProperties
      <3> HIDE DEF d
      <3>4. from[e] \in Good
        <4>1. e \in D /\ e > pos
          BY <1>3, <3>2
        <4> QED  BY <1>4, <4>1
      <3>5. ASSUME NEW p \in 0 .. n - 1
            PROVE  (IF p = k THEN d \o from[e][p] ELSE from[e][p]) \in Seq(Byte)
        <4>1. from[e][p] \in Seq(Byte)
          BY <3>4
        <4>2. d \o from[e][p] \in Seq(Byte)
          BY <3>3, <4>1, ConcatProperties
        <4> QED  BY <4>1, <4>2
      <3> QED  BY <3>1, <3>5 DEF Turn
    <2> QED  BY <2>1, <2>2
  <1>5. 0 \in T
    <2>1. ASSUME NEW pos \in D, pos >= L + 1 - 0 PROVE from[pos] \in Good
      <3>1. \A e \in D : ~(e > pos)
        BY <1>3, <2>1
      <3> QED  BY <1>4, <3>1, Zenon
    <2> QED  BY <2>1
  <1>6. ASSUME NEW d \in Nat, d \in T PROVE d + 1 \in T
    <2>1. ASSUME NEW pos \in D, pos >= L + 1 - (d + 1) PROVE from[pos] \in Good
      <3>1. \A e \in D : e > pos => e >= L + 1 - d
        BY <1>3, <2>1
      <3>2. \A e \in D : e > pos => from[e] \in Good
        BY <1>6, <3>1
      <3> QED  BY <1>4, <3>2, Zenon
    <2> QED  BY <2>1
  <1> HIDE DEF T
  <1>7. \A d \in Nat : d \in T
    BY <1>5, <1>6, InductionOnSet, Zenon
  <1>8. ASSUME NEW pos \in D PROVE from[pos] \in Good
    <2>1. L + 1 \in Nat /\ pos >= L + 1 - (L + 1)
      BY <1>3
    <2> QED  BY <1>7, <2>1, Zenon DEF T
  <1> QED  BY <1>2, <1>8, Zenon DEF from

-----------------------------------------------------------------------------
(* The data of a partition: sent as results, read, in the current block,   *)
(* in the channel, and still to be parsed                                  *)

Chain(s, g, c, h, t) == s \o (g \o (c \o (h \o t)))

\* The borders between the parts can be moved.
LEMMA ChainMoves ==
    ASSUME NEW S, NEW s \in Seq(S), NEW g \in Seq(S), NEW c \in Seq(S), NEW h \in Seq(S),
           NEW t \in Seq(S), NEW d \in Seq(S)
    PROVE  /\ Chain(s \o g, <<>>, c, h, t) = Chain(s, g, c, h, t)
           /\ Chain(s, g \o d, c, h, t) = Chain(s, g, d \o c, h, t)
           /\ Chain(s, g, d, h, t) = Chain(s, g, <<>>, d \o h, t)
           /\ Chain(s, g, c, h \o d, t) = Chain(s, g, c, h, d \o t)
           /\ Chain(s, g, c, h, t) \in Seq(S)
  <1>1. \A x, y, z \in Seq(S) : Associates(x, y, z)
    BY Associate, Zenon
  <1>2. \A x, y \in Seq(S) : x \o y \in Seq(S)
    BY ConcatProperties
  <1>3. \A x \in Seq(S) : <<>> \o x = x
    BY ConcatEmptySeq
  <1> DEFINE ht == h \o t
             cht == c \o ht
             dt == d \o t
             dht == d \o ht
             gcht == g \o cht
             dcht == d \o cht
  <1>4. ht \in Seq(S) /\ cht \in Seq(S) /\ dt \in Seq(S) /\ dht \in Seq(S) /\ gcht \in Seq(S)
        /\ s \o gcht \in Seq(S) /\ dcht \in Seq(S)
    BY <1>2
  <1> HIDE DEF ht, cht, dt, dht, gcht, dcht
  <1>5. (s \o g) \o cht = s \o gcht /\ <<>> \o cht = cht
    <2>1. Associates(s, g, cht)
      BY <1>1, <1>4, Zenon
    <2> QED  BY <2>1, <1>3, <1>4, Zenon DEF gcht, Associates
  <1>6. (g \o d) \o cht = g \o dcht /\ (d \o c) \o ht = dcht
    <2>1. Associates(g, d, cht) /\ Associates(d, c, ht)
      BY <1>1, <1>4, Zenon
    <2> QED  BY <2>1, <1>4, Zenon DEF dcht, cht, Associates
  <1>7. (d \o h) \o t = dht /\ <<>> \o dht = dht
    <2>1. Associates(d, h, t)
      BY <1>1, <1>4, Zenon
    <2> QED  BY <2>1, <1>3, <1>4, Zenon DEF dht, ht, Associates
  <1>8. (h \o d) \o t = h \o dt
    <2>1. Associates(h, d, t)
      BY <1>1, <1>4, Zenon
    <2> QED  BY <2>1, <1>4, Zenon DEF dt, Associates
  <1> QED
    BY <1>4, <1>5, <1>6, <1>7, <1>8, Zenon DEF Chain, ht, cht, dt, dht, gcht, dcht

Phases == {"queued", "running", "complete", "broken", "over", "dropped"}
BlockMessages == {m \in [eof : BOOLEAN, data : Seq(Byte)] : m.eof => m.data = <<>>}

ThreadType ==
    /\ plan \in [P -> [want : Nat, ending : {"ok", "err", "panic"}]]
    /\ queue \in Seq(P)
    /\ phase \in [P -> Phases]
    /\ blocks \in [P -> Seq(BlockMessages)]
    /\ current_buffer \in [P -> Seq(Byte)]
    /\ end_of_file \in [P -> BOOLEAN]
    /\ got \in [P -> Seq(Byte)]
    /\ count \in [P -> Nat]

\* The closures in the queue are those nobody has taken.
QueueInv ==
    /\ \A i, j \in 1..Len(queue) : queue[i] = queue[j] => i = j
    /\ \A i \in 1..Len(queue) : phase[queue[i]] = "queued"

ThreadInv == ThreadType /\ QueueInv

Body == WithoutFooter(file.bytes)
From == GoDemultiplexFrom(Body, N)

\* t is what partition p has still to get when s is what it sent as results.
Holds(p, s, t) ==
    /\ s \in Seq(Byte) /\ t \in Seq(Byte)
    /\ Len(s) + Len(got[p]) = count[p]
    /\ From[1][p] = Chain(s, got[p], current_buffer[p], DataOf(blocks[p]), t)

ToCome(p, t) == \E s \in Seq(Byte) : Holds(p, s, t)

\* Messages carry bytes.
LEMMA BlockMessageData ==
    /\ \A m \in BlockMessages : m.data \in Seq(Byte) /\ (m.eof => m.data = <<>>)
    /\ Eof \in BlockMessages /\ Eof.data = <<>>
    /\ \A data \in Seq(Byte) : Block(data) \in BlockMessages /\ Block(data).data = data
  BY EmptySeq DEF BlockMessages, Eof, Block

\* The parts of a partition's data are sequences of bytes.
LEMMA PartTypes ==
    ASSUME ThreadType, NEW p \in P
    PROVE  /\ got[p] \in Seq(Byte) /\ current_buffer[p] \in Seq(Byte) /\ blocks[p] \in Seq(BlockMessages)
           /\ DataOf(blocks[p]) \in Seq(Byte) /\ count[p] \in Nat
  <1>1. /\ got[p] \in Seq(Byte) /\ current_buffer[p] \in Seq(Byte) /\ blocks[p] \in Seq(BlockMessages)
        /\ count[p] \in Nat
    BY DEF ThreadType
  <1> DEFINE c == blocks[p]
  <1> HIDE DEF c
  <1>2. DataOf(c) \in Seq(Byte)
    BY <1>1, BlockMessageData, DataOfType DEF c
  <1> QED  BY <1>1, <1>2 DEF c

\* What the read of n bytes does.
LEMMA ReadBufferKeeps ==
    ASSUME ThreadType, NEW p \in P, ReadBuffer(p), NEW q \in P, NEW s, NEW t, Holds(q, s, t)
    PROVE  ThreadType' /\ Holds(q, s, t)'
  <1> DEFINE c == current_buffer[p]
             room == IF ReadSize < plan[p].want - count[p] THEN ReadSize ELSE plan[p].want - count[p]
             n == IF room < Len(c) THEN room ELSE Len(c)
             a == SubSeq(c, 1, n)
             b == SubSeq(c, n + 1, Len(c))
  <1>1. /\ c \in Seq(Byte) /\ got[p] \in Seq(Byte) /\ DataOf(blocks[p]) \in Seq(Byte) /\ count[p] \in Nat
        /\ Len(c) \in Nat /\ plan[p].want \in Nat
    <2>1. c \in Seq(Byte) /\ got[p] \in Seq(Byte) /\ DataOf(blocks[p]) \in Seq(Byte) /\ count[p] \in Nat
      BY PartTypes
    <2>2. plan[p] \in [want : Nat, ending : {"ok", "err", "panic"}]
      BY DEF ThreadType
    <2> QED  BY <2>1, <2>2, LenProperties
  <1>2. /\ n > 0 /\ count[p] < plan[p].want
        /\ got' = [got EXCEPT ![p] = got[p] \o a]
        /\ current_buffer' = [current_buffer EXCEPT ![p] = b]
        /\ count' = [count EXCEPT ![p] = count[p] + n]
        /\ UNCHANGED <<plan, end_of_file, threads, blocks, others>>
    BY DEF ReadBuffer, ReadMore, channels
  <1>3. n \in Nat /\ n <= Len(c)
    BY <1>1, <1>2, ReadAssumption
  <1> HIDE DEF n, c
  <1>4. a \in Seq(Byte) /\ Len(a) = n /\ b \in Seq(Byte) /\ c = a \o b
    <2>1. n \in 0..Len(c)
      BY <1>1, <1>3
    <2>2. a \in Seq(Byte) /\ Len(a) = n
      BY <1>1, <2>1, PrefixEntries
    <2>3. b \in Seq(Byte)
      <3>1. Len(c) \in n..Len(c)
        BY <1>1, <1>3
      <3> QED  BY <1>1, <1>3, <3>1, PartEntries
    <2>4. a \o b = SubSeq(c, 1, Len(c))
      <3>1. 1 \in 1..Len(c) + 1 /\ n \in 1 - 1..Len(c) /\ Len(c) \in n..Len(c)
        BY <1>1, <1>3
      <3> QED  BY <1>1, <3>1, ConcatAdjacentSubSeq
    <2>5. SubSeq(c, 1, Len(c)) = c
      BY <1>1, SubSeqFull
    <2> QED  BY <2>2, <2>3, <2>4, <2>5, Zenon
  <1> HIDE DEF a, b
  <1>5. got[p] \o a \in Seq(Byte) /\ Len(got[p] \o a) = Len(got[p]) + n /\ Len(got[p]) \in Nat
    BY <1>1, <1>4, ConcatProperties, LenProperties
  <1>6. ThreadType'
    <2>1. got' \in [P -> Seq(Byte)] /\ current_buffer' \in [P -> Seq(Byte)]
      BY <1>2, <1>4, <1>5 DEF ThreadType
    <2>2. count' \in [P -> Nat]
      BY <1>1, <1>2, <1>3 DEF ThreadType
    <2>3. UNCHANGED <<plan, queue, phase, blocks, end_of_file>>
      BY <1>2 DEF threads
    <2> QED  BY <2>1, <2>2, <2>3 DEF ThreadType
  <1>7. UNCHANGED <<file, blocks>> /\ From' = From
    <2>1. UNCHANGED <<file, blocks>>
      BY <1>2 DEF others, parser
    <2> QED  BY <2>1 DEF From, Body
  <1>8. CASE q # p
    <2>1. got'[q] = got[q] /\ current_buffer'[q] = current_buffer[q] /\ count'[q] = count[q]
      BY <1>2, <1>8 DEF ThreadType
    <2> QED  BY <1>6, <1>7, <2>1, Zenon DEF Holds
  <1>9. CASE q = p
    <2>1. got'[p] = got[p] \o a /\ current_buffer'[p] = b /\ count'[p] = count[p] + n
      BY <1>2 DEF ThreadType
    <2>2. s \in Seq(Byte) /\ t \in Seq(Byte) /\ Len(s) + Len(got[p]) = count[p]
          /\ From[1][p] = Chain(s, got[p], c, DataOf(blocks[p]), t)
      BY <1>9, Zenon DEF Holds, c
    <2>3. Chain(s, got[p] \o a, b, DataOf(blocks[p]), t) = Chain(s, got[p], a \o b, DataOf(blocks[p]), t)
      BY <1>1, <1>4, <2>2, ChainMoves
    <2>4. Len(s) \in Nat
      BY <2>2, LenProperties
    <2>5. Len(s) + Len(got[p] \o a) = count[p] + n
      <3> DEFINE x == Len(s)
                 y == Len(got[p])
      <3>1. x \in Nat /\ y \in Nat /\ x + y = count[p] /\ count[p] \in Nat
        BY <1>1, <1>5, <2>2, <2>4
      <3> HIDE DEF x, y
      <3>2. x + (y + n) = count[p] + n
        BY <1>3, <3>1
      <3> QED  BY <1>5, <3>2, Zenon DEF x, y
    <2> QED  BY <1>4, <1>6, <1>7, <1>9, <2>1, <2>2, <2>3, <2>5, Zenon DEF Holds
  <1> QED  BY <1>6, <1>8, <1>9

\* The next message of the channel becomes the current block, or ends it.
LEMMA ReadSlowKeeps ==
    ASSUME ThreadType, NEW p \in P, ReadSlow(p), NEW q \in P, NEW s, NEW t, Holds(q, s, t)
    PROVE  ThreadType' /\ Holds(q, s, t)'
  <1> DEFINE c == blocks[p]
             m == Head(c)
  <1>1. /\ got[p] \in Seq(Byte) /\ current_buffer[p] = <<>> /\ DataOf(c) \in Seq(Byte)
        /\ c \in Seq(BlockMessages)
    BY PartTypes DEF ReadSlow
  <1>2. UNCHANGED <<plan, got, count, queue, file>> /\ From' = From
    <2>1. UNCHANGED <<plan, got, count, queue, file>>
      BY Zenon DEF ReadSlow, others, parser
    <2> QED  BY <2>1 DEF From, Body
  <1>3. CASE c = <<>>
    <2>1. phase' = [phase EXCEPT ![p] = "broken"] /\ UNCHANGED <<blocks, end_of_file, current_buffer>>
      BY <1>3, Zenon DEF ReadSlow
    <2>2. phase' \in [P -> Phases]
      BY <2>1 DEF ThreadType, Phases
    <2>3. ThreadType'
      BY <1>2, <2>1, <2>2 DEF ThreadType
    <2> QED  BY <1>2, <2>1, <2>3, Zenon DEF Holds
  <1>4. CASE c # <<>>
    <2>1. /\ blocks' = [blocks EXCEPT ![p] = Tail(c)] /\ UNCHANGED phase
          /\ \/ m.eof /\ end_of_file' = [end_of_file EXCEPT ![p] = TRUE] /\ UNCHANGED current_buffer
             \/ /\ ~m.eof /\ UNCHANGED end_of_file
                /\ current_buffer' = [current_buffer EXCEPT ![p] = m.data]
      BY <1>4, Zenon DEF ReadSlow
    <2>2. m \in BlockMessages /\ Tail(c) \in Seq(BlockMessages)
      BY <1>1, <1>4, HeadTailProperties
    <2>3. m.data \in Seq(Byte) /\ (m.eof => m.data = <<>>)
      BY <2>2, BlockMessageData
    <2>4. /\ current_buffer' \in [P -> Seq(Byte)] /\ current_buffer'[p] = m.data
          /\ \A r \in P : r # p => current_buffer'[r] = current_buffer[r]
      BY <1>1, <2>1, <2>3 DEF ThreadType
    <2>5. end_of_file' \in [P -> BOOLEAN]
      BY <2>1, Zenon DEF ThreadType
    <2>6. /\ blocks' \in [P -> Seq(BlockMessages)] /\ blocks'[p] = Tail(c)
          /\ \A r \in P : r # p => blocks'[r] = blocks[r]
      BY <2>1, <2>2 DEF ThreadType
    <2>7. ThreadType'
      BY <1>2, <2>1, <2>4, <2>5, <2>6 DEF ThreadType
    <2>8. CASE q # p
      BY <1>2, <2>4, <2>6, <2>7, <2>8, Zenon DEF Holds
    <2>9. CASE q = p
      <3>1. /\ s \in Seq(Byte) /\ t \in Seq(Byte) /\ Len(s) + Len(got[p]) = count[p]
            /\ From[1][p] = Chain(s, got[p], <<>>, DataOf(c), t)
        BY <1>1, <2>9, Zenon DEF Holds
      <3>2. DataOf(c) = m.data \o DataOf(Tail(c)) /\ DataOf(Tail(c)) \in Seq(Byte)
        <4> HIDE DEF c
        <4>1. \A b \in BlockMessages : b.data \in Seq(Byte)
          BY BlockMessageData
        <4>2. DataOf(c) = m.data \o DataOf(Tail(c))
          BY <1>1, <1>4, <4>1, DataOfTail
        <4>3. DataOf(Tail(c)) \in Seq(Byte)
          <5> DEFINE r == Tail(c)
          <5> HIDE DEF r
          <5>1. r \in Seq(BlockMessages)
            BY <2>2 DEF r
          <5>2. DataOf(r) \in Seq(Byte)
            BY <4>1, <5>1, DataOfType
          <5> QED  BY <5>2 DEF r
        <4> QED  BY <4>2, <4>3
      <3> DEFINE h == DataOf(Tail(c))
                 d == m.data
                 g == got[p]
      <3>3. d \in Seq(Byte) /\ h \in Seq(Byte) /\ g \in Seq(Byte)
        BY <1>1, <2>3, <3>2
      <3> HIDE DEF h, d, g
      <3>4. Chain(s, g, d, h, t) = Chain(s, g, <<>>, d \o h, t)
        BY <3>1, <3>3, ChainMoves
      <3> QED  BY <1>2, <2>4, <2>6, <2>7, <2>9, <3>1, <3>2, <3>4, Zenon DEF Holds, h, d, g
    <2> QED  BY <2>8, <2>9
  <1> QED  BY <1>3, <1>4

\* What was read becomes a result.
LEMMA SendKeeps ==
    ASSUME ThreadType, NEW p \in P, SendPartial(p) \/ SendLast(p),
           NEW q \in P, NEW s, NEW t, Holds(q, s, t),
           NEW r, r = IF q = p THEN s \o got[p] ELSE s
    PROVE  ThreadType' /\ Holds(q, r, t)'
  <1>1. /\ got[p] \in Seq(Byte) /\ current_buffer[p] \in Seq(Byte) /\ DataOf(blocks[p]) \in Seq(Byte)
        /\ count[p] \in Nat
    BY PartTypes
  <1>2. /\ UNCHANGED <<plan, current_buffer, end_of_file, count, queue, blocks, file>>
        /\ From' = From
    <2>1. UNCHANGED <<plan, current_buffer, end_of_file, count, queue, blocks, file>>
      BY Zenon DEF SendPartial, SendLast, others, parser
    <2> QED  BY <2>1 DEF From, Body
  <1>3. /\ got' = [got EXCEPT ![p] = <<>>]
        /\ \/ UNCHANGED phase
           \/ phase' = [phase EXCEPT ![p] = "broken"]
           \/ phase' = [phase EXCEPT ![p] = "complete"]
    BY Zenon DEF SendPartial, SendLast
  <1>4. got' \in [P -> Seq(Byte)] /\ got'[p] = <<>> /\ \A o \in P : o # p => got'[o] = got[o]
    BY <1>3, EmptySeq DEF ThreadType
  <1>5. phase' \in [P -> Phases]
    BY <1>3 DEF ThreadType, Phases
  <1>6. ThreadType'
    BY <1>2, <1>4, <1>5 DEF ThreadType
  <1>7. CASE q # p
    BY <1>2, <1>4, <1>6, <1>7, Zenon DEF Holds
  <1>8. CASE q = p
    <2> DEFINE g == got[p]
               c == current_buffer[p]
               h == DataOf(blocks[p])
    <2>1. /\ s \in Seq(Byte) /\ t \in Seq(Byte) /\ Len(s) + Len(g) = count[p]
          /\ From[1][p] = Chain(s, g, c, h, t)
      BY <1>8, Zenon DEF Holds
    <2>2. g \in Seq(Byte) /\ c \in Seq(Byte) /\ h \in Seq(Byte)
      BY <1>1
    <2> HIDE DEF g, c, h
    <2>3. Chain(s \o g, <<>>, c, h, t) = Chain(s, g, c, h, t)
      BY <2>1, <2>2, ChainMoves
    <2>4. s \o g \in Seq(Byte) /\ Len(s \o g) = Len(s) + Len(g) /\ Len(<<>>) = 0
      BY <2>1, <2>2, ConcatProperties, EmptySeq
    <2>5. Len(s \o g) + Len(<<>>) = count[p]
      <3>1. \A n \in Nat : n + 0 = n
        OBVIOUS
      <3> QED  BY <1>1, <2>1, <2>4, <3>1, Zenon
    <2> QED  BY <1>2, <1>4, <1>6, <1>8, <2>1, <2>3, <2>4, <2>5, Zenon DEF Holds, g, c, h
  <1> QED  BY <1>7, <1>8

\* A closure that runs does not disturb the queue.
LEMMA QueueKept ==
    ASSUME ThreadInv, NEW p \in P, phase[p] # "queued", queue' = queue,
           \A q \in P : q # p => phase'[q] = phase[q]
    PROVE  QueueInv'
  <1>1. \A i \in 1..Len(queue) : queue[i] \in P /\ queue[i] # p
    BY ElementOfSeq DEF ThreadInv, ThreadType, QueueInv
  <1> QED  BY <1>1 DEF QueueInv, ThreadInv

\* No step of a closure loses or repeats data of a partition.
LEMMA ClosureKeeps ==
    ASSUME ThreadInv, NEW p \in P, ClosureStep(p), NEW o, ToCome(p, o)
    PROVE  /\ ThreadInv'
           /\ \A q \in P : \A t : ToCome(q, t) => ToCome(q, t)'
           /\ \A q \in P : q # p => phase'[q] = phase[q]
           /\ BlockReceiverAlive(p)
           /\ UNCHANGED <<file, fed, complete, current_state, partial, pc, senders, receivers, single, out, verdict>>
  <1> USE DEF ThreadInv
  <1>1. UNCHANGED <<file, fed, complete, current_state, partial, pc, senders, receivers, single, out, verdict>>
    <2>1. UNCHANGED others
      BY Zenon DEF ClosureStep, ReadBuffer, ReadSlow, SendPartial, SendLast, SendComplete, SendError
    <2> QED  BY <2>1, Zenon DEF others, parser, ending
  <1>2. phase[p] \in {"running", "complete", "broken"}
    BY DEF ClosureStep, ReadBuffer, ReadSlow, SendPartial, SendLast, SendComplete, SendError,
           ReadMore, Ready
  <1>3. /\ queue' = queue
        /\ \/ UNCHANGED phase
           \/ \E x \in Phases : phase' = [phase EXCEPT ![p] = x]
    BY Zenon DEF ClosureStep, ReadBuffer, ReadSlow, SendPartial, SendLast, SendComplete, SendError,
                 ClosureReturns, threads, Phases
  <1>4. \A q \in P : q # p => phase'[q] = phase[q]
    BY <1>3 DEF ThreadType
  <1>5. QueueInv'
    BY <1>2, <1>3, <1>4, QueueKept
  <1> SUFFICES ThreadType' /\ \A q \in P : \A t : ToCome(q, t) => ToCome(q, t)'
    BY <1>1, <1>2, <1>4, <1>5 DEF BlockReceiverAlive
  <1>6. CASE SendComplete(p) \/ SendError(p)
    <2>1. UNCHANGED <<plan, current_buffer, end_of_file, got, count, blocks>>
      BY <1>6, Zenon DEF SendComplete, SendError, readers
    <2>2. ThreadType'
      <3>1. phase' \in [P -> Phases]
        BY <1>3 DEF ThreadType
      <3> QED  BY <1>3, <2>1, <3>1 DEF ThreadType
    <2>3. From' = From
      BY <1>1 DEF From, Body
    <2>4. ASSUME NEW q \in P, NEW t, ToCome(q, t) PROVE ToCome(q, t)'
      BY <2>1, <2>3, <2>4, Zenon DEF ToCome, Holds
    <2> QED  BY <2>2, <2>4
  <1>7. CASE ReadBuffer(p) \/ ReadSlow(p)
    <2>1. ASSUME NEW q \in P, NEW s, NEW t, Holds(q, s, t) PROVE ThreadType' /\ Holds(q, s, t)'
      BY <1>7, <2>1, ReadBufferKeeps, ReadSlowKeeps
    <2>2. ASSUME NEW q \in P, NEW t, ToCome(q, t) PROVE ThreadType' /\ ToCome(q, t)'
      <3>1. PICK s \in Seq(Byte) : Holds(q, s, t)
        BY <2>2, Zenon DEF ToCome
      <3> QED  BY <2>1, <3>1, Zenon DEF ToCome
    <2> QED  BY <2>2, Zenon
  <1>8. CASE SendPartial(p) \/ SendLast(p)
    <2>2. ASSUME NEW q \in P, NEW t, ToCome(q, t) PROVE ThreadType' /\ ToCome(q, t)'
      <3>1. PICK s \in Seq(Byte) : Holds(q, s, t)
        BY <2>2, Zenon DEF ToCome
      <3>2. PICK r : r = IF q = p THEN s \o got[p] ELSE s
        OBVIOUS
      <3>3. ThreadType' /\ Holds(q, r, t)'
        BY <1>8, <3>1, <3>2, SendKeeps
      <3>4. r \in Seq(Byte)
        BY <3>3, Zenon DEF Holds
      <3> QED  BY <3>3, <3>4, Zenon DEF ToCome
    <2> QED  BY <2>2, Zenon
  <1> QED  BY <1>6, <1>7, <1>8, Zenon DEF ClosureStep

\* Steps of the workers start closures that nobody started, or drop closures.
LEMMA WorkerKeeps ==
    ASSUME ThreadInv, UNCHANGED readers, UNCHANGED blocks, UNCHANGED file,
           \/ UNCHANGED <<queue, phase>>
           \/ TakeClosure
           \/ /\ phase' = [p \in P |-> IF phase[p] = "queued" THEN "dropped" ELSE phase[p]]
              /\ queue' = <<>>
    PROVE  /\ ThreadInv'
           /\ \A q \in P : \A t : ToCome(q, t) => ToCome(q, t)'
           /\ \A q \in P : BlockReceiverAlive(q)' => BlockReceiverAlive(q)
  <1> USE DEF ThreadInv
  <1>1. UNCHANGED <<plan, current_buffer, end_of_file, got, count>> /\ From' = From
    BY DEF readers, From, Body
  <1>2. ASSUME NEW q \in P, NEW t, ToCome(q, t) PROVE ToCome(q, t)'
    BY <1>1, <1>2, Zenon DEF ToCome, Holds
  <1>3. CASE UNCHANGED <<queue, phase>>
    <2>1. ThreadType'
      BY <1>1, <1>3 DEF ThreadType
    <2>2. QueueInv'
      BY <1>3 DEF QueueInv
    <2>3. \A q \in P : BlockReceiverAlive(q)' => BlockReceiverAlive(q)
      BY <1>3 DEF BlockReceiverAlive
    <2> QED  BY <1>2, <2>1, <2>2, <2>3
  <1>4. CASE /\ phase' = [p \in P |-> IF phase[p] = "queued" THEN "dropped" ELSE phase[p]]
             /\ queue' = <<>>
    <2>1. phase' \in [P -> Phases] /\ queue' \in Seq(P) /\ Len(queue') = 0
      BY <1>4, EmptySeq DEF ThreadType, Phases
    <2>2. ThreadType'
      BY <1>1, <2>1 DEF ThreadType
    <2>3. QueueInv'
      BY <2>1 DEF QueueInv
    <2>4. \A q \in P : BlockReceiverAlive(q)' => BlockReceiverAlive(q)
      BY <1>4 DEF BlockReceiverAlive
    <2> QED  BY <1>2, <2>2, <2>3, <2>4
  <1>5. CASE TakeClosure
    <2> DEFINE k == queue[1]
    <2>1. queue \in Seq(P) /\ Len(queue) \in Nat \ {0} /\ 1 \in 1..Len(queue) /\ queue # <<>>
      <3>1. queue \in Seq(P) /\ queue # <<>>
        BY <1>5 DEF TakeClosure, ThreadType
      <3>2. Len(queue) \in Nat \ {0}
        BY <3>1, EmptySeq
      <3> QED  BY <3>1, <3>2
    <2>2. /\ k \in P /\ phase[k] = "queued" /\ Head(queue) = k
          /\ Tail(queue) \in Seq(P) /\ Len(Tail(queue)) = Len(queue) - 1
          /\ \A i \in 1..(Len(queue) - 1) : Tail(queue)[i] = queue[i + 1] /\ queue[i + 1] # k
      <3>1. k \in P
        BY <2>1, ElementOfSeq
      <3>2. phase[k] = "queued" /\ Head(queue) = k
        BY <2>1 DEF QueueInv
      <3>3. Len(Tail(queue)) = Len(queue) - 1 /\ Tail(queue) \in Seq(P)
        BY <2>1, HeadTailProperties
      <3>4. \A i \in 1..(Len(queue) - 1) : Tail(queue)[i] = queue[i + 1]
        BY <2>1, <3>3, HeadTailProperties
      <3>5. \A i \in 1..(Len(queue) - 1) : queue[i + 1] # k
        BY <2>1 DEF QueueInv
      <3> QED  BY <3>1, <3>2, <3>3, <3>4, <3>5
    <2> HIDE DEF k
    <2>3. /\ queue' = Tail(queue) /\ phase' = [phase EXCEPT ![k] = "running"]
          /\ \A p \in P : phase'[p] = IF p = k THEN "running" ELSE phase[p]
      BY <1>5, <2>2 DEF TakeClosure, ThreadType
    <2>4. QueueInv'
      <3>1. ASSUME NEW i \in 1..Len(queue')
            PROVE  i + 1 \in 1..Len(queue) /\ queue'[i] = queue[i + 1] /\ queue'[i] # k
                   /\ queue[i + 1] \in P
        <4>1. i \in 1..(Len(queue) - 1) /\ i + 1 \in 1..Len(queue)
          <5>1. i \in 1..(Len(queue) - 1) /\ Len(queue) \in Nat
            BY <2>1, <2>2, <2>3, <3>1, Zenon
          <5> QED  BY <5>1
        <4>2. queue[i + 1] \in P
          BY <2>1, <4>1, ElementOfSeq
        <4> QED  BY <2>2, <2>3, <4>1, <4>2, Zenon
      <3>2. ASSUME NEW i \in 1..Len(queue'), NEW j \in 1..Len(queue'), queue'[i] = queue'[j]
            PROVE  i = j
        <4>1. i + 1 = j + 1
          BY <3>1, <3>2 DEF QueueInv
        <4> QED  BY <4>1
      <3>3. ASSUME NEW i \in 1..Len(queue') PROVE phase'[queue'[i]] = "queued"
        BY <2>3, <3>1 DEF QueueInv
      <3> QED  BY <3>2, <3>3 DEF QueueInv
    <2>5. ThreadType'
      <3>1. phase' \in [P -> Phases] /\ queue' \in Seq(P)
        BY <2>2, <2>3 DEF ThreadType, Phases
      <3> QED  BY <1>1, <3>1 DEF ThreadType
    <2>6. \A q \in P : BlockReceiverAlive(q)' => BlockReceiverAlive(q)
      BY <2>2, <2>3 DEF BlockReceiverAlive
    <2> QED  BY <1>2, <2>4, <2>5, <2>6
  <1> QED  BY <1>3, <1>4, <1>5

-----------------------------------------------------------------------------
(* The parser and the reference                                            *)

\* b is where the block starts that the parser is in.
AtBlock(b) ==
    LET bytes == file.bytes
    IN  /\ b >= 1
        /\ \/ current_state.at = "StartBlock" /\ b = Parsed + 1
           \/ /\ current_state.at # "StartBlock"
              /\ b <= Parsed
              /\ current_state.part = MarkerPartition(bytes[b]) /\ current_state.part < N
              /\ \/ current_state.at = "U16Length" /\ b = Parsed /\ MarkerNeedsLength(bytes[b])
                 \/ /\ current_state.at = "Block"
                    /\ Parsed + 1 = DataStart(bytes, b) /\ current_state.len = DataLen(bytes, b)
        /\ Reaches(Body, b)

\* Every partition gets a beginning of what the reference gives it, and as long as the
\* file is parsed exactly what the reference finds before the current block.
BlockInv ==
    /\ \A p \in P : \E t : ToCome(p, t)
    /\ pc \in Reading => \E b \in Nat : /\ AtBlock(b)
                                        /\ \A p \in P : BlockReceiverAlive(p) => ToCome(p, From[b][p])

\* When the caller looks for results the parser has used what it could, and it only
\* verifies the size once everything was fed.
StarvedInv ==
    /\ pc \in {"poll", "verify"} => ~Available(Wanted, RETENTION)
    /\ pc # "idle" /\ complete => fed = Len(file.bytes)
    /\ pc = "verify" => complete

\* The body is what lies before the file size.
LEMMA BodyFacts ==
    ASSUME ParserType
    PROVE  /\ Body \in Seq(Byte) /\ Len(Body) \in Nat
           /\ Len(Body) = IF Len(file.bytes) < 4 THEN 0 ELSE Len(file.bytes) - 4
           /\ Len(file.bytes) \in Nat
           /\ \A i \in 1..Len(Body) : Body[i] = file.bytes[i]
           /\ \A i \in 1..(Len(Body) + 1) : From[i] = GoTurn(Body, N, From, i) /\ From[i] \in [P -> Seq(Byte)]
  <1> DEFINE bytes == file.bytes
             L == Len(bytes)
  <1>1. bytes \in Seq(Byte) /\ L \in Nat
    BY ReadAssumption, LenProperties DEF ParserType
  <1>2. Body = SubSeq(bytes, 1, L - 4)
    BY Zenon DEF Body, WithoutFooter, Footer
  <1> HIDE DEF L, bytes
  <1>3. /\ Body \in Seq(Byte) /\ Len(Body) = IF L < 4 THEN 0 ELSE L - 4
        /\ \A i \in 1..Len(Body) : Body[i] = bytes[i]
    <2>1. CASE L < 4
      <3>1. Body = <<>>
        <4>1. 1 \in Int /\ L - 4 \in Int /\ L - 4 < 1
          BY <1>1, <2>1
        <4> QED  BY <1>2, <4>1, SubSeqEmpty
      <3> QED  BY <2>1, <3>1, EmptySeq
    <2>2. CASE ~(L < 4)
      <3>1. L - 4 \in 0..Len(bytes)
        BY <1>1, <2>2 DEF L
      <3> QED  BY <1>1, <1>2, <2>2, <3>1, PrefixEntries
    <2> QED  BY <2>1, <2>2
  <1>4. Len(Body) \in Nat
    BY <1>3, LenProperties
  <1>5. \A i \in 1..(Len(Body) + 1) : From[i] = GoTurn(Body, N, From, i) /\ From[i] \in [0 .. N - 1 -> Seq(Byte)]
    <2> DEFINE d == Body
    <2>1. d \in Seq(Byte) /\ N \in Nat
      BY <1>3, ReadAssumption
    <2> HIDE DEF d
    <2>2. \A i \in 1..(Len(d) + 1) :
             /\ GoDemultiplexFrom(d, N)[i] = GoTurn(d, N, GoDemultiplexFrom(d, N), i)
             /\ GoDemultiplexFrom(d, N)[i] \in [0 .. N - 1 -> Seq(Byte)]
      BY <2>1, GoFromFacts
    <2> QED  BY <2>2, Zenon DEF From, d
  <1> QED  BY <1>1, <1>3, <1>4, <1>5 DEF L, bytes, P

\* Steps that leave the parser's place alone.
LEMMA BlockKept ==
    ASSUME BlockInv, UNCHANGED <<file, current_state>>, Parsed' = Parsed,
           pc' \in Reading => pc \in Reading,
           \A q \in P : \A t : ToCome(q, t) => ToCome(q, t)',
           \A q \in P : BlockReceiverAlive(q)' => BlockReceiverAlive(q)
    PROVE  BlockInv'
  <1>1. Body' = Body /\ From' = From
    BY DEF Body, From
  <1>2. \A p \in P : \E t : ToCome(p, t)'
    BY Zenon DEF BlockInv
  <1>3. ASSUME pc' \in Reading
        PROVE  \E b \in Nat : /\ AtBlock(b)'
                              /\ \A p \in P : BlockReceiverAlive(p)' => (ToCome(p, From[b][p]))'
    <2>1. PICK b \in Nat : AtBlock(b) /\ \A p \in P : BlockReceiverAlive(p) => ToCome(p, From[b][p])
      BY <1>3, Zenon DEF BlockInv
    <2>2. AtBlock(b)'
      BY <1>1, <2>1, Zenon DEF AtBlock
    <2>3. ASSUME NEW p \in P, BlockReceiverAlive(p)' PROVE (ToCome(p, From[b][p]))'
      <3>1. PICK t : t = From[b][p]
        BY Zenon
      <3>2. ToCome(p, t)
        BY <2>1, <2>3, <3>1, Zenon
      <3>3. ToCome(p, t)' /\ t = From'[b][p]
        BY <1>1, <3>1, <3>2, Zenon
      <3> QED  BY <3>3, Zenon DEF ToCome
    <2> QED  BY <2>2, <2>3, Zenon
  <1> QED  BY <1>2, <1>3, Zenon DEF BlockInv

\* A marker is the first byte of its block.
LEMMA ParseMarkerInStep ==
    ASSUME ParserInv, ThreadInv, BlockInv, ParseMarker
    PROVE  ThreadInv' /\ BlockInv'
  <1> DEFINE bytes == file.bytes
             m == Taken(1)[1]
  <1>1. /\ pc = "parse" /\ pc \in Reading /\ current_state.at = "StartBlock" /\ TakeSome(1, RETENTION)
        /\ UNCHANGED <<file, fed, queue, phase, blocks, readers>>
    BY DEF ParseMarker, threads, channels, Reading
  <1>2. /\ ThreadInv'
        /\ \A q \in P : \A t : ToCome(q, t) => ToCome(q, t)'
        /\ \A q \in P : BlockReceiverAlive(q)' => BlockReceiverAlive(q)
    <2>1. UNCHANGED <<queue, phase>> /\ UNCHANGED readers /\ UNCHANGED blocks /\ UNCHANGED file
      BY <1>1, Zenon
    <2> QED  BY <2>1, WorkerKeeps
  <1>3. CASE pc' \notin Reading
    BY <1>2, <1>3, Zenon DEF BlockInv
  <1>4. CASE pc' \in Reading
    <2>1. PICK b \in Nat : AtBlock(b) /\ \A p \in P : BlockReceiverAlive(p) => ToCome(p, From[b][p])
      BY <1>1, Zenon DEF BlockInv
    <2>2. b >= 1 /\ b = Parsed + 1
      BY <1>1, <2>1, Zenon DEF AtBlock
    <2>3. m = bytes[b] /\ m \in Byte
      <3>1. 1 \in Nat /\ 1 \in 1..1
        OBVIOUS
      <3>2. Taken(1)[1] = bytes[Parsed + 1] /\ Taken(1)[1] \in Byte
        BY <1>1, <3>1, TakenBytes
      <3> QED  BY <2>2, <3>2
    <2>4. Parsed' = b
      <3>1. 1 \in Nat
        OBVIOUS
      <3>2. Parsed' = Parsed + 1
        BY <1>1, <3>1, TakeSomeInPlace
      <3> QED  BY <2>2, <3>2, Zenon
    <2> HIDE DEF m, bytes
    <2>5. /\ MarkerPartition(m) \in Nat /\ ~(MarkerPartition(m) >= N)
          /\ current_state' = IF MarkerNeedsLength(m) THEN U16Length(MarkerPartition(m))
                              ELSE BlockState(MarkerPartition(m), MarkerLen(m))
      <3>1. CASE MarkerPartition(m) >= N
        BY <1>4, <3>1 DEF ParseMarker, Fail, Reading, m
      <3>2. CASE ~(MarkerPartition(m) >= N)
        BY <2>3, <3>2, LengthTypes DEF ParseMarker, m
      <3> QED  BY <3>1, <3>2
    <2>6. MarkerPartition(m) < N
      <3>1. N \in Nat
        BY ReadAssumption
      <3> QED  BY <2>5, <3>1
    <2>7. Body' = Body /\ From' = From /\ file' = file
      BY <1>1 DEF Body, From
    <2>8. b \in Nat /\ b <= b /\ b + 1 = b + 1
      OBVIOUS
    <2>9. AtBlock(b)'
      <3>1. CASE MarkerNeedsLength(m)
        <4>1. current_state'.at = "U16Length" /\ current_state'.part = MarkerPartition(m)
          BY <2>5, <3>1 DEF U16Length
        <4>2. current_state'.at # "StartBlock"
          BY <4>1
        <4> QED
          BY <2>1, <2>2, <2>3, <2>4, <2>6, <2>7, <2>8, <3>1, <4>1, <4>2, Zenon DEF AtBlock, bytes
      <3>2. CASE ~MarkerNeedsLength(m)
        <4>1. /\ current_state'.at = "Block" /\ current_state'.part = MarkerPartition(m)
              /\ current_state'.len = MarkerLen(m)
          BY <2>5, <3>2 DEF BlockState
        <4>2. current_state'.at # "StartBlock"
          BY <4>1
        <4>3. DataStart(bytes, b) = b + 1 /\ DataLen(bytes, b) = MarkerLen(m)
          BY <2>3, <3>2, Zenon DEF DataStart, DataLen
        <4> QED
          BY <2>1, <2>2, <2>3, <2>4, <2>6, <2>7, <2>8, <4>1, <4>2, <4>3, Zenon DEF AtBlock, bytes
      <3> QED  BY <3>1, <3>2
    <2>10. ASSUME NEW p \in P, BlockReceiverAlive(p)' PROVE (ToCome(p, From[b][p]))'
      <3>1. PICK t : t = From[b][p]
        BY Zenon
      <3>2. ToCome(p, t)
        BY <1>2, <2>1, <2>10, <3>1, Zenon
      <3>3. ToCome(p, t)' /\ t = From'[b][p]
        BY <1>2, <2>7, <3>1, <3>2, Zenon
      <3> QED  BY <3>3, Zenon DEF ToCome
    <2> QED  BY <1>2, <2>9, <2>10, Zenon DEF BlockInv
  <1> QED  BY <1>3, <1>4

\* The two bytes behind a marker with a length are that length.
LEMMA ParseLengthInStep ==
    ASSUME ParserInv, ThreadInv, BlockInv, ParseLength
    PROVE  ThreadInv' /\ BlockInv'
  <1> DEFINE bytes == file.bytes
             b0 == Taken(2)[1]
             b1 == Taken(2)[2]
  <1>1. /\ pc = "parse" /\ pc \in Reading /\ current_state.at = "U16Length" /\ TakeSome(2, RETENTION)
        /\ UNCHANGED <<file, fed, queue, phase, blocks, readers>> /\ pc' = pc
        /\ current_state' = BlockState(current_state.part, U16Len(b0, b1))
    BY DEF ParseLength, threads, channels, Reading
  <1>2. /\ ThreadInv'
        /\ \A q \in P : \A t : ToCome(q, t) => ToCome(q, t)'
        /\ \A q \in P : BlockReceiverAlive(q)' => BlockReceiverAlive(q)
    <2>1. UNCHANGED <<queue, phase>> /\ UNCHANGED readers /\ UNCHANGED blocks /\ UNCHANGED file
      BY <1>1, Zenon
    <2> QED  BY <2>1, WorkerKeeps
  <1>3. PICK b \in Nat : AtBlock(b) /\ \A p \in P : BlockReceiverAlive(p) => ToCome(p, From[b][p])
    BY <1>1, Zenon DEF BlockInv
  <1>4. /\ b >= 1 /\ b = Parsed /\ MarkerNeedsLength(bytes[b])
        /\ current_state.part = MarkerPartition(bytes[b]) /\ current_state.part < N
    <2>1. current_state.at # "StartBlock" /\ current_state.at # "Block"
      BY <1>1
    <2> QED  BY <1>3, <2>1, Zenon DEF AtBlock
  <1>5. b0 = bytes[b + 1] /\ b1 = bytes[b + 2]
    <2>1. 2 \in Nat /\ 1 \in 1..2 /\ 2 \in 1..2
      OBVIOUS
    <2>2. \A i \in 1..2 : Taken(2)[i] = bytes[Parsed + i]
      BY <1>1, <2>1, TakenBytes
    <2> QED  BY <1>4, <2>1, <2>2, Zenon
  <1>6. Parsed' = b + 2
    <2>1. 2 \in Nat
      OBVIOUS
    <2>2. Parsed' = Parsed + 2
      BY <1>1, <2>1, TakeSomeInPlace
    <2> QED  BY <1>4, <2>2, Zenon
  <1> HIDE DEF b0, b1, bytes
  <1>7. Body' = Body /\ From' = From /\ file' = file
    BY <1>1 DEF Body, From
  <1>8. b <= b + 2 /\ (b + 2) + 1 = b + 3
    OBVIOUS
  <1>9. AtBlock(b)'
    <2>1. /\ current_state'.at = "Block" /\ current_state'.part = current_state.part
          /\ current_state'.len = U16Len(b0, b1)
      BY <1>1 DEF BlockState
    <2>2. current_state'.at # "StartBlock"
      BY <2>1
    <2>3. DataStart(bytes, b) = b + 3 /\ DataLen(bytes, b) = U16Len(b0, b1)
      BY <1>4, <1>5, Zenon DEF DataStart, DataLen
    <2> QED
      BY <1>3, <1>4, <1>6, <1>7, <1>8, <2>1, <2>2, <2>3, Zenon DEF AtBlock, bytes
  <1>10. ASSUME NEW p \in P, BlockReceiverAlive(p)' PROVE (ToCome(p, From[b][p]))'
    <2>1. PICK t : t = From[b][p]
      BY Zenon
    <2>2. ToCome(p, t)
      BY <1>2, <1>3, <1>10, <2>1, Zenon
    <2>3. ToCome(p, t)' /\ t = From'[b][p]
      BY <1>2, <1>7, <2>1, <2>2, Zenon
    <2> QED  BY <2>3, Zenon DEF ToCome
  <1> QED  BY <1>2, <1>9, <1>10, Zenon DEF BlockInv

\* A message moves what it carries from the parser to the channel.
LEMMA MessageKeeps ==
    ASSUME ThreadType, NEW p \in P, NEW m \in BlockMessages, blocks'[p] = Append(blocks[p], m),
           UNCHANGED <<file, readers>>, NEW u, NEW t \in Seq(Byte), ToCome(p, u), u = m.data \o t
    PROVE  ToCome(p, t)'
  <1> DEFINE g == got[p]
             c == current_buffer[p]
             b == blocks[p]
             h == DataOf(b)
             d == m.data
  <1>1. /\ g \in Seq(Byte) /\ c \in Seq(Byte) /\ b \in Seq(BlockMessages) /\ h \in Seq(Byte)
        /\ d \in Seq(Byte)
    BY PartTypes, BlockMessageData
  <1>2. PICK s \in Seq(Byte) : Holds(p, s, u)
    BY Zenon DEF ToCome
  <1>3. Len(s) + Len(g) = count[p] /\ From[1][p] = Chain(s, g, c, h, d \o t)
    BY <1>2, Zenon DEF Holds
  <1>4. UNCHANGED <<got, current_buffer, count>> /\ From' = From
    BY DEF readers, From, Body
  <1> HIDE DEF g, c, b, h, d
  <1>5. DataOf(Append(b, m)) = h \o d
    <2>1. \A x \in BlockMessages : x.data \in Seq(Byte)
      BY BlockMessageData
    <2> QED  BY <1>1, <2>1, DataOfAppend DEF h, d
  <1>6. Chain(s, g, c, h \o d, t) = Chain(s, g, c, h, d \o t)
    <2>1. Associates(h, d, t)
      BY <1>1, Associate, Zenon
    <2> QED  BY <2>1, Zenon DEF Chain, Associates
  <1>7. Holds(p, s, t)'
    BY <1>3, <1>4, <1>5, <1>6, Zenon DEF Holds, g, c, b
  <1> QED  BY <1>7, Zenon DEF ToCome

\* What the reference makes of a block that the parser has seen to its end.
LEMMA BlockOfReference ==
    ASSUME ParserInv, pc = "parse", current_state.at = "Block",
           TakeSome(current_state.len, RETENTION), UNCHANGED <<file, fed>>,
           NEW b \in Nat, AtBlock(b), NEW e, e = Parsed + current_state.len + 1
    PROVE  /\ e \in 1..(Len(Body) + 1)
           /\ Reaches(Body, e)
           /\ From[b] = Turn(current_state.part, Taken(current_state.len), From[e], N)
           /\ From[e] \in [P -> Seq(Byte)]
           /\ current_state.part \in P
  <1> DEFINE bytes == file.bytes
             L == Len(Body)
             q == Parsed
             len == current_state.len
             d == Taken(len)
  <1>1. len \in Nat
    BY DEF ParserInv, ParserType
  <1>2. /\ q \in Nat /\ q + len + 4 <= Len(bytes) /\ Len(bytes) \in Nat
        /\ d \in Seq(Byte) /\ Len(d) = len /\ \A i \in 1..len : d[i] = bytes[q + i]
    BY <1>1, TakenBytes DEF RETENTION
  <1>3. /\ Body \in Seq(Byte) /\ L \in Nat /\ L = IF Len(bytes) < 4 THEN 0 ELSE Len(bytes) - 4
        /\ \A i \in 1..L : Body[i] = bytes[i]
        /\ \A i \in 1..(L + 1) : From[i] = GoTurn(Body, N, From, i) /\ From[i] \in [P -> Seq(Byte)]
    BY BodyFacts DEF ParserInv
  <1>4. /\ b >= 1 /\ b <= q /\ current_state.part = MarkerPartition(bytes[b]) /\ current_state.part < N
        /\ q + 1 = DataStart(bytes, b) /\ len = DataLen(bytes, b)
        /\ Reaches(Body, b)
    <2>1. current_state.at # "StartBlock" /\ current_state.at # "U16Length"
      OBVIOUS
    <2> QED  BY <2>1, Zenon DEF AtBlock
  <1>5. current_state.part \in P
    <2>1. current_state.part \in Nat /\ N \in Nat
      BY ReadAssumption DEF ParserInv, ParserType
    <2> QED  BY <1>4, <2>1 DEF P
  <1> HIDE DEF bytes, L, q, len, d
  <1>6. e = q + len + 1
    BY Zenon DEF q, len
  <1>7. L = Len(bytes) - 4 /\ q + len <= L /\ e \in 1..(L + 1) /\ e = (q + 1) + len /\ b \in 1..L /\ e - 1 = q + len
        /\ b \in 1..(L + 1) /\ b <= L
    <2> DEFINE M == Len(bytes)
    <2>1. q \in Nat /\ len \in Nat /\ M \in Nat /\ q + len + 4 <= M
      BY <1>1, <1>2
    <2>2. L = IF M < 4 THEN 0 ELSE M - 4
      BY <1>3
    <2>3. b >= 1 /\ b <= q
      BY <1>4
    <2> HIDE DEF M
    <2>4. L = M - 4 /\ q + len <= L
      BY <2>1, <2>2
    <2> QED  BY <1>6, <2>1, <2>3, <2>4 DEF M
  <1>8. Body[b] = bytes[b]
    BY <1>3, <1>7
  <1>9. MarkerNeedsLength(bytes[b]) => q = b + 2 /\ Body[b + 1] = bytes[b + 1] /\ Body[b + 2] = bytes[b + 2]
    <2> SUFFICES ASSUME MarkerNeedsLength(bytes[b])
                 PROVE  q = b + 2 /\ Body[b + 1] = bytes[b + 1] /\ Body[b + 2] = bytes[b + 2]
      OBVIOUS
    <2>1. DataStart(bytes, b) = b + 3
      BY Zenon DEF DataStart
    <2>2. q + 1 = b + 3
      BY <1>4, <2>1, Zenon
    <2>3. q = b + 2 /\ b + 1 \in 1..L /\ b + 2 \in 1..L
      BY <1>1, <1>2, <1>3, <1>7, <2>2
    <2> QED  BY <1>3, <2>3, Zenon
  <1>10. DataStart(Body, b) = q + 1 /\ DataLen(Body, b) = len
    BY <1>4, <1>8, <1>9, Zenon DEF DataStart, DataLen
  <1>11. ~GoStops(Body, b)
    <2>1. CASE MarkerNeedsLength(bytes[b])
      <3>1. b + 2 <= L /\ b <= L
        BY <1>1, <1>2, <1>3, <1>7, <1>9, <2>1
      <3>2. ~(b > L) /\ ~(b + 2 > L)
        BY <1>3, <3>1
      <3> QED  BY <3>2, Zenon DEF GoStops, L
    <2>2. CASE ~MarkerNeedsLength(bytes[b])
      <3>1. ~(b > L)
        BY <1>3, <1>7
      <3> QED  BY <1>8, <2>2, <3>1, Zenon DEF GoStops, L
    <2> QED  BY <2>1, <2>2
  <1>12. GoEnd(Body, b) = e
    <2>1. GoEnd(Body, b) = IF (q + 1) + len < L + 1 THEN (q + 1) + len ELSE L + 1
      BY <1>10, Zenon DEF GoEnd, Least, L
    <2>2. e < L + 1 \/ e = L + 1
      BY <1>3, <1>7
    <2>3. ~(e < e)
      BY <1>7
    <2> QED  BY <1>7, <2>1, <2>2, <2>3, Zenon
  <1>13. SubSeq(Body, q + 1, e - 1) = d
    <2> DEFINE w == SubSeq(Body, q + 1, q + len)
    <2>1. w \in Seq(Byte) /\ Len(w) = len /\ \A i \in 1..len : w[i] = Body[q + i]
      <3>1. q + len \in q..Len(Body) /\ (q + len) - q = len
        BY <1>1, <1>2, <1>3, <1>7 DEF L
      <3> QED  BY <1>2, <1>3, <3>1, PartEntries
    <2> HIDE DEF w
    <2>2. ASSUME NEW i \in 1..len PROVE w[i] = d[i]
      <3>1. q + i \in 1..L
        BY <1>1, <1>2, <1>3, <1>7
      <3> QED  BY <1>2, <1>3, <2>1, <3>1
    <2>3. Len(w) = Len(d) /\ \A i \in 1..Len(w) : w[i] = d[i]
      BY <1>2, <2>1, <2>2, Zenon
    <2>4. w = d
      BY <1>2, <2>1, <2>3, SeqEqual
    <2> QED  BY <1>7, <2>4, Zenon DEF w
  <1>14. From[b] = Turn(current_state.part, d, From[e], N)
    <2>1. From[b] = GoTurn(Body, N, From, b)
      BY <1>3, <1>7
    <2>2. GoTurn(Body, N, From, b) = Turn(MarkerPartition(Body[b]),
                                          SubSeq(Body, DataStart(Body, b), GoEnd(Body, b) - 1),
                                          From[GoEnd(Body, b)], N)
      BY <1>11, GoTurnCases, Zenon
    <2> QED  BY <1>4, <1>8, <1>10, <1>12, <1>13, <2>1, <2>2, Zenon
  <1>15. ASSUME NEW starts \in SUBSET (1 .. L + 1), PastWhole(Body, starts) PROVE e \in starts
    <2>1. b \in starts
      BY <1>4, <1>15, Zenon DEF Reaches, L
    <2>2. b <= L /\ q + 1 <= L + 1 /\ e <= L + 1
      BY <1>1, <1>2, <1>3, <1>7
    <2>3. MarkerPartition(Body[b]) < N
      BY <1>4, <1>8, Zenon
    <2>4. DataStart(Body, b) + DataLen(Body, b) = e
      BY <1>7, <1>10, Zenon
    <2> QED  BY <1>10, <1>15, <2>1, <2>2, <2>3, <2>4, Zenon DEF PastWhole, L
  <1>16. From[e] \in [P -> Seq(Byte)]
    BY <1>3, <1>7
  <1> QED  BY <1>5, <1>7, <1>14, <1>15, <1>16, Zenon DEF Reaches, L, d, len

\* The parser sends a block to the partition that the reference gives it to.
LEMMA ParseBlockInStep ==
    ASSUME ParserInv, ThreadInv, BlockInv, ParseBlock
    PROVE  ThreadInv' /\ BlockInv'
  <1> USE DEF ThreadInv
  <1>1. PICK k : k = current_state.part
    OBVIOUS
  <1>2. PICK d : d = Taken(current_state.len)
    OBVIOUS
  <1>3. /\ pc = "parse" /\ pc \in Reading /\ pc' = pc /\ current_state.at = "Block"
        /\ TakeSome(current_state.len, RETENTION)
        /\ UNCHANGED <<file, fed, queue, phase, readers>> /\ current_state' = StartBlock
        /\ blocks' = IF BlockReceiverAlive(k) THEN [blocks EXCEPT ![k] = Append(@, Block(d))]
                     ELSE blocks
    BY <1>1, <1>2 DEF ParseBlock, threads, Reading
  <1>4. current_state.len \in Nat
    BY DEF ParserInv, ParserType
  <1>5. d \in Seq(Byte)
    BY <1>2, <1>3, <1>4, TakenBytes
  <1>6. PICK b \in Nat : AtBlock(b) /\ \A p \in P : BlockReceiverAlive(p) => ToCome(p, From[b][p])
    BY <1>3, Zenon DEF BlockInv
  <1>7. PICK e : e = Parsed + current_state.len + 1
    OBVIOUS
  <1>8. /\ e \in 1..(Len(Body) + 1)
        /\ Reaches(Body, e)
        /\ From[b] = Turn(k, d, From[e], N)
        /\ From[e] \in [P -> Seq(Byte)]
        /\ k \in P
    BY <1>1, <1>2, <1>3, <1>6, <1>7, BlockOfReference
  <1>9. e \in Nat /\ e >= 1 /\ e = Parsed' + 1
    <2>1. Parsed' = Parsed + current_state.len
      BY <1>3, <1>4, TakeSomeInPlace
    <2>2. Len(Body) \in Nat
      BY BodyFacts DEF ParserInv
    <2>3. e \in Nat /\ e >= 1
      BY <1>8, <2>2
    <2> QED  BY <1>7, <2>1, <2>3, Zenon
  <1>10. Body' = Body /\ From' = From /\ file' = file
    BY <1>3 DEF Body, From
  <1>11. UNCHANGED <<plan, current_buffer, end_of_file, got, count>>
    BY <1>3, Zenon DEF readers
  <1>12. AtBlock(e)'
    <2>1. current_state'.at = "StartBlock"
      BY <1>3 DEF StartBlock
    <2> QED  BY <1>8, <1>9, <1>10, <2>1, Zenon DEF AtBlock
  <1>13. Block(d) \in BlockMessages /\ Block(d).data = d
    BY <1>5, BlockMessageData
  <1>14. /\ blocks' \in [P -> Seq(BlockMessages)]
         /\ \A p \in P : blocks'[p] = IF p = k /\ BlockReceiverAlive(k) THEN Append(blocks[p], Block(d))
                                      ELSE blocks[p]
    <2>1. blocks \in [P -> Seq(BlockMessages)]
      BY DEF ThreadType
    <2>2. Append(blocks[k], Block(d)) \in Seq(BlockMessages)
      BY <1>8, <1>13, <2>1, AppendProperties
    <2> QED  BY <1>3, <1>8, <2>1, <2>2
  <1>15. ThreadInv'
    <2>1. ThreadType'
      BY <1>3, <1>11, <1>14 DEF ThreadType
    <2>2. QueueInv'
      BY <1>3 DEF QueueInv
    <2> QED  BY <2>1, <2>2
  <1>16. \A p \in P : BlockReceiverAlive(p)' = BlockReceiverAlive(p)
    BY <1>3 DEF BlockReceiverAlive
  <1>17. ASSUME NEW p \in P, blocks'[p] = blocks[p], NEW t, ToCome(p, t) PROVE ToCome(p, t)'
    BY <1>10, <1>11, <1>17, Zenon DEF ToCome, Holds
  <1>18. ASSUME NEW p \in P, BlockReceiverAlive(p), NEW t, t = From[e][p] PROVE ToCome(p, t)'
    <2>1. ToCome(p, From[b][p]) /\ t \in Seq(Byte)
      BY <1>6, <1>8, <1>18
    <2>2. From[b][p] = IF p = k THEN d \o t ELSE t
      <3>1. p \in 0 .. N - 1
        BY DEF P
      <3>2. Turn(k, d, From[e], N)[p] = IF p = k THEN d \o t ELSE t
        BY <1>18, <3>1, Zenon DEF Turn
      <3> QED  BY <1>8, <3>2, Zenon
    <2>3. CASE p = k
      <3>1. PICK u : u = From[b][p]
        OBVIOUS
      <3>2. PICK m : m = Block(d)
        OBVIOUS
      <3>3. m \in BlockMessages /\ u = m.data \o t /\ ToCome(p, u)
        BY <1>13, <2>1, <2>2, <2>3, <3>1, <3>2, Zenon
      <3>4. blocks'[p] = Append(blocks[p], m)
        BY <1>14, <1>18, <2>3, <3>2, Zenon
      <3>5. UNCHANGED <<file, readers>>
        BY <1>3, Zenon
      <3> QED  BY <2>1, <3>3, <3>4, <3>5, MessageKeeps
    <2>4. CASE p # k
      <3>1. blocks'[p] = blocks[p] /\ ToCome(p, t)
        BY <1>14, <2>1, <2>2, <2>4, Zenon
      <3> QED  BY <1>17, <3>1, Zenon
    <2> QED  BY <2>3, <2>4
  <1>19. ASSUME NEW p \in P PROVE \E t : ToCome(p, t)'
    <2>1. CASE BlockReceiverAlive(p)
      <3>1. PICK t : t = From[e][p]
        OBVIOUS
      <3> QED  BY <1>18, <2>1, <3>1, Zenon
    <2>2. CASE ~BlockReceiverAlive(p)
      <3>1. PICK t : ToCome(p, t)
        BY Zenon DEF BlockInv
      <3>2. blocks'[p] = blocks[p]
        BY <1>14, <2>2, Zenon
      <3> QED  BY <1>17, <3>1, <3>2, Zenon
    <2> QED  BY <2>1, <2>2
  <1>20. ASSUME NEW p \in P, BlockReceiverAlive(p)' PROVE (ToCome(p, From[e][p]))'
    <2>1. PICK t : t = From[e][p]
      OBVIOUS
    <2>2. ToCome(p, t)' /\ t = From'[e][p]
      BY <1>10, <1>16, <1>18, <1>20, <2>1, Zenon
    <2> QED  BY <2>2, Zenon DEF ToCome
  <1> QED  BY <1>9, <1>12, <1>15, <1>19, <1>20, Zenon DEF BlockInv

\* Eof carries nothing.
LEMMA SendEofKeeps ==
    ASSUME ThreadInv, BlockInv, SendEof
    PROVE  ThreadInv' /\ BlockInv'
  <1> USE DEF ThreadInv
  <1>1. /\ UNCHANGED <<file, queue, phase, readers>> /\ pc' \notin Reading
        /\ blocks' = [p \in P |-> IF senders /\ BlockReceiverAlive(p) THEN Append(blocks[p], Eof)
                                  ELSE blocks[p]]
    BY DEF SendEof, threads, parser, Reading
  <1>2. UNCHANGED <<plan, current_buffer, end_of_file, got, count>> /\ From' = From
    BY <1>1 DEF readers, From, Body
  <1>3. blocks' \in [P -> Seq(BlockMessages)]
    <2>1. Eof \in BlockMessages /\ blocks \in [P -> Seq(BlockMessages)]
      BY BlockMessageData DEF ThreadType
    <2>2. \A p \in P : Append(blocks[p], Eof) \in Seq(BlockMessages)
      BY <2>1, AppendProperties
    <2> QED  BY <1>1, <2>1, <2>2
  <1>4. ThreadInv'
    BY <1>1, <1>2, <1>3 DEF ThreadType, QueueInv
  <1>5. ASSUME NEW p \in P PROVE \E t : ToCome(p, t)'
    <2>1. PICK t : ToCome(p, t)
      BY Zenon DEF BlockInv
    <2>2. CASE blocks'[p] = blocks[p]
      BY <1>1, <1>2, <2>1, <2>2, Zenon DEF ToCome, Holds
    <2>3. CASE blocks'[p] = Append(blocks[p], Eof)
      <3>1. t \in Seq(Byte)
        BY <2>1, Zenon DEF ToCome, Holds
      <3>2. PICK m : m = Eof
        OBVIOUS
      <3>3. m \in BlockMessages /\ m.data = <<>>
        BY <3>2, BlockMessageData, Zenon
      <3>4. t = m.data \o t
        BY <3>1, <3>3, ConcatEmptySeq
      <3>5. UNCHANGED <<file, readers>> /\ blocks'[p] = Append(blocks[p], m)
        BY <1>1, <2>3, <3>2, Zenon
      <3> QED  BY <2>1, <3>1, <3>3, <3>4, <3>5, MessageKeeps
    <2> QED  BY <1>1, <2>2, <2>3, Zenon
  <1> QED  BY <1>1, <1>4, <1>5, Zenon DEF BlockInv

\* Every step keeps the data of the partitions.
LEMMA BlockStep ==
    ASSUME ParserInv, ThreadInv, BlockInv, [Next]_vars
    PROVE  ThreadInv' /\ BlockInv'
  <1> DEFINE Kept == /\ \A q \in P : \A t : ToCome(q, t) => ToCome(q, t)'
                     /\ \A q \in P : BlockReceiverAlive(q)' => BlockReceiverAlive(q)
  <1>1. ASSUME UNCHANGED <<file, current_state, readers, blocks>>,
               \/ UNCHANGED <<queue, phase>>
               \/ TakeClosure
               \/ /\ phase' = [p \in P |-> IF phase[p] = "queued" THEN "dropped" ELSE phase[p]]
                  /\ queue' = <<>>,
               pc' \in Reading => pc \in Reading /\ Parsed' = Parsed
        PROVE  ThreadInv' /\ BlockInv'
    <2>1. UNCHANGED file /\ UNCHANGED readers /\ UNCHANGED blocks /\ UNCHANGED current_state
      BY <1>1, Zenon
    <2>2. ThreadInv' /\ Kept
      BY <1>1, <2>1, WorkerKeeps
    <2>3. CASE pc' \in Reading
      BY <1>1, <2>1, <2>2, <2>3, BlockKept
    <2>4. CASE pc' \notin Reading
      BY <2>2, <2>4, Zenon DEF BlockInv
    <2> QED  BY <2>2, <2>3, <2>4
  <1>2. ASSUME NEW n \in SliceSizes, NEW last \in BOOLEAN, Feed(n, last) PROVE ThreadInv' /\ BlockInv'
    <2>1. UNCHANGED <<file, current_state, readers, blocks>> /\ UNCHANGED <<queue, phase>> /\ pc = "idle"
      BY <1>2, Zenon DEF Feed, threads, channels
    <2>2. pc \in Reading /\ Parsed' = Parsed
      BY <1>2, <2>1, FeedKeepsPlace DEF Reading
    <2> QED  BY <1>1, <2>1, <2>2
  <1>3. CASE ParseStarved
    <2>1. /\ UNCHANGED <<file, current_state, readers, blocks>> /\ UNCHANGED <<queue, phase>>
          /\ pc = "parse" /\ TakeNone(Wanted, RETENTION) /\ UNCHANGED <<file, fed>>
      BY <1>3, Zenon DEF ParseStarved, threads, channels, parser
    <2>2. pc \in Reading
      BY <2>1 DEF Reading
    <2>3. Parsed' = Parsed
      BY <2>1, <2>2, TakeNoneInPlace
    <2> QED  BY <1>1, <2>1, <2>2, <2>3
  <1>4. CASE VerifySize
    <2>1. UNCHANGED <<file, current_state, readers, blocks>> /\ UNCHANGED <<queue, phase>>
      BY <1>4, Zenon DEF VerifySize, parser, threads, channels
    <2>2. pc' \notin Reading
      BY <1>4, Zenon DEF VerifySize, Fail, Reading
    <2> QED  BY <1>1, <2>1, <2>2
  <1>5. CASE \/ TryGetMessage \/ TryGetDisconnected \/ PollEmpty \/ WaitMessage
             \/ WaitDisconnected \/ AllRetrieved \/ RunInline \/ InlineReturned \/ DropInline
             \/ PoolWorkerStep \/ Terminated \/ UNCHANGED vars
    <2>1. UNCHANGED <<parser, partial, readers, blocks>>
      BY <1>5, Zenon DEF TryGetMessage, TakeFrontMessage, TryGetDisconnected, PollEmpty,
         WaitMessage, WaitDisconnected, AllRetrieved, RunInline, InlineReturned, DropInline,
         PoolWorkerStep, Terminated, vars, channels
    <2>2. UNCHANGED <<file, current_state, readers, blocks>> /\ Parsed' = Parsed
      BY <2>1, Zenon DEF parser, partial, Parsed
    <2>3. \/ UNCHANGED <<queue, phase>>
          \/ TakeClosure
          \/ /\ phase' = [p \in P |-> IF phase[p] = "queued" THEN "dropped" ELSE phase[p]]
             /\ queue' = <<>>
      BY <1>5, Zenon DEF TryGetMessage, TakeFrontMessage, TryGetDisconnected, PollEmpty,
         WaitMessage, WaitDisconnected, AllRetrieved, RunInline, InlineReturned, DropInline,
         PoolWorkerStep, Terminated, vars, threads, WorkerStarts, WorkerLost, WorkerExits, QueueDropped
    <2>4. pc' = pc \/ pc' \notin Reading \/ pc \in Reading
      BY <1>5 DEF TryGetMessage, TakeFrontMessage, TryGetDisconnected, PollEmpty,
         WaitMessage, WaitDisconnected, AllRetrieved, RunInline, InlineReturned, DropInline, Fail,
         PoolWorkerStep, Terminated, vars, Reading
    <2>5. pc' \in Reading => pc \in Reading
      BY <2>4
    <2> QED  BY <1>1, <2>2, <2>3, <2>5
  <1>6. ASSUME NEW p \in P, ClosureStep(p) PROVE ThreadInv' /\ BlockInv'
    <2>1. PICK o : ToCome(p, o)
      BY Zenon DEF BlockInv
    <2>2. /\ ThreadInv'
          /\ \A q \in P : \A t : ToCome(q, t) => ToCome(q, t)'
          /\ \A q \in P : q # p => phase'[q] = phase[q]
          /\ BlockReceiverAlive(p)
          /\ UNCHANGED <<file, fed, current_state, partial, pc>>
      BY <1>6, <2>1, ClosureKeeps
    <2>3. \A q \in P : BlockReceiverAlive(q)' => BlockReceiverAlive(q)
      BY <2>2, Zenon DEF BlockReceiverAlive
    <2>4. Parsed' = Parsed /\ UNCHANGED <<file, current_state>> /\ (pc' \in Reading => pc \in Reading)
      BY <2>2, Zenon DEF partial, Parsed
    <2> QED  BY <2>2, <2>3, <2>4, BlockKept
  <1>7. CASE ParseMarker \/ ParseLength \/ ParseBlock \/ SendEof
    BY <1>7, ParseMarkerInStep, ParseLengthInStep, ParseBlockInStep, SendEofKeeps, Zenon
  <1> QED
    BY <1>2, <1>3, <1>4, <1>5, <1>6, <1>7, Zenon DEF Next, CallerStep

\* The parser stops to look for results only when it has used what it may.
LEMMA StarvedStep ==
    ASSUME ParserInv, StarvedInv, [Next]_vars
    PROVE  StarvedInv'
  <1>1. ASSUME UNCHANGED <<file, fed, complete, current_state>>, UNCHANGED <<extra_buffer, slice>>,
               pc' \in {"poll", "verify"} => pc \in {"poll", "verify"},
               pc' # "idle" => pc # "idle",
               pc' = "verify" => pc = "verify" \/ complete
        PROVE  StarvedInv'
    <2>1. Wanted' = Wanted
      BY <1>1 DEF Wanted
    <2>2. Available(Wanted, RETENTION)' = Available(Wanted, RETENTION)
      BY <1>1, <2>1, Zenon DEF Available
    <2> QED  BY <1>1, <2>2, Zenon DEF StarvedInv
  <1>2. ASSUME NEW n \in SliceSizes, NEW last \in BOOLEAN, Feed(n, last) PROVE StarvedInv'
    <2>1. /\ pc' = "parse" /\ complete' = last /\ file' = file
          /\ last => fed' = Len(file.bytes)
      BY <1>2, Zenon DEF Feed
    <2>2. pc' \notin {"poll", "verify"} /\ pc' # "verify"
      BY <2>1
    <2> QED  BY <2>1, <2>2, Zenon DEF StarvedInv
  <1>3. CASE ParseStarved
    <2>1. /\ pc = "parse" /\ pc' = "poll" /\ TakeNone(Wanted, RETENTION) /\ UNCHANGED <<file, fed>>
          /\ UNCHANGED <<complete, current_state>>
      BY <1>3, Zenon DEF ParseStarved, parser
    <2>2. pc \in Reading /\ pc # "idle" /\ pc' # "verify"
      BY <2>1 DEF Reading
    <2>3. Len(extra_buffer') = Len(extra_buffer) + Len(slice) /\ Len(slice') = 0
      BY <2>1, <2>2, TakeNoneInPlace
    <2>4. Wanted' = Wanted
      BY <2>1 DEF Wanted
    <2>5. Len(extra_buffer) + Len(slice) \in Nat
      BY LenProperties DEF ParserInv, ParserType
    <2>6. Len(extra_buffer') + Len(slice') = Len(extra_buffer) + Len(slice)
      BY <2>3, <2>5
    <2>7. ~Available(Wanted, RETENTION)'
      BY <2>1, <2>4, <2>6, Zenon DEF TakeNone, Available
    <2> QED  BY <2>1, <2>2, <2>7, Zenon DEF StarvedInv
  <1>4. CASE ParseMarker \/ ParseLength \/ ParseBlock \/ VerifySize
    <2>1. /\ pc' \notin {"poll", "verify"} /\ pc' # "verify" /\ pc # "idle"
          /\ UNCHANGED <<file, fed, complete>>
      BY <1>4 DEF ParseMarker, ParseLength, ParseBlock, VerifySize, Fail, parser
    <2> QED  BY <2>1, Zenon DEF StarvedInv
  <1>5. CASE \/ TryGetMessage \/ TryGetDisconnected \/ PollEmpty \/ WaitMessage \/ SendEof
             \/ WaitDisconnected \/ AllRetrieved \/ RunInline \/ InlineReturned \/ DropInline
             \/ PoolWorkerStep \/ Terminated \/ UNCHANGED vars
    <2>1. UNCHANGED <<parser, partial>>
      BY <1>5, Zenon DEF TryGetMessage, TakeFrontMessage, TryGetDisconnected, PollEmpty, SendEof,
         WaitMessage, WaitDisconnected, AllRetrieved, RunInline, InlineReturned, DropInline,
         PoolWorkerStep, Terminated, vars
    <2>2. UNCHANGED <<file, fed, complete, current_state>> /\ UNCHANGED <<extra_buffer, slice>>
      BY <2>1, Zenon DEF parser, partial
    <2>3. \/ pc' = pc \/ pc' = "idle"
          \/ pc' \notin {"poll", "verify"} /\ pc # "idle"
          \/ pc = "poll" /\ pc' = "verify" /\ complete
      BY <1>5 DEF TryGetMessage, TakeFrontMessage, TryGetDisconnected, PollEmpty, SendEof,
         WaitMessage, WaitDisconnected, AllRetrieved, RunInline, InlineReturned, DropInline, Fail,
         PoolWorkerStep, Terminated, vars
    <2> QED  BY <1>1, <2>2, <2>3
  <1>6. ASSUME NEW p \in P, ClosureStep(p) PROVE StarvedInv'
    <2>1. UNCHANGED others
      BY <1>6, Zenon DEF ClosureStep, ReadBuffer, ReadSlow, SendPartial, SendLast, SendComplete, SendError
    <2>2. /\ UNCHANGED <<file, fed, complete, current_state>> /\ UNCHANGED <<extra_buffer, slice>>
          /\ pc' = pc
      BY <2>1, Zenon DEF others, parser, partial
    <2> QED  BY <1>1, <2>2
  <1> QED
    BY <1>2, <1>3, <1>4, <1>5, <1>6, Zenon DEF Next, CallerStep

-----------------------------------------------------------------------------
(* What the invariants say of the partitions                               *)

\* In pay, g ends at n and the unread u follows; x is so much of pay, and t behind it.
Splits(pay, x, n, g, u, t) ==
    /\ g = SubSeq(pay, n - Len(g) + 1, n)
    /\ IsPrefix(u, SubSeq(pay, n + 1, Len(pay)))
    /\ n + Len(u) <= Len(x)
    /\ t = <<>> => n + Len(u) = Len(x)

\* Where the parts of a partition's data lie in what it is given, whatever follows.
LEMMA ChainSplits ==
    ASSUME NEW S, NEW s \in Seq(S), NEW g \in Seq(S), NEW c \in Seq(S), NEW h \in Seq(S),
           NEW t \in Seq(S), NEW pay \in Seq(S), IsPrefix(Chain(s, g, c, h, t), pay)
    PROVE  Splits(pay, Chain(s, g, c, h, t), Len(s) + Len(g), g, c \o h, t)
  <1> DEFINE x == Chain(s, g, c, h, t)
             n == Len(s) + Len(g)
             u == c \o h
             k == u \o t
             rest == SubSeq(pay, n + 1, Len(pay))
             mid == SubSeq(pay, Len(s) + 1, n)
  <1>1. u \in Seq(S) /\ k \in Seq(S) /\ Len(k) = Len(u) + Len(t) /\ \A i \in 1..Len(u) : k[i] = u[i]
    <2>1. u \in Seq(S)
      BY ConcatProperties
    <2> HIDE DEF u
    <2>2. Len(u) \in Nat /\ Len(t) \in Nat
      BY <2>1, LenProperties
    <2>3. k \in Seq(S) /\ Len(k) = Len(u) + Len(t) /\ \A i \in 1..(Len(u) + Len(t)) : i <= Len(u) => k[i] = u[i]
      BY <2>1, ConcatProperties
    <2> QED  BY <2>1, <2>2, <2>3
  <1>2. x = s \o (g \o k)
    <2>1. Associates(c, h, t)
      BY Associate, Zenon
    <2> QED  BY <2>1, Zenon DEF Associates, Chain
  <1> HIDE DEF u, k, x
  <1>3. /\ x \in Seq(S) /\ Len(x) = Len(s) + Len(g) + Len(k)
        /\ \A i \in 1..Len(g) : x[Len(s) + i] = g[i]
        /\ \A i \in 1..Len(k) : x[Len(s) + Len(g) + i] = k[i]
    <2>1. s \o (g \o k) \in Seq(S) /\ HasParts(s \o (g \o k), s, g, k)
      BY <1>1, PartsOfConcat, Zenon
    <2> QED  BY <1>2, <2>1, Zenon DEF HasParts
  <1>4. Len(x) <= Len(pay) /\ \A i \in 1..Len(x) : x[i] = pay[i]
    <2>1. IsPrefix(x, pay)
      BY Zenon DEF x
    <2> QED  BY <1>3, <2>1, EntriesOfPrefix
  <1>5. /\ Len(s) \in Nat /\ Len(g) \in Nat /\ Len(u) \in Nat /\ Len(t) \in Nat /\ Len(k) \in Nat
        /\ Len(pay) \in Nat /\ Len(x) \in Nat
    BY <1>1, <1>3, LenProperties
  <1>6. n \in Nat /\ n + Len(u) + Len(t) = Len(x) /\ n + Len(u) <= Len(x) /\ n <= Len(pay) /\ n - Len(g) = Len(s)
    BY <1>1, <1>3, <1>4, <1>5
  <1> HIDE DEF n
  <1>7. g = mid
    <2>1. mid \in Seq(S) /\ Len(mid) = Len(g) /\ \A i \in 1..Len(g) : mid[i] = pay[Len(s) + i]
      <3>1. Len(s) \in Nat /\ n \in Len(s)..Len(pay) /\ n - Len(s) = Len(g)
        BY <1>5, <1>6
      <3> QED  BY <3>1, PartEntries
    <2> HIDE DEF mid
    <2>2. ASSUME NEW i \in 1..Len(g) PROVE mid[i] = g[i]
      <3>1. Len(s) + i \in 1..Len(x)
        BY <1>5, <1>6
      <3> QED  BY <1>3, <1>4, <2>1, <3>1
    <2>3. Len(mid) = Len(g) /\ \A i \in 1..Len(mid) : mid[i] = g[i]
      BY <2>1, <2>2, Zenon
    <2> QED  BY <2>1, <2>3, SeqEqual
  <1>8. IsPrefix(u, rest)
    <2>1. rest \in Seq(S) /\ Len(rest) = Len(pay) - n /\ \A i \in 1..(Len(pay) - n) : rest[i] = pay[n + i]
      <3>1. Len(pay) \in n..Len(pay)
        BY <1>5, <1>6
      <3> QED  BY <1>6, <3>1, PartEntries
    <2> HIDE DEF rest
    <2>2. Len(u) <= Len(rest)
      BY <1>4, <1>5, <1>6, <2>1
    <2>3. ASSUME NEW i \in 1..Len(u) PROVE u[i] = rest[i]
      <3>1. n + i \in 1..Len(x) /\ i \in 1..(Len(pay) - n) /\ i \in 1..Len(k)
        BY <1>1, <1>4, <1>5, <1>6
      <3>2. x[n + i] = k[i]
        BY <1>3, <3>1, Zenon DEF n
      <3>3. x[n + i] = pay[n + i] /\ rest[i] = pay[n + i] /\ k[i] = u[i]
        BY <1>1, <1>4, <2>1, <3>1
      <3> QED  BY <3>2, <3>3, Zenon
    <2> QED  BY <1>1, <2>1, <2>2, <2>3, PrefixFromEntries
  <1>9. t = <<>> => n + Len(u) = Len(x)
    <2>1. t = <<>> => Len(t) = 0
      BY EmptySeq
    <2> QED  BY <1>5, <1>6, <2>1
  <1> QED  BY <1>6, <1>7, <1>8, <1>9, Zenon DEF u, mid, rest, x, n, Splits

\* The reference has nothing more at the end of the body.
LEMMA NothingAtEnd ==
    ASSUME ParserType, NEW p \in P, NEW b, b = Len(Body) + 1
    PROVE  From[b][p] = <<>>
  <1>1. Len(Body) \in Nat /\ b \in 1..(Len(Body) + 1) /\ b > Len(Body)
    BY BodyFacts
  <1>2. From[b] = GoTurn(Body, N, From, b)
    BY <1>1, BodyFacts
  <1>3. GoStops(Body, b)
    BY <1>1, Zenon DEF GoStops
  <1>4. GoTurn(Body, N, From, b) = [q \in 0 .. N - 1 |-> <<>>]
    BY <1>3, GoTurnCases, Zenon
  <1> QED  BY <1>2, <1>4, Zenon DEF P

\* A block that the parser knows is the same in the file and in the body, if the body
\* holds it as far as its data.
LEMMA SameBlock ==
    ASSUME ParserType, NEW b \in Nat, b >= 1, b <= Len(Body),
           DataStart(file.bytes, b) <= Len(Body) + 1
    PROVE  DataStart(Body, b) = DataStart(file.bytes, b) /\ DataLen(Body, b) = DataLen(file.bytes, b)
  <1> DEFINE bytes == file.bytes
             L == Len(Body)
  <1>1. L \in Nat /\ \A i \in 1..L : Body[i] = bytes[i]
    BY BodyFacts
  <1>2. Body[b] = bytes[b]
    BY <1>1
  <1> HIDE DEF L, bytes
  <1>3. CASE MarkerNeedsLength(bytes[b])
    <2>1. DataStart(bytes, b) = b + 3
      BY <1>3, Zenon DEF DataStart
    <2>2. b + 3 <= L + 1
      BY <2>1, Zenon DEF L, bytes
    <2>3. b + 1 \in 1..L /\ b + 2 \in 1..L
      BY <1>1, <2>2
    <2>4. Body[b + 1] = bytes[b + 1] /\ Body[b + 2] = bytes[b + 2]
      BY <1>1, <2>3, Zenon
    <2> QED  BY <1>2, <1>3, <2>4, Zenon DEF DataStart, DataLen, bytes
  <1>4. CASE ~MarkerNeedsLength(bytes[b])
    BY <1>2, <1>4, Zenon DEF DataStart, DataLen, bytes
  <1> QED  BY <1>3, <1>4

\* In a valid file the parser that has everything and can go no further is at the end
\* of the body, between two blocks.
LEMMA ValidEnds ==
    ASSUME ParserInv, StarvedInv, pc = "verify", file.valid, NEW b \in Nat, AtBlock(b)
    PROVE  b = Len(Body) + 1
  <1> DEFINE bytes == file.bytes
             M == Len(bytes)
             L == Len(Body)
             q == Parsed
             left == Len(extra_buffer) + Len(slice)
             len == current_state.len
  <1> USE DEF ParserInv
  <1>1. /\ L \in Nat /\ M \in Nat /\ L = IF M < 4 THEN 0 ELSE M - 4
        /\ \A i \in 1..L : Body[i] = bytes[i]
    BY BodyFacts
  <1>2. M >= 4
    BY FilesAssumption DEF ParserType, Footer
  <1>3. L = M - 4 /\ L + 4 = M
    <2> HIDE DEF M, L
    <2> QED  BY <1>1, <1>2
  <1>4. fed = M /\ ~(left >= Wanted + RETENTION)
    <2>1. pc \in {"poll", "verify"} /\ pc # "idle"
      OBVIOUS
    <2> QED  BY <2>1, Zenon DEF StarvedInv, Available
  <1>5. q \in Nat /\ Least(fed, RETENTION) <= left /\ left \in Nat /\ q = fed - left
    <2>1. pc \in Reading
      BY DEF Reading
    <2>2. extra_buffer \in Seq(Byte) /\ slice \in Seq(Byte) /\ fed \in Nat
      BY DEF ParserType
    <2>3. Len(extra_buffer) \in Nat /\ Len(slice) \in Nat
      BY <2>2, LenProperties
    <2>4. q \in Nat /\ Least(fed, RETENTION) <= left
      BY <2>1, Zenon DEF PlaceInv
    <2> QED  BY <2>2, <2>3, <2>4 DEF Parsed
  <1>6. len \in Nat
    BY DEF ParserType
  <1>7. PICK starts \in SUBSET (1 .. L + 1) : WholeBlocks(Body, starts)
    <2>1. file \in Files
      BY DEF ParserType
    <2> QED  BY <2>1, FilesAssumption, Zenon DEF Body
  <1>8. b \in starts /\ b >= 1
    <2>1. PastWhole(Body, starts)
      BY <1>7, Zenon DEF WholeBlocks, PastWhole
    <2> QED  BY <1>7, <2>1, Zenon DEF AtBlock, Reaches
  <1>9. b \in 1..(L + 1)
    BY <1>7, <1>8
  <1>10. b <= L => /\ DataStart(Body, b) <= L
                   /\ DataStart(Body, b) + DataLen(Body, b) \in 1..(L + 1)
    <2> SUFFICES ASSUME b <= L PROVE /\ DataStart(Body, b) <= L
                                     /\ DataStart(Body, b) + DataLen(Body, b) \in starts
      BY <1>7
    <2> QED  BY <1>7, <1>8, Zenon DEF WholeBlocks
  <1> HIDE DEF M, L, left, q, len
  <1>11. q <= L
    BY <1>1, <1>2, <1>3, <1>4, <1>5 DEF Least, RETENTION
  <1>12. CASE current_state.at = "StartBlock"
    <2>1. b = q + 1
      BY <1>12, Zenon DEF AtBlock, q
    <2>2. Wanted = 1
      BY <1>12 DEF Wanted
    <2>3. q >= L
      BY <1>1, <1>3, <1>4, <1>5, <2>2 DEF RETENTION
    <2>4. b = L + 1
      BY <1>1, <1>5, <1>11, <2>1, <2>3
    <2> QED  BY <2>4 DEF L
  <1>13. CASE current_state.at = "U16Length"
    <2>1. b = q /\ MarkerNeedsLength(bytes[b])
      <3>1. current_state.at # "StartBlock" /\ current_state.at # "Block"
        BY <1>13
      <3> QED  BY <3>1, Zenon DEF AtBlock, q
    <2>2. Wanted = 2
      BY <1>13 DEF Wanted
    <2>3. q + 1 >= L
      BY <1>1, <1>3, <1>4, <1>5, <2>2 DEF RETENTION
    <2>4. b <= L /\ b \in 1..L
      BY <1>1, <1>8, <1>11, <2>1
    <2>5. Body[b] = bytes[b]
      BY <1>1, <2>4, Zenon DEF L
    <2>6. DataStart(Body, b) = b + 3
      BY <2>1, <2>5, Zenon DEF DataStart
    <2>7. b + 3 <= L
      BY <1>10, <2>4, <2>6, Zenon
    <2> QED  BY <1>1, <1>5, <2>1, <2>3, <2>7
  <1>14. CASE current_state.at = "Block"
    <2>1. b <= q /\ q + 1 = DataStart(bytes, b) /\ len = DataLen(bytes, b)
      <3>1. current_state.at # "StartBlock" /\ current_state.at # "U16Length"
        BY <1>14
      <3> QED  BY <3>1, Zenon DEF AtBlock, q, len
    <2>2. Wanted = len
      BY <1>14 DEF Wanted, len
    <2>3. q + len > L
      BY <1>1, <1>3, <1>4, <1>5, <1>6, <2>2 DEF RETENTION
    <2>4. b <= L /\ q + 1 <= L + 1
      BY <1>1, <1>5, <1>11, <2>1
    <2>5. DataStart(Body, b) = q + 1 /\ DataLen(Body, b) = len
      <3>1. DataStart(file.bytes, b) <= Len(Body) + 1 /\ b <= Len(Body)
        BY <2>1, <2>4, Zenon DEF L
      <3> QED  BY <1>8, <2>1, <3>1, SameBlock
    <2>6. (q + 1) + len \in 1..(L + 1)
      BY <1>10, <2>4, <2>5, Zenon
    <2> QED  BY <1>1, <1>5, <1>6, <2>3, <2>6
  <1> QED  BY <1>12, <1>13, <1>14 DEF ParserType

\* At first everything is still to come.
LEMMA BlockInit ==
    ASSUME Init
    PROVE  ThreadInv /\ BlockInv /\ StarvedInv
  <1>1. /\ file \in Files /\ plan \in Plans /\ fed = 0 /\ complete = FALSE
        /\ current_state = StartBlock /\ extra_buffer = <<>> /\ slice = <<>> /\ pc = "idle"
        /\ queue = AllPartitions /\ phase = [p \in P |-> "queued"]
        /\ blocks = [p \in P |-> <<>>] /\ current_buffer = [p \in P |-> <<>>]
        /\ end_of_file = [p \in P |-> FALSE] /\ got = [p \in P |-> <<>>] /\ count = [p \in P |-> 0]
    BY Zenon DEF Init, InitPartial, InitSpawned, InitInline
  <1>2. N \in Nat
    BY ReadAssumption
  <1>3. queue \in Seq(P) /\ Len(queue) = N /\ \A i \in 1..N : queue[i] = i - 1 /\ queue[i] \in P
    <2>1. AllPartitions \in [1..N -> P]
      BY <1>2 DEF AllPartitions, P
    <2>2. AllPartitions \in Seq(P) /\ Len(AllPartitions) = N
      BY <1>2, <2>1
    <2>3. \A i \in 1..N : AllPartitions[i] = i - 1 /\ AllPartitions[i] \in P
      BY <1>2, <2>1 DEF AllPartitions
    <2> QED  BY <1>1, <2>2, <2>3, Zenon
  <1>4. ThreadType
    <2>1. plan \in [P -> [want : Nat, ending : {"ok", "err", "panic"}]]
      BY <1>1, ReadAssumption
    <2>2. <<>> \in Seq(BlockMessages) /\ <<>> \in Seq(Byte)
      BY EmptySeq
    <2>3. /\ phase \in [P -> Phases] /\ end_of_file \in [P -> BOOLEAN] /\ count \in [P -> Nat]
          /\ blocks \in [P -> Seq(BlockMessages)] /\ current_buffer \in [P -> Seq(Byte)]
          /\ got \in [P -> Seq(Byte)]
      BY <1>1, <2>2 DEF Phases
    <2> QED  BY <1>3, <2>1, <2>3, Zenon DEF ThreadType
  <1>5. QueueInv
    <2>1. \A i, j \in 1..N : i - 1 = j - 1 => i = j
      BY <1>2
    <2>2. \A i, j \in 1..Len(queue) : queue[i] = queue[j] => i = j
      BY <1>3, <2>1, Zenon
    <2>3. \A i \in 1..Len(queue) : phase[queue[i]] = "queued"
      BY <1>1, <1>3, Zenon
    <2> QED  BY <2>2, <2>3 DEF QueueInv
  <1>6. ParserType
    BY ParserInit DEF ParserInv
  <1>7. 1 \in 1..(Len(Body) + 1) /\ From[1] \in [P -> Seq(Byte)]
    <2>1. 1 \in 1..(Len(Body) + 1)
      BY <1>6, BodyFacts
    <2> QED  BY <1>6, <2>1, BodyFacts
  <1>8. ASSUME NEW p \in P PROVE ToCome(p, From[1][p])
    <2> DEFINE t == From[1][p]
    <2>1. t \in Seq(Byte) /\ <<>> \in Seq(Byte) /\ Len(<<>>) = 0
      BY <1>7, EmptySeq
    <2>2. got[p] = <<>> /\ current_buffer[p] = <<>> /\ blocks[p] = <<>> /\ count[p] = 0
      BY <1>1
    <2>3. DataOf(blocks[p]) = <<>>
      <3>1. \A m \in BlockMessages : m.data \in Seq(Byte)
        BY BlockMessageData
      <3>2. PICK c : c = blocks[p]
        OBVIOUS
      <3>3. c \in Seq(BlockMessages) /\ c = <<>>
        BY <2>2, <3>2, EmptySeq
      <3>4. DataOf(c) = <<>>
        BY <3>1, <3>3, DataOfType
      <3> QED  BY <3>2, <3>4, Zenon
    <2> HIDE DEF t
    <2>4. <<>> \o t = t
      BY <2>1, ConcatEmptySeq
    <2>5. Chain(<<>>, <<>>, <<>>, <<>>, t) = t
      BY <2>4, Zenon DEF Chain
    <2>6. 0 + 0 = 0
      OBVIOUS
    <2>7. Holds(p, <<>>, t)
      BY <2>1, <2>2, <2>3, <2>5, <2>6, Zenon DEF Holds, t
    <2> QED  BY <2>1, <2>7, Zenon DEF ToCome, t
  <1>9. AtBlock(1)
    <2>1. Parsed = 0 /\ 1 >= 1 /\ 1 = 0 + 1
      <3>1. fed = 0 /\ Len(extra_buffer) = 0 /\ Len(slice) = 0
        BY <1>1, EmptySeq
      <3> QED  BY <3>1 DEF Parsed
    <2>2. current_state.at = "StartBlock"
      BY <1>1 DEF StartBlock
    <2> QED  BY <2>1, <2>2, Zenon DEF AtBlock, Reaches, PastWhole
  <1>10. BlockInv
    <2>1. 1 \in Nat
      OBVIOUS
    <2> QED  BY <1>8, <1>9, <2>1, Zenon DEF BlockInv
  <1>11. StarvedInv
    BY <1>1 DEF StarvedInv
  <1> QED  BY <1>4, <1>5, <1>10, <1>11 DEF ThreadInv

\* The invariants say what BlocksIntact says.
LEMMA BlocksAreIntact ==
    ASSUME ParserInv, ThreadInv, BlockInv, StarvedInv
    PROVE  BlocksIntact
  <1> DEFINE unread(p) == current_buffer[p] \o DataOf(blocks[p])
             Claim(p) ==
                 /\ got[p] = SubSeq(file.payload[p], count[p] - Len(got[p]) + 1, count[p])
                 /\ IsPrefix(unread(p), SubSeq(file.payload[p], count[p] + 1, Len(file.payload[p])))
                 /\ (file.valid /\ pc = "verify" /\ BlockReceiverAlive(p)) =>
                       count[p] + Len(unread(p)) = Len(file.payload[p])
                 /\ fed = Len(file.bytes) =>
                       /\ IsPrefix(GoDemultiplex(WithoutFooter(file.bytes), N)[p], file.payload[p])
                       /\ count[p] + Len(unread(p)) <= Len(GoDemultiplex(WithoutFooter(file.bytes), N)[p])
  <1>1. ASSUME NEW p \in P PROVE Claim(p)
    <2>1. PICK pay : pay = file.payload[p]
      OBVIOUS
    <2>2. PICK x : x = From[1][p]
      OBVIOUS
    <2>3. /\ pay \in Seq(Byte) /\ IsPrefix(x, pay)
          /\ x = GoDemultiplex(WithoutFooter(file.bytes), N)[p] /\ (file.valid => pay = x)
      <3>1. file \in Files
        BY DEF ParserInv, ParserType
      <3>2. pay \in Seq(Byte)
        BY <2>1, <3>1, ReadAssumption
      <3>3. x = GoDemultiplex(WithoutFooter(file.bytes), N)[p]
        BY <2>2, Zenon DEF From, Body, GoDemultiplex
      <3> QED  BY <2>1, <3>1, <3>2, <3>3, FilesAssumption, Zenon
    <2>4. got[p] \in Seq(Byte) /\ current_buffer[p] \in Seq(Byte) /\ DataOf(blocks[p]) \in Seq(Byte)
      BY PartTypes DEF ThreadInv
    <2>5. ASSUME NEW t, ToCome(p, t)
          PROVE  /\ got[p] = SubSeq(pay, count[p] - Len(got[p]) + 1, count[p])
                 /\ IsPrefix(unread(p), SubSeq(pay, count[p] + 1, Len(pay)))
                 /\ count[p] + Len(unread(p)) <= Len(x)
                 /\ t = <<>> => count[p] + Len(unread(p)) = Len(x)
      <3>1. PICK s \in Seq(Byte) : Holds(p, s, t)
        BY <2>5, Zenon DEF ToCome
      <3>2. /\ t \in Seq(Byte) /\ Len(s) + Len(got[p]) = count[p]
            /\ x = Chain(s, got[p], current_buffer[p], DataOf(blocks[p]), t)
        BY <2>2, <3>1, Zenon DEF Holds
      <3>3. PICK g : g = got[p]
        OBVIOUS
      <3>4. PICK c : c = current_buffer[p]
        OBVIOUS
      <3>5. PICK h : h = DataOf(blocks[p])
        OBVIOUS
      <3>6. PICK n : n = count[p]
        OBVIOUS
      <3>7. /\ g \in Seq(Byte) /\ c \in Seq(Byte) /\ h \in Seq(Byte) /\ n = Len(s) + Len(g)
            /\ x = Chain(s, g, c, h, t)
        BY <2>4, <3>2, <3>3, <3>4, <3>5, <3>6, Zenon
      <3>8. /\ g = SubSeq(pay, n - Len(g) + 1, n)
            /\ IsPrefix(c \o h, SubSeq(pay, n + 1, Len(pay)))
            /\ n + Len(c \o h) <= Len(x)
            /\ t = <<>> => n + Len(c \o h) = Len(x)
        <4>1. IsPrefix(Chain(s, g, c, h, t), pay)
          BY <2>3, <3>7, Zenon
        <4>2. Splits(pay, Chain(s, g, c, h, t), Len(s) + Len(g), g, c \o h, t)
          BY <2>3, <3>2, <3>7, <4>1, ChainSplits, Zenon
        <4> QED  BY <3>7, <4>2, Zenon DEF Splits
      <3> QED  BY <3>3, <3>4, <3>5, <3>6, <3>8, Zenon
    <2>6. PICK u : ToCome(p, u)
      BY Zenon DEF BlockInv
    <2>7. ASSUME file.valid, pc = "verify", BlockReceiverAlive(p)
          PROVE  count[p] + Len(unread(p)) = Len(pay)
      <3>1. pc \in Reading
        BY <2>7 DEF Reading
      <3>2. PICK b \in Nat : AtBlock(b) /\ \A q \in P : BlockReceiverAlive(q) => ToCome(q, From[b][q])
        BY <3>1, Zenon DEF BlockInv
      <3>3. b = Len(Body) + 1
        BY <2>7, <3>2, ValidEnds
      <3>4. From[b][p] = <<>>
        BY <3>3, NothingAtEnd DEF ParserInv
      <3>5. ToCome(p, <<>>)
        BY <2>7, <3>2, <3>4, Zenon
      <3> QED  BY <2>3, <2>5, <2>7, <3>5, Zenon
    <2> QED  BY <2>1, <2>3, <2>5, <2>6, <2>7, Zenon
  <1> QED  BY <1>1, Zenon DEF BlocksIntact, DataOf

\* Every partition gets exactly the blocks that are its own, byte for byte and in
\* order, however the file is cut into slices and however the processors are
\* scheduled (BlocksIntact): multiplexer.rs, process_buffer and MultiplexReader, and
\* never more than newDemultiplexer of the Go port gives it.
THEOREM ReadBlocksIntact == Spec => []BlocksIntact
  <1> DEFINE Inv == ParserInv /\ ThreadInv /\ BlockInv /\ StarvedInv
  <1>1. Init => Inv
    BY ParserInit, BlockInit
  <1>2. Inv /\ [Next]_vars => Inv'
    BY ParserStep, BlockStep, StarvedStep
  <1>3. Inv => BlocksIntact
    BY BlocksAreIntact
  <1> QED  BY <1>1, <1>2, <1>3, PTL DEF Spec
=============================================================================
