--------------------------- MODULE ChunkerProofs ---------------------------
(***************************************************************************)
(* The loop of Repository::uploadFile loses no byte of a file and keeps to *)
(* the sizes and the number of blocks, whatever the rolling hash says, for *)
(* files of any length and every choice of the constants; the rolling hash *)
(* is that of its window, whatever was rolled before; and base32encode     *)
(* names the blocks one to one, for ids of any length.                     *)
(***************************************************************************)
EXTENDS Chunker, Base32, WellFoundedInduction, TLAPS

-----------------------------------------------------------------------------
(* Induction *)

\* A set of natural numbers that is not empty has a least element.
LEMMA LeastElement ==
    ASSUME NEW T, T \subseteq Nat, T # {}
    PROVE  \E x \in T : \A y \in T : x <= y
<1> DEFINE R == OpToRel(<, Nat)
<1>1. \E x \in T : \A y \in T : ~ (<<y, x>> \in R)
  BY WFMin, NatLessThanWellFounded
<1>2. R = {ss \in Nat \X Nat : ss[1] < ss[2]}
  BY DEF OpToRel
<1> HIDE DEF R
<1>3. \A x, y \in Nat : y < x => <<y, x>> \in R
  BY <1>2
<1>4. PICK x \in T : \A y \in T : ~ (<<y, x>> \in R)
  BY <1>1
<1>5. \A y \in T : ~(y < x)
  BY <1>3, <1>4, Zenon
<1>6. \A y \in T : x <= y
  BY <1>5
<1> QED
  BY <1>6

-----------------------------------------------------------------------------
(* Joining sequences *)

\* The function that FlattenSeq is defined by: g[i] joins the first i of seqs.
Joins(seqs, n, g) ==
    g = [i \in 1..n |-> IF i = 1 THEN seqs[i] ELSE g[i - 1] \o seqs[i]]

\* the n sequences that g joins, and s
JoinNext(g, n, s) == IF n = 0 THEN s ELSE g[n] \o s

\* What there is to know of such a function.
LEMMA JoinsValues ==
    ASSUME NEW seqs, NEW n \in Nat, NEW g, Joins(seqs, n, g)
    PROVE  /\ DOMAIN g = 1..n
           /\ \A i \in 1..n : g[i] = IF i = 1 THEN seqs[i] ELSE g[i - 1] \o seqs[i]
<1>1. g = [i \in 1..n |-> IF i = 1 THEN seqs[i] ELSE g[i - 1] \o seqs[i]]
  BY DEF Joins
<1>2. DOMAIN g = 1..n
  BY <1>1, Zenon
<1>3. \A i \in 1..n : g[i] = IF i = 1 THEN seqs[i] ELSE g[i - 1] \o seqs[i]
  BY <1>1, Zenon
<1> QED
  BY <1>2, <1>3

\* It joins one more sequence in the same way.
LEMMA JoinsMore ==
    ASSUME NEW seqs, NEW more, NEW n \in Nat, NEW g, Joins(seqs, n, g),
           \A i \in 1..n : more[i] = seqs[i]
    PROVE  \E h : /\ Joins(more, n + 1, h)
                  /\ h[n + 1] = JoinNext(g, n, more[n + 1])
<1> DEFINE last == JoinNext(g, n, more[n + 1])
           h == [i \in 1..(n + 1) |-> IF i = n + 1 THEN last ELSE g[i]]
           e(i) == IF i = 1 THEN more[i] ELSE h[i - 1] \o more[i]
<1>1. n + 1 \in 1..(n + 1) /\ \A i \in 1..n : i \in 1..(n + 1) /\ i # n + 1
  OBVIOUS
<1>2. /\ h[n + 1] = last /\ \A i \in 1..n : h[i] = g[i]
  BY <1>1
<1>3. ASSUME NEW i \in 1..(n + 1)
      PROVE  h[i] = e(i)
  <2> HIDE DEF h
  <2>1. CASE i = n + 1
    <3>1. CASE n = 0
      BY <1>2, <2>1, <3>1 DEF JoinNext
    <3>2. CASE n # 0
      <4>1. i # 1 /\ i - 1 = n /\ n \in 1..n
        BY <2>1, <3>2
      <4> QED
        BY <1>2, <2>1, <3>2, <4>1 DEF JoinNext
    <3> QED
      BY <3>1, <3>2
  <2>2. CASE i # n + 1
    <3>1. i \in 1..n
      BY <2>2
    <3>2. i # 1 => i - 1 \in 1..n
      BY <3>1
    <3>3. g[i] = IF i = 1 THEN seqs[i] ELSE g[i - 1] \o seqs[i]
      BY <3>1, JoinsValues
    <3> QED
      BY <1>2, <3>1, <3>2, <3>3
  <2> QED
    BY <2>1, <2>2
<1>4. h = [i \in 1..(n + 1) |-> h[i]]
  OBVIOUS
<1> HIDE DEF h, last
<1>5. h = [i \in 1..(n + 1) |-> e(i)]
  BY <1>3, <1>4
<1>6. Joins(more, n + 1, h)
  BY <1>5 DEF Joins
<1> QED
  BY <1>2, <1>6 DEF last

\* There is one for every list.
LEMMA JoinsExists ==
    ASSUME NEW seqs, NEW n \in Nat
    PROVE  \E g : Joins(seqs, n, g)
<1> DEFINE T == {m \in Nat : ~\E g : Joins(seqs, m, g)}
<1> SUFFICES ASSUME T # {}
             PROVE  FALSE
  OBVIOUS
<1>1. PICK m \in T : \A k \in T : m <= k
  BY LeastElement
<1>2. m # 0
  <2>1. Joins(seqs, 0, [i \in 1..0 |-> seqs[i]])
    BY DEF Joins
  <2> QED
    BY <2>1
<1>3. m - 1 \in Nat /\ m - 1 \notin T /\ m = (m - 1) + 1
  BY <1>1, <1>2
<1>4. PICK g : Joins(seqs, m - 1, g)
  BY <1>3
<1>5. \E h : Joins(seqs, (m - 1) + 1, h)
  BY <1>3, <1>4, JoinsMore
<1> QED
  BY <1>3, <1>5

\* There is only one.
LEMMA JoinsUnique ==
    ASSUME NEW seqs, NEW n \in Nat, NEW g, NEW h, Joins(seqs, n, g), Joins(seqs, n, h)
    PROVE  \A i \in 1..n : g[i] = h[i]
<1> DEFINE T == {i \in 1..n : g[i] # h[i]}
<1> SUFFICES ASSUME T # {}
             PROVE  FALSE
  OBVIOUS
<1>1. PICK m \in T : \A k \in T : m <= k
  <2>1. T \subseteq Nat
    OBVIOUS
  <2> QED
    BY <2>1, LeastElement
<1>2. m \in 1..n /\ g[m] # h[m]
  OBVIOUS
<1>3. m # 1 => m - 1 \in 1..n /\ m - 1 \notin T
  BY <1>1, <1>2
<1>4. m # 1 => g[m - 1] = h[m - 1]
  BY <1>3
<1>5. /\ g[m] = IF m = 1 THEN seqs[m] ELSE g[m - 1] \o seqs[m]
      /\ h[m] = IF m = 1 THEN seqs[m] ELSE h[m - 1] \o seqs[m]
  BY <1>2, JoinsValues
<1> QED
  BY <1>2, <1>4, <1>5

\* FlattenSeq is the last value of any such function.
LEMMA FlattenJoins ==
    ASSUME NEW S, NEW seqs \in Seq(S), seqs # <<>>, NEW g, Joins(seqs, Len(seqs), g)
    PROVE  FlattenSeq(seqs) = g[Len(seqs)]
<1> DEFINE n == Len(seqs)
           f == CHOOSE h : Joins(seqs, n, h)
<1>1. n \in Nat /\ n # 0 /\ n \in 1..n
  OBVIOUS
<1>2. FlattenSeq(seqs)
         = (CHOOSE h : h = [i \in 1..n |-> IF i = 1 THEN seqs[i] ELSE h[i - 1] \o seqs[i]])[n]
  BY <1>1 DEF FlattenSeq
<1>3. FlattenSeq(seqs) = f[n]
  BY <1>2 DEF Joins
<1>4. Joins(seqs, n, f)
  BY Zenon
<1> HIDE DEF f, n
<1> QED
  BY <1>1, <1>3, <1>4, JoinsUnique DEF n

\* A list with one more sequence is joined by appending it: what uploading a
\* block does to the bytes uploaded.
LEMMA FlattenAppend ==
    ASSUME NEW S, NEW seqs \in Seq(Seq(S)), NEW s \in Seq(S), FlattenSeq(seqs) \in Seq(S)
    PROVE  /\ FlattenSeq(Append(seqs, s)) = FlattenSeq(seqs) \o s
           /\ FlattenSeq(Append(seqs, s)) \in Seq(S)
<1> DEFINE n == Len(seqs)
           more == Append(seqs, s)
<1>1. /\ n \in Nat /\ more \in Seq(Seq(S)) /\ more # <<>> /\ Len(more) = n + 1
      /\ more[n + 1] = s /\ \A i \in 1..n : more[i] = seqs[i]
  <2> DEFINE SS == Seq(S)
  <2>1. seqs \in Seq(SS) /\ s \in SS
    OBVIOUS
  <2> HIDE DEF SS
  <2>2. /\ n \in Nat /\ more \in Seq(SS) /\ more # <<>> /\ Len(more) = n + 1
        /\ more[n + 1] = s /\ \A i \in 1..n : more[i] = seqs[i]
    BY <2>1
  <2> QED
    BY <2>2 DEF SS
<1>2. PICK g : Joins(seqs, n, g)
  BY <1>1, JoinsExists
<1> HIDE DEF n, more
<1>3. \E h : /\ Joins(more, n + 1, h)
             /\ h[n + 1] = JoinNext(g, n, more[n + 1])
  BY <1>1, <1>2, JoinsMore, Zenon
<1> PICK h : /\ Joins(more, n + 1, h)
             /\ h[n + 1] = JoinNext(g, n, more[n + 1])
  BY <1>3
<1>4. FlattenSeq(more) = h[n + 1]
  BY <1>1, FlattenJoins
<1>5. n # 0 => FlattenSeq(seqs) = g[n]
  BY <1>2, FlattenJoins DEF n
<1>6. n = 0 => FlattenSeq(seqs) = <<>>
  BY DEF FlattenSeq, n
<1>7. <<>> \o s = s
  OBVIOUS
<1>8. FlattenSeq(more) = FlattenSeq(seqs) \o s
  BY <1>1, <1>4, <1>5, <1>6, <1>7 DEF JoinNext
<1> QED
  BY <1>8 DEF more

-----------------------------------------------------------------------------
(* Sizes *)

\* The constants, one by one.
LEMMA Constants ==
    /\ ReadBuffer \in Nat \ {0} /\ MaxCount \in Nat \ {0} /\ LeastBlock \in Nat \ {0}
    /\ MaxBlock \in Nat \ {0}
BY ChunkerAssumption

\* Blocks of minBlockSize are enough for the file: the division is rounded up.
LEMMA LeastIsEnough ==
    ASSUME NEW len \in Nat
    PROVE  minBlockSize(len) \in Nat \ {0} /\ len <= MaxCount * minBlockSize(len)
<1> DEFINE least == (len + MaxCount - 1) \div MaxCount
           size == minBlockSize(len)
<1>1. least \in Nat /\ len <= MaxCount * least
  BY Constants
<1>2. size = IF least > LeastBlock THEN least ELSE LeastBlock
  BY DEF minBlockSize
<1> HIDE DEF least, size
<1>3. size \in Nat \ {0} /\ least <= size
  BY <1>1, <1>2, Constants
<1>4. MaxCount * least <= MaxCount * size
  BY <1>1, <1>3, Constants
<1>5. MaxCount * least \in Nat /\ MaxCount * size \in Nat
  BY <1>1, <1>3, Constants
<1> QED
  BY <1>1, <1>3, <1>4, <1>5 DEF size

\* What reload() leaves in the buffer are the next bytes of the file, and it
\* leaves none only at the end of the file.
LEMMA Reloaded ==
    ASSUME SafeBuffer
    PROVE  LET r == reload
           IN  /\ r.pos \in Nat /\ r.pos <= Len(input) /\ r.buffer \in Seq(Byte)
               /\ Len(r.buffer) <= r.pos /\ r.pos - Len(r.buffer) = Consumed
               /\ \A i \in 1..Len(r.buffer) : r.buffer[i] = input[Consumed + i]
               /\ r.buffer = <<>> => buffer = <<>> /\ pos = Len(input)
<1>1. CASE buffer # <<>>
  <2>1. reload = [pos |-> pos, buffer |-> buffer]
    BY <1>1 DEF reload
  <2>2. reload.pos = pos /\ reload.buffer = buffer
    BY <2>1
  <2> QED
    BY <1>1, <2>2 DEF SafeBuffer, Consumed
<1>2. CASE buffer = <<>>
  <2> DEFINE end == IF pos + ReadBuffer < Len(input) THEN pos + ReadBuffer ELSE Len(input)
             area == SubSeq(input, pos + 1, end)
  <2>1. reload = [pos |-> end, buffer |-> area]
    BY <1>2 DEF reload
  <2>2. reload.pos = end /\ reload.buffer = area
    BY <2>1
  <2>3. input \in Seq(Byte) /\ pos \in Nat /\ pos <= Len(input)
    BY DEF SafeBuffer
  <2>4. end \in Nat /\ pos <= end /\ end <= Len(input) /\ (end = pos => pos = Len(input))
    BY <2>3, Constants
  <2> HIDE DEF end
  <2>5. area = [i \in 1..(end - pos) |-> input[pos + i]]
    BY <2>3, <2>4
  <2>6. \A i \in 1..(end - pos) : input[pos + i] \in Byte
    BY <2>3, <2>4
  <2> HIDE DEF area
  <2>7. /\ area \in Seq(Byte) /\ Len(area) = end - pos
        /\ \A i \in 1..Len(area) : area[i] = input[pos + i]
    BY <2>3, <2>4, <2>5, <2>6
  <2>8. Consumed = pos
    BY <1>2, <2>3 DEF Consumed
  <2>9. /\ Len(area) <= end /\ end - Len(area) = pos
        /\ area = <<>> => pos = Len(input)
    BY <2>3, <2>4, <2>7
  <2> QED
    BY <1>2, <2>2, <2>4, <2>7, <2>8, <2>9
<1> QED
  BY <1>1, <1>2

\* The next byte goes from the file to the block.
LEMMA ByteTaken ==
    ASSUME SafeBuffer, reload.buffer # <<>>, pos' = reload.pos,
           buffer' = Tail(reload.buffer), UNCHANGED <<input, fileLength>>
    PROVE  /\ SafeBuffer' /\ Consumed' = Consumed + 1
           /\ Consumed \in Nat /\ Consumed + 1 <= Len(input)
           /\ Head(reload.buffer) = input[Consumed + 1] /\ Head(reload.buffer) \in Byte
<1> DEFINE area == reload.buffer
           end == reload.pos
           rest == Tail(area)
           used == Consumed
<1>1. /\ end \in Nat /\ end <= Len(input) /\ area \in Seq(Byte) /\ area # <<>>
      /\ Len(area) <= end /\ end - Len(area) = used
      /\ \A i \in 1..Len(area) : area[i] = input[used + i]
  BY Reloaded
<1>2. input \in Seq(Byte) /\ fileLength \in Nat
  BY DEF SafeBuffer
<1>3. pos' = end /\ buffer' = rest /\ input' = input /\ fileLength' = fileLength
  OBVIOUS
<1> HIDE DEF area, end, used
<1>4. /\ rest \in Seq(Byte) /\ Len(rest) = Len(area) - 1
      /\ \A i \in 1..(Len(area) - 1) : rest[i] = area[i + 1]
      /\ Head(area) = area[1] /\ Head(area) \in Byte /\ Len(area) \in Nat \ {0}
  BY <1>1
<1> HIDE DEF rest
<1>5. /\ used \in Nat /\ used + 1 <= Len(input) /\ end - Len(rest) = used + 1
      /\ Len(rest) <= end /\ area[1] = input[used + 1]
  BY <1>1, <1>2, <1>4
<1>6. Consumed' = used + 1
  BY <1>3, <1>5 DEF Consumed
<1>7. ASSUME NEW i \in 1..Len(rest)
      PROVE  rest[i] = input[used + 1 + i]
  <2> DEFINE n == Len(area)
  <2>1. n \in Nat /\ i \in 1..(n - 1)
    BY <1>4
  <2> HIDE DEF n
  <2>2. i + 1 \in 1..n /\ used + (i + 1) = used + 1 + i
    BY <1>5, <2>1
  <2> QED
    BY <1>1, <1>4, <2>1, <2>2 DEF n
<1>8. SafeBuffer'
  BY <1>1, <1>2, <1>3, <1>4, <1>5, <1>6, <1>7 DEF SafeBuffer
<1> QED
  BY <1>4, <1>5, <1>6, <1>8 DEF area, used

\* Joining with one more byte, in the block that is not finished or in a
\* finished one.
LEMMA ByteJoined ==
    ASSUME NEW f \in Seq(Byte), NEW s \in Seq(Byte), NEW b \in Byte, NEW all \in Seq(Byte),
           NEW n \in Nat, n + 1 <= Len(all), b = all[n + 1], f \o s = SubSeq(all, 1, n)
    PROVE  /\ f \o Append(s, b) = SubSeq(all, 1, n + 1)
           /\ f \o Append(s, b) \in Seq(Byte)
           /\ (f \o Append(s, b)) \o <<>> = SubSeq(all, 1, n + 1)
<1>1. f \o Append(s, b) = Append(f \o s, b) /\ f \o Append(s, b) \in Seq(Byte)
  <2> DEFINE l == f \o Append(s, b)
             r == Append(f \o s, b)
  <2>1. l \in Seq(Byte) /\ Len(l) = Len(f) + Len(s) + 1
    OBVIOUS
  <2>2. r \in Seq(Byte) /\ Len(r) = Len(f) + Len(s) + 1
    OBVIOUS
  <2>3. ASSUME NEW i \in 1..(Len(f) + Len(s) + 1)
        PROVE  l[i] = r[i]
    <3>1. CASE i <= Len(f)
      BY <3>1
    <3>2. CASE i > Len(f) /\ i <= Len(f) + Len(s)
      BY <3>2
    <3>3. CASE i = Len(f) + Len(s) + 1
      BY <3>3
    <3> QED
      BY <3>1, <3>2, <3>3
  <2> HIDE DEF l, r
  <2>4. l = [i \in 1..Len(l) |-> l[i]] /\ r = [i \in 1..Len(r) |-> r[i]]
    BY <2>1, <2>2
  <2>5. l = r
    BY <2>1, <2>2, <2>3, <2>4
  <2> QED
    BY <2>1, <2>5 DEF l, r
<1>2. Append(SubSeq(all, 1, n), all[n + 1]) = SubSeq(all, 1, n + 1)
  <2> DEFINE s1 == SubSeq(all, 1, n)
             s2 == SubSeq(all, 1, n + 1)
  <2>1. s1 = [i \in 1..n |-> all[i]] /\ s2 = [i \in 1..(n + 1) |-> all[i]]
    OBVIOUS
  <2>2. \A i \in 1..(n + 1) : all[i] \in Byte
    OBVIOUS
  <2> HIDE DEF s1, s2
  <2>3. s1 \in Seq(Byte) /\ Len(s1) = n /\ s2 \in Seq(Byte) /\ Len(s2) = n + 1
    BY <2>1, <2>2
  <2> DEFINE s3 == Append(s1, all[n + 1])
  <2>4. /\ s3 \in Seq(Byte) /\ Len(s3) = n + 1 /\ s3[n + 1] = all[n + 1]
        /\ \A i \in 1..n : s3[i] = s1[i]
    BY <2>2, <2>3
  <2> HIDE DEF s3
  <2>5. ASSUME NEW i \in 1..(n + 1)
        PROVE  s3[i] = s2[i]
    <3>1. s2[i] = all[i]
      BY <2>1
    <3>2. i \in 1..n => s1[i] = all[i]
      BY <2>1
    <3>3. i = n + 1 \/ i \in 1..n
      OBVIOUS
    <3> QED
      BY <2>4, <3>1, <3>2, <3>3
  <2>6. s3 = [i \in 1..(n + 1) |-> s3[i]] /\ s2 = [i \in 1..(n + 1) |-> s2[i]]
    BY <2>3, <2>4
  <2>7. s3 = s2
    BY <2>5, <2>6, Zenon
  <2> QED
    BY <2>7 DEF s1, s2, s3
<1> DEFINE t == f \o Append(s, b)
<1>3. t = SubSeq(all, 1, n + 1) /\ t \in Seq(Byte)
  BY <1>1, <1>2
<1> HIDE DEF t
<1>4. t \o <<>> = t
  BY <1>3
<1> QED
  BY <1>3, <1>4 DEF t

\* The lengths: n blocks of at least m bytes and k bytes more, of c.
LEMMA Lengths ==
    ASSUME NEW n \in Nat, NEW m \in Nat, NEW k \in Nat, NEW c \in Nat, n * m + k <= c
    PROVE  /\ n * m + (k + 1) <= c + 1
           /\ k + 1 >= m => (n + 1) * m + 0 <= c + 1
           /\ m > 0 => n * m < c + m
           /\ k > 0 => (n + 1) * m < c + m
<1>1. n * m \in Nat /\ (n + 1) * m = n * m + m
  OBVIOUS
<1> QED
  BY <1>1

\* As many blocks as fit the file are no more than MaxCount.
LEMMA CountOfBlocks ==
    ASSUME NEW n \in Nat, NEW m \in Nat \ {0}, NEW max \in Nat, NEW len \in Nat,
           len <= max * m, n * m < len + m
    PROVE  n <= max
<1> SUFFICES ASSUME n > max
             PROVE  FALSE
  OBVIOUS
<1>1. n >= max + 1
  OBVIOUS
<1>2. n * m >= (max + 1) * m
  BY <1>1
<1>3. (max + 1) * m = max * m + m /\ max * m \in Nat /\ n * m \in Nat
  OBVIOUS
<1> QED
  BY <1>2, <1>3

-----------------------------------------------------------------------------
(* The invariant *)

\* Nothing was read at first.
LEMMA InitChunks == ChunkInit => SafeChunks
<1> SUFFICES ASSUME ChunkInit
             PROVE  SafeChunks
  OBVIOUS
<1> DEFINE least == minBlockSize(fileLength)
<1>1. PICK n \in 1..MaxLength : input \in [1..n -> Byte]
  BY DEF ChunkInit
<1>2. n \in Nat
  BY <1>1, ChunkerAssumption
<1>3. input \in Seq(Byte) /\ Len(input) \in Nat /\ Len(input) > 0
  BY <1>1, <1>2, ChunkerAssumption
<1>4. fileLength \in Nat
  BY <1>3 DEF ChunkInit
<1>5. /\ pos = 0 /\ buffer = <<>> /\ blockBuffer = <<>> /\ blocks = <<>> /\ done = FALSE
  BY DEF ChunkInit
<1>6. Consumed = 0
  <2>1. Len(buffer) = 0
    BY <1>5
  <2>2. pos = 0
    BY <1>5
  <2> QED
    BY <2>1, <2>2 DEF Consumed
<1>7. SafeBuffer
  BY <1>3, <1>4, <1>5 DEF SafeBuffer
<1>8. SafeBytes
  <2>1. FlattenSeq(<<>>) = <<>>
    BY DEF FlattenSeq
  <2>2. SubSeq(input, 1, 0) = <<>> /\ <<>> \in Seq(Byte) /\ <<>> \o <<>> = <<>>
    BY <1>3
  <2>3. <<>> \in Seq(Seq(Byte))
    OBVIOUS
  <2> QED
    BY <1>5, <1>6, <2>1, <2>2, <2>3 DEF SafeBytes
<1>9. SafeSizes
  <2>1. least \in Nat \ {0}
    BY <1>4, LeastIsEnough
  <2> HIDE DEF least
  <2>2. Len(<<>>) = 0 /\ 0 < least /\ 0 * least + 0 <= 0
    BY <2>1
  <2> QED
    BY <1>5, <1>6, <2>2 DEF SafeSizes, least
<1> QED
  BY <1>5, <1>7, <1>8, <1>9 DEF SafeChunks

\* Once the tail is a block there is nothing left to read.
LEMMA DoneIsEnd == SafeChunks /\ done => reload.buffer = <<>>
<1> SUFFICES ASSUME SafeChunks, done
             PROVE  reload.buffer = <<>>
  OBVIOUS
<1> DEFINE area == reload.buffer
           end == reload.pos
<1>1. /\ end \in Nat /\ end <= Len(input) /\ area \in Seq(Byte)
      /\ end - Len(area) = Consumed
  BY Reloaded DEF SafeChunks
<1>2. Consumed = Len(input) /\ Len(input) \in Nat
  BY DEF SafeChunks, SafeBuffer, Consumed
<1> HIDE DEF area, end
<1>3. area = <<>>
  BY <1>1, <1>2
<1> QED
  BY <1>3 DEF area

\* The sizes after a byte that does not end a block.
LEMMA SizesGrow ==
    ASSUME SafeChunks, ~done, NEW b \in Byte, Consumed \in Nat, Consumed' = Consumed + 1,
           blockBuffer' = Append(blockBuffer, b), UNCHANGED <<fileLength, blocks, done>>,
           \/ ~(Len(Append(blockBuffer, b)) >= minBlockSize(fileLength))
           \/ ~(Len(Append(blockBuffer, b)) >= MaxBlock)
    PROVE  SafeSizes'
<1> DEFINE least == minBlockSize(fileLength)
           n == Len(blocks)
           k == Len(blockBuffer)
           c == Consumed
<1>1. fileLength \in Nat /\ blocks \in Seq(Seq(Byte)) /\ blockBuffer \in Seq(Byte)
  BY DEF SafeChunks, SafeBuffer, SafeBytes
<1>2. least \in Nat \ {0} /\ n \in Nat /\ k \in Nat /\ c \in Nat
  <2>1. least \in Nat \ {0}
    BY <1>1, LeastIsEnough
  <2>2. n \in Nat /\ k \in Nat
    BY <1>1
  <2> QED
    BY <2>1, <2>2
<1>3. Len(blockBuffer') = k + 1
  BY <1>1
<1>4. /\ n * least + k <= c
      /\ \A i \in 1..n : /\ Len(blocks[i]) <= MaxBlock \/ Len(blocks[i]) <= least
                         /\ Len(blocks[i]) >= least
  BY DEF SafeChunks, SafeSizes
<1>5. minBlockSize(fileLength') = least /\ Len(blocks') = n /\ Consumed' = c + 1
  OBVIOUS
<1>6. Len(Append(blockBuffer, b)) = k + 1
  BY <1>1
<1> HIDE DEF least, n, k, c
<1>7. n * least + (k + 1) <= c + 1
  BY <1>2, <1>4, Lengths
<1>8. k + 1 < least \/ k + 1 < MaxBlock
  BY <1>2, <1>6, Constants DEF least
<1> QED
  BY <1>3, <1>4, <1>5, <1>7, <1>8 DEF SafeSizes, n

\* The sizes after a byte that ends a block.
LEMMA SizesCut ==
    ASSUME SafeChunks, ~done, NEW b \in Byte, Consumed \in Nat, Consumed' = Consumed + 1,
           Len(Append(blockBuffer, b)) >= minBlockSize(fileLength),
           blocks' = Append(blocks, Append(blockBuffer, b)), blockBuffer' = <<>>,
           UNCHANGED <<fileLength, done>>
    PROVE  SafeSizes'
<1> DEFINE least == minBlockSize(fileLength)
           n == Len(blocks)
           k == Len(blockBuffer)
           c == Consumed
           block == Append(blockBuffer, b)
           size(i) == Len(blocks'[i])
<1>1. fileLength \in Nat /\ blocks \in Seq(Seq(Byte)) /\ blockBuffer \in Seq(Byte)
  BY DEF SafeChunks, SafeBuffer, SafeBytes
<1>2. least \in Nat \ {0} /\ n \in Nat /\ k \in Nat /\ c \in Nat
  <2>1. least \in Nat \ {0}
    BY <1>1, LeastIsEnough
  <2>2. n \in Nat /\ k \in Nat
    BY <1>1
  <2> QED
    BY <2>1, <2>2
<1>3. Len(block) = k + 1 /\ block \in Seq(Byte)
  BY <1>1
<1>4. /\ n * least + k <= c /\ (k < least \/ k < MaxBlock)
      /\ \A i \in 1..n : /\ Len(blocks[i]) <= MaxBlock \/ Len(blocks[i]) <= least
                         /\ Len(blocks[i]) >= least
  BY DEF SafeChunks, SafeSizes
<1>5. k + 1 >= least
  BY <1>3
<1>6. minBlockSize(fileLength') = least /\ Len(blockBuffer') = 0 /\ Consumed' = c + 1
  OBVIOUS
<1>7. Len(blocks') = n + 1 /\ blocks'[n + 1] = block /\ \A i \in 1..n : blocks'[i] = blocks[i]
  <2> DEFINE SB == Seq(Byte)
  <2>1. blocks \in Seq(SB) /\ block \in SB
    BY <1>1, <1>3
  <2> HIDE DEF SB, block
  <2>2. blocks' = Append(blocks, block)
    BY DEF block
  <2> QED
    BY <2>1, <2>2
<1> HIDE DEF least, n, k, c, block
<1>8. (n + 1) * least + 0 <= c + 1
  BY <1>2, <1>4, <1>5, Lengths
<1>9. k + 1 <= MaxBlock \/ k + 1 <= least
  BY <1>2, <1>4, <1>5, Constants
<1>10. ASSUME NEW i \in 1..(n + 1)
       PROVE  (size(i) <= MaxBlock \/ size(i) <= least) /\ size(i) >= least
  <2>1. CASE i = n + 1
    BY <1>3, <1>5, <1>7, <1>9, <2>1
  <2>2. CASE i # n + 1
    <3>1. i \in 1..n
      BY <1>2, <2>2
    <3> QED
      BY <1>4, <1>7, <3>1
  <2> QED
    BY <2>1, <2>2
<1>11. 0 < least
  BY <1>2
<1> QED
  BY <1>6, <1>7, <1>8, <1>10, <1>11 DEF SafeSizes

\* One turn of the loop.
LEMMA ReadByteChunks == SafeChunks /\ ReadByte => SafeChunks'
<1> SUFFICES ASSUME SafeChunks, ReadByte
             PROVE  SafeChunks'
  OBVIOUS
<1> DEFINE b == Head(reload.buffer)
           block == Append(blockBuffer, b)
           f == FlattenSeq(blocks)
<1>1. ~done /\ done \in BOOLEAN
  BY DoneIsEnd DEF ReadByte, SafeChunks
<1>2. /\ reload.buffer # <<>> /\ pos' = reload.pos /\ buffer' = Tail(reload.buffer)
      /\ UNCHANGED <<input, fileLength, done>>
  BY DEF ReadByte
<1>3. /\ SafeBuffer' /\ Consumed' = Consumed + 1
      /\ Consumed \in Nat /\ Consumed + 1 <= Len(input)
      /\ b = input[Consumed + 1] /\ b \in Byte
  BY <1>2, ByteTaken DEF SafeChunks
<1>4. /\ input \in Seq(Byte) /\ blocks \in Seq(Seq(Byte)) /\ blockBuffer \in Seq(Byte)
      /\ f \in Seq(Byte) /\ f \o blockBuffer = SubSeq(input, 1, Consumed)
  BY DEF SafeChunks, SafeBuffer, SafeBytes
<1>5. \/ /\ Len(block) >= minBlockSize(fileLength)
         /\ blocks' = Append(blocks, block) /\ blockBuffer' = <<>>
      \/ /\ blocks' = blocks /\ blockBuffer' = block
         /\ ~(Len(block) >= minBlockSize(fileLength)) \/ ~(Len(block) >= MaxBlock)
  BY DEF ReadByte, BlockEnds
<1> HIDE DEF b, f
<1>6. /\ f \o block = SubSeq(input, 1, Consumed + 1) /\ f \o block \in Seq(Byte)
      /\ (f \o block) \o <<>> = SubSeq(input, 1, Consumed + 1)
  <2> DEFINE c == Consumed
             bb == blockBuffer
             all == input
  <2>1. /\ f \in Seq(Byte) /\ bb \in Seq(Byte) /\ b \in Byte /\ all \in Seq(Byte)
        /\ c \in Nat /\ c + 1 <= Len(all) /\ b = all[c + 1] /\ f \o bb = SubSeq(all, 1, c)
    BY <1>3, <1>4
  <2> HIDE DEF c, bb, all
  <2>2. /\ f \o Append(bb, b) = SubSeq(all, 1, c + 1) /\ f \o Append(bb, b) \in Seq(Byte)
        /\ (f \o Append(bb, b)) \o <<>> = SubSeq(all, 1, c + 1)
    BY <2>1, ByteJoined, SMTT(30)
  <2> QED
    BY <2>2 DEF c, bb, all
<1>7. block \in Seq(Byte)
  BY <1>3, <1>4
<1>8. CASE blocks' = blocks /\ blockBuffer' = block
           /\ (~(Len(block) >= minBlockSize(fileLength)) \/ ~(Len(block) >= MaxBlock))
  <2>1. SafeBytes'
    BY <1>2, <1>3, <1>4, <1>6, <1>7, <1>8 DEF SafeBytes, f
  <2>2. SafeSizes'
    BY <1>1, <1>2, <1>3, <1>8, SizesGrow
  <2> QED
    BY <1>1, <1>2, <1>3, <2>1, <2>2 DEF SafeChunks
<1>9. CASE Len(block) >= minBlockSize(fileLength)
           /\ blocks' = Append(blocks, block) /\ blockBuffer' = <<>>
  <2>1. FlattenSeq(Append(blocks, block)) = f \o block
    BY <1>4, <1>7, FlattenAppend DEF f
  <2>2. Append(blocks, block) \in Seq(Seq(Byte)) /\ <<>> \in Seq(Byte)
    <3> DEFINE SB == Seq(Byte)
    <3>1. blocks \in Seq(SB) /\ block \in SB
      BY <1>4, <1>7
    <3> HIDE DEF SB, block
    <3>2. Append(blocks, block) \in Seq(SB) /\ <<>> \in Seq(Byte)
      BY <3>1
    <3> QED
      BY <3>2 DEF SB
  <2> HIDE DEF block
  <2>3. SafeBytes'
    BY <1>2, <1>3, <1>6, <1>9, <2>1, <2>2 DEF SafeBytes
  <2>4. SafeSizes'
    BY <1>1, <1>2, <1>3, <1>9, SizesCut DEF block
  <2> QED
    BY <1>1, <1>2, <1>3, <2>3, <2>4 DEF SafeChunks
<1> QED
  BY <1>5, <1>8, <1>9

\* The end of the file, where what is left becomes a block.
LEMMA TailChunks == SafeChunks /\ Tail_ => SafeChunks'
<1> SUFFICES ASSUME SafeChunks, Tail_
             PROVE  SafeChunks'
  OBVIOUS
<1> DEFINE f == FlattenSeq(blocks)
           least == minBlockSize(fileLength)
           n == Len(blocks)
           k == Len(blockBuffer)
           size(i) == Len(blocks'[i])
<1>1. /\ ~done /\ done' = TRUE /\ blockBuffer' = <<>> /\ reload.buffer = <<>>
      /\ UNCHANGED <<input, fileLength, pos, buffer>>
      /\ blocks' = IF blockBuffer = <<>> THEN blocks ELSE Append(blocks, blockBuffer)
  BY DEF Tail_
<1>2. buffer = <<>> /\ pos = Len(input)
  BY <1>1, Reloaded DEF SafeChunks
<1>3. SafeBuffer' /\ Consumed' = Consumed
  BY <1>1 DEF SafeChunks, SafeBuffer, Consumed
<1>4. /\ fileLength \in Nat /\ input \in Seq(Byte)
      /\ blocks \in Seq(Seq(Byte)) /\ blockBuffer \in Seq(Byte) /\ f \in Seq(Byte)
      /\ f \o blockBuffer = SubSeq(input, 1, Consumed)
  BY DEF SafeChunks, SafeBuffer, SafeBytes
<1>5. Consumed = Len(input) /\ Len(input) \in Nat
  <2>1. Len(buffer) = 0 /\ Len(input) \in Nat
    BY <1>2, <1>4
  <2>2. pos - Len(buffer) = Len(input)
    BY <1>2, <2>1
  <2> QED
    BY <2>1, <2>2 DEF Consumed
<1>6. least \in Nat \ {0} /\ n \in Nat /\ k \in Nat
  <2>1. least \in Nat \ {0}
    BY <1>4, LeastIsEnough
  <2>2. n \in Nat /\ k \in Nat
    BY <1>4
  <2> QED
    BY <2>1, <2>2
<1>7. /\ n * least + k <= Len(input) /\ (k < least \/ k < MaxBlock)
      /\ \A i \in 1..n : /\ Len(blocks[i]) <= MaxBlock \/ Len(blocks[i]) <= least
                         /\ Len(blocks[i]) >= least
  BY <1>1, <1>5 DEF SafeChunks, SafeSizes
<1>8. minBlockSize(fileLength') = least /\ Len(blockBuffer') = 0 /\ input' = input
  BY <1>1
<1>9. CASE blockBuffer = <<>>
  <2>1. blocks' = blocks /\ Len(blocks') = n
    BY <1>1, <1>9
  <2>2. SafeBytes'
    BY <1>1, <1>3, <1>4, <1>9, <2>1 DEF SafeBytes
  <2> HIDE DEF least, n, k
  <2>3. 0 < least /\ n * least < Len(input) + least
    BY <1>5, <1>6, <1>7, Lengths
  <2>4. SafeSizes'
    BY <1>1, <1>7, <1>8, <2>1, <2>3 DEF SafeSizes
  <2> QED
    BY <1>1, <1>2, <1>3, <2>2, <2>4 DEF SafeChunks
<1>10. CASE blockBuffer # <<>>
  <2>1. blocks' = Append(blocks, blockBuffer)
    BY <1>1, <1>10
  <2>2. /\ blocks' \in Seq(Seq(Byte)) /\ Len(blocks') = n + 1 /\ blocks'[n + 1] = blockBuffer
        /\ \A i \in 1..n : blocks'[i] = blocks[i]
    <3> DEFINE SB == Seq(Byte)
    <3>1. blocks \in Seq(SB) /\ blockBuffer \in SB
      BY <1>4
    <3> HIDE DEF SB
    <3>2. /\ blocks' \in Seq(SB) /\ Len(blocks') = n + 1 /\ blocks'[n + 1] = blockBuffer
          /\ \A i \in 1..n : blocks'[i] = blocks[i]
      BY <2>1, <3>1
    <3> QED
      BY <3>2 DEF SB
  <2>3. FlattenSeq(blocks') = f \o blockBuffer /\ FlattenSeq(blocks') \in Seq(Byte)
    BY <1>4, <2>1, FlattenAppend
  <2> DEFINE g == FlattenSeq(blocks')
  <2>4. g \o <<>> = g /\ <<>> \in Seq(Byte)
    <3> HIDE DEF g
    <3> QED
      BY <2>3 DEF g
  <2>5. SafeBytes'
    BY <1>1, <1>3, <1>4, <2>2, <2>3, <2>4 DEF SafeBytes
  <2>6. k > 0
    <3> DEFINE bb == blockBuffer
    <3>1. bb \in Seq(Byte) /\ bb # <<>>
      BY <1>4, <1>10
    <3> HIDE DEF bb
    <3>2. Len(bb) > 0
      BY <3>1
    <3> QED
      BY <3>2 DEF bb
  <2> HIDE DEF least, n, k
  <2>7. 0 < least /\ (n + 1) * least < Len(input) + least
    BY <1>5, <1>6, <1>7, <2>6, Lengths
  <2>8. k <= MaxBlock \/ k <= least
    BY <1>6, <1>7, Constants
  <2>9. ASSUME NEW i \in 1..(n + 1)
        PROVE  /\ size(i) <= MaxBlock \/ size(i) <= least
               /\ i < n + 1 => size(i) >= least
    <3>1. CASE i = n + 1
      BY <1>6, <2>2, <2>8, <3>1 DEF k
    <3>2. CASE i # n + 1
      <4>1. i \in 1..n
        BY <1>6, <3>2
      <4> QED
        BY <1>7, <2>2, <4>1
    <3> QED
      BY <3>1, <3>2
  <2>10. SafeSizes'
    BY <1>1, <1>8, <2>2, <2>7, <2>9 DEF SafeSizes
  <2> QED
    BY <1>1, <1>2, <1>3, <2>5, <2>10 DEF SafeChunks
<1> QED
  BY <1>9, <1>10

\* SafeChunks always holds of the loop.
THEOREM ChunksSafe == ChunkSpec => []SafeChunks
<1>1. SafeChunks /\ UNCHANGED chunkVars => SafeChunks'
  BY DEF SafeChunks, SafeBuffer, SafeBytes, SafeSizes, Consumed, chunkVars
<1>2. SafeChunks /\ [ChunkNext]_chunkVars => SafeChunks'
  BY <1>1, ReadByteChunks, TailChunks DEF ChunkNext
<1> QED
  BY <1>2, InitChunks, PTL DEF ChunkSpec

-----------------------------------------------------------------------------
(* What follows from it *)

\* BlocksAreTheFile always holds: cutting, and filling the read buffer again,
\* loses, repeats and reorders no byte of a file of any length.
THEOREM NothingLost == ChunkSpec => []BlocksAreTheFile
<1>1. ASSUME SafeChunks
      PROVE  BlocksAreTheFile
  <2> DEFINE f == FlattenSeq(blocks)
             n == Len(input)
  <2>1. /\ f \in Seq(Byte) /\ f \o blockBuffer = SubSeq(input, 1, pos - Len(buffer))
        /\ input \in Seq(Byte)
    BY <1>1 DEF SafeChunks, SafeBuffer, SafeBytes, Consumed
  <2>2. ASSUME done
        PROVE  f = input
    <3>1. pos = n /\ Len(buffer) = 0 /\ blockBuffer = <<>> /\ n \in Nat
      BY <1>1, <2>1, <2>2 DEF SafeChunks
    <3> HIDE DEF f, n
    <3>2. pos - Len(buffer) = n
      BY <3>1
    <3>3. f \o <<>> = f
      BY <2>1
    <3>4. SubSeq(input, 1, n) = input
      BY <2>1 DEF n
    <3> QED
      BY <2>1, <3>1, <3>2, <3>3, <3>4
  <2> QED
    BY <2>1, <2>2 DEF BlocksAreTheFile
<1> QED
  BY <1>1, ChunksSafe, PTL

\* BlockSizes always holds: no block exceeds maxBlockSize unless the number of
\* blocks forces it to, and only the last is shorter than minBlockSize.
THEOREM SizesKept == ChunkSpec => []BlockSizes
<1>1. ASSUME SafeChunks
      PROVE  BlockSizes
  <2>1. DOMAIN blocks = 1..Len(blocks)
    BY <1>1 DEF SafeChunks, SafeBytes
  <2> QED
    BY <1>1, <2>1 DEF SafeChunks, SafeSizes, BlockSizes
<1> QED
  BY <1>1, ChunksSafe, PTL

\* CountFits always holds: a file that does not grow while it is read has no
\* more blocks than the 16 bits of a snapshot entry can count.
THEOREM CountAlwaysFits == ChunkSpec => []CountFits
<1>1. ASSUME SafeChunks, fileLength = Len(input)
      PROVE  Len(blocks) <= MaxCount
  <2> DEFINE least == minBlockSize(fileLength)
             n == Len(blocks)
             k == Len(blockBuffer)
             len == Len(input)
             c == Consumed
  <2>1. /\ blocks \in Seq(Seq(Byte)) /\ blockBuffer \in Seq(Byte) /\ input \in Seq(Byte)
        /\ buffer \in Seq(Byte) /\ pos \in Nat /\ pos <= len /\ Len(buffer) <= pos
        /\ done \in BOOLEAN
    BY <1>1 DEF SafeChunks, SafeBytes, SafeBuffer
  <2>2. n \in Nat /\ k \in Nat /\ len \in Nat
    BY <2>1
  <2>3. c \in Nat /\ c <= len
    <3> HIDE DEF len
    <3> QED
      BY <2>1, <2>2 DEF Consumed
  <2>4. least \in Nat \ {0} /\ len <= MaxCount * least
    BY <1>1, <2>2, LeastIsEnough
  <2>5. /\ ~done => n * least + k <= c
        /\ done => n * least < len + least
    BY <1>1 DEF SafeChunks, SafeSizes
  <2> HIDE DEF least, n, k, len, c
  <2>6. n * least < len + least
    <3>1. CASE done
      BY <2>5, <3>1
    <3>2. CASE ~done
      <4>1. n * least < c + least
        BY <2>2, <2>3, <2>4, <2>5, <3>2, Lengths
      <4>2. n * least \in Nat
        BY <2>2, <2>4
      <4> QED
        BY <2>2, <2>3, <2>4, <4>1, <4>2
    <3> QED
      BY <3>1, <3>2
  <2>7. n <= MaxCount
    BY <2>2, <2>4, <2>6, Constants, CountOfBlocks
  <2> QED
    BY <2>7 DEF n
<1>2. SafeChunks => CountFits
  BY <1>1 DEF CountFits
<1> QED
  BY <1>2, ChunksSafe, PTL

-----------------------------------------------------------------------------
(* Arithmetic modulo *)

\* The constants of the hash.
LEMMA HashConstants ==
    /\ Modulus \in Nat \ {0} /\ Constant \in Nat \ {0} /\ Window \in Nat \ {0}
    /\ 0 \in Byte /\ SubTable \in [Byte -> Nat]
BY ChunkerAssumption

\* A number is its quotient and its remainder.
LEMMA Division ==
    ASSUME NEW a \in Int, NEW m \in Nat \ {0}
    PROVE  /\ a % m \in 0..(m - 1) /\ a \div m \in Int
           /\ a = (a \div m) * m + (a % m)
<1>1. a % m \in 0..(m - 1)
  OBVIOUS
<1>2. a \div m \in Int
  OBVIOUS
<1>3. m \in Int /\ m > 0
  OBVIOUS
<1>4. a = m * (a \div m) + (a % m)
  BY <1>3, Z3
<1>5. m * (a \div m) = (a \div m) * m
  BY <1>2
<1> QED
  BY <1>1, <1>2, <1>4, <1>5

\* There is only one remainder.
LEMMA OneRemainder ==
    ASSUME NEW m \in Nat \ {0}, NEW k \in Int, NEW r \in 0..(m - 1), NEW s \in 0..(m - 1),
           r = s + k * m
    PROVE  r = s
<1>1. k >= 1 => k * m >= m
  OBVIOUS
<1>2. k <= -1 => k * m <= -m
  OBVIOUS
<1>3. k * m \in Int /\ (k = 0 => k * m = 0)
  OBVIOUS
<1> QED
  BY <1>1, <1>2, <1>3

\* The numbers a and b differ by a multiple of Modulus.
Congruent(a, b) == \E k \in Int : a = b + k * Modulus

\* A number and its remainder are congruent.
LEMMA RemainderCongruent ==
    ASSUME NEW a \in Int
    PROVE  /\ a % Modulus \in Int
           /\ Congruent(a % Modulus, a) /\ Congruent(a, a % Modulus)
<1> DEFINE q == a \div Modulus
           r == a % Modulus
<1>1. Modulus \in Nat \ {0}
  BY HashConstants
<1>2. r \in 0..(Modulus - 1) /\ q \in Int /\ a = q * Modulus + r
  BY <1>1, Division
<1> HIDE DEF q, r
<1>3. -q \in Int /\ r = a + (-q) * Modulus /\ a = r + q * Modulus /\ r \in Int
  BY <1>1, <1>2
<1> QED
  BY <1>2, <1>3 DEF Congruent, r

\* Congruent numbers have the same remainder.
LEMMA CongruentRemainders ==
    ASSUME NEW a \in Int, NEW b \in Int, Congruent(a, b)
    PROVE  a % Modulus = b % Modulus
<1> DEFINE p == a \div Modulus
           q == b \div Modulus
           r == a % Modulus
           s == b % Modulus
<1>1. Modulus \in Nat \ {0}
  BY HashConstants
<1>2. r \in 0..(Modulus - 1) /\ p \in Int /\ a = p * Modulus + r
  BY <1>1, Division
<1>3. s \in 0..(Modulus - 1) /\ q \in Int /\ b = q * Modulus + s
  BY <1>1, Division
<1>4. PICK k \in Int : a = b + k * Modulus
  BY DEF Congruent
<1> HIDE DEF p, q, r, s
<1>5. q + k - p \in Int /\ r = s + (q + k - p) * Modulus
  BY <1>1, <1>2, <1>3, <1>4
<1>6. r = s
  BY <1>1, <1>2, <1>3, <1>5, OneRemainder
<1> QED
  BY <1>6 DEF r, s

\* Congruence is an equivalence.
LEMMA CongruentTrans ==
    ASSUME NEW a \in Int, NEW b \in Int, NEW c \in Int, Congruent(a, b), Congruent(b, c)
    PROVE  Congruent(a, c) /\ Congruent(b, a)
<1>1. PICK j \in Int : a = b + j * Modulus
  BY DEF Congruent
<1>2. PICK k \in Int : b = c + k * Modulus
  BY DEF Congruent
<1>3. /\ j + k \in Int /\ a = c + (j + k) * Modulus
      /\ -j \in Int /\ b = a + (-j) * Modulus
  BY <1>1, <1>2, HashConstants
<1> QED
  BY <1>3 DEF Congruent

\* Sums and differences of congruent numbers are congruent.
LEMMA CongruentSum ==
    ASSUME NEW a \in Int, NEW b \in Int, Congruent(a, b),
           NEW c \in Int, NEW d \in Int, Congruent(c, d)
    PROVE  Congruent(a + c, b + d) /\ Congruent(a - c, b - d)
<1>1. PICK j \in Int : a = b + j * Modulus
  BY DEF Congruent
<1>2. PICK k \in Int : c = d + k * Modulus
  BY DEF Congruent
<1>3. /\ j + k \in Int /\ a + c = (b + d) + (j + k) * Modulus
      /\ j - k \in Int /\ a - c = (b - d) + (j - k) * Modulus
  BY <1>1, <1>2, HashConstants
<1> QED
  BY <1>3 DEF Congruent

\* So are products.
LEMMA CongruentProduct ==
    ASSUME NEW a \in Int, NEW b \in Int, Congruent(a, b),
           NEW c \in Int, NEW d \in Int, Congruent(c, d)
    PROVE  Congruent(a * c, b * d)
<1>1. PICK j \in Int : a = b + j * Modulus
  BY DEF Congruent
<1>2. PICK k \in Int : c = d + k * Modulus
  BY DEF Congruent
<1> DEFINE e == j * d + b * k + j * k * Modulus
<1>3. e \in Int /\ a * c = b * d + e * Modulus
  BY <1>1, <1>2, HashConstants
<1> QED
  BY <1>3 DEF Congruent

\* Every number is congruent to itself.
LEMMA CongruentSelf ==
    ASSUME NEW a \in Int
    PROVE  Congruent(a, a)
<1>1. 0 \in Int /\ a = a + 0 * Modulus
  BY HashConstants
<1> QED
  BY <1>1 DEF Congruent

-----------------------------------------------------------------------------
(* Recursion *)

\* The values f[0], ..., f[m], the first being a and step making the next of each.
Iterates(a, step, m, f) ==
    /\ f \in [0..m -> Int] /\ f[0] = a
    /\ \A i \in 0..(m - 1) : f[i + 1] = step[<<i, f[i]>>]

\* One value more.
LEMMA IteratesMore ==
    ASSUME NEW a, NEW step, NEW m \in Nat, NEW g, Iterates(a, step, m, g),
           step[<<m, g[m]>>] \in Int
    PROVE  \E f : Iterates(a, step, m + 1, f)
<1> DEFINE f == [i \in 0..(m + 1) |-> IF i = m + 1 THEN step[<<m, g[m]>>] ELSE g[i]]
<1>1. g \in [0..m -> Int] /\ g[0] = a
  BY DEF Iterates
<1>2. f \in [0..(m + 1) -> Int]
  BY <1>1
<1>3. f[0] = a /\ f[m + 1] = step[<<m, g[m]>>] /\ \A i \in 0..m : f[i] = g[i]
  BY <1>1
<1> HIDE DEF f
<1>4. ASSUME NEW i \in 0..((m + 1) - 1)
      PROVE  f[i + 1] = step[<<i, f[i]>>]
  <2>1. CASE i = m
    BY <2>1, <1>3
  <2>2. CASE i # m
    <3>1. i \in 0..(m - 1) /\ i \in 0..m /\ i + 1 \in 0..m
      BY <2>2
    <3>2. g[i + 1] = step[<<i, g[i]>>]
      BY <3>1 DEF Iterates
    <3> QED
      BY <3>1, <3>2, <1>3
  <2> QED
    BY <2>1, <2>2
<1>5. Iterates(a, step, m + 1, f)
  BY <1>2, <1>3, <1>4 DEF Iterates
<1> QED
  BY <1>5

\* There are such values for every number of steps.
LEMMA IteratesExist ==
    ASSUME NEW n \in Nat, NEW a \in Int, NEW step \in [(0..(n - 1)) \X Int -> Int]
    PROVE  \E f : Iterates(a, step, n, f)
<1> DEFINE T == {m \in Nat : m <= n /\ ~\E f : Iterates(a, step, m, f)}
<1> SUFFICES ASSUME T # {}
             PROVE  FALSE
  <2>1. n \notin T
    OBVIOUS
  <2> QED
    BY <2>1
<1>1. PICK m \in T : \A y \in T : m <= y
  <2>1. T \subseteq Nat
    OBVIOUS
  <2> HIDE DEF T
  <2> QED
    BY <2>1, LeastElement
<1>2. m \in Nat /\ m <= n /\ ~\E f : Iterates(a, step, m, f)
  BY <1>1
<1>3. m # 0
  <2> DEFINE f == [i \in 0..0 |-> a]
  <2>1. f \in [0..0 -> Int] /\ f[0] = a /\ 0..(0 - 1) = {}
    OBVIOUS
  <2>2. Iterates(a, step, 0, f)
    BY <2>1 DEF Iterates
  <2> QED
    BY <1>2, <2>2
<1> DEFINE j == m - 1
<1>4. j \in Nat /\ j \notin T /\ j < n /\ m = j + 1
  BY <1>1, <1>2, <1>3
<1>5. PICK g : Iterates(a, step, j, g)
  BY <1>2, <1>4
<1>6. g[j] \in Int /\ <<j, g[j]>> \in (0..(n - 1)) \X Int
  BY <1>4, <1>5 DEF Iterates
<1>7. step[<<j, g[j]>>] \in Int
  BY <1>6
<1>8. \E f : Iterates(a, step, j + 1, f)
  BY <1>4, <1>5, <1>7, IteratesMore
<1> QED
  BY <1>2, <1>4, <1>8

\* The powers of Constant, without remainders.
Powers(p) ==
    /\ p \in [0..Window -> Int] /\ p[0] = 1
    /\ \A i \in 0..(Window - 1) : p[i + 1] = p[i] * Constant

\* There are such powers.
LEMMA PowersExist == \E p : Powers(p)
<1> DEFINE step == [x \in (0..(Window - 1)) \X Int |-> x[2] * Constant]
<1>1. step \in [(0..(Window - 1)) \X Int -> Int]
  BY HashConstants
<1>2. PICK p : Iterates(1, step, Window, p)
  <2> HIDE DEF step
  <2>1. \E p : Iterates(1, step, Window, p)
    <3>1. Window \in Nat /\ 1 \in Int
      BY HashConstants
    <3> QED
      BY <1>1, <3>1, IteratesExist
  <2> QED
    BY <2>1
<1>3. /\ p \in [0..Window -> Int] /\ p[0] = 1
      /\ \A i \in 0..(Window - 1) : p[i + 1] = step[<<i, p[i]>>]
  <2> HIDE DEF step
  <2> QED
    BY <1>2 DEF Iterates
<1>4. ASSUME NEW i \in 0..(Window - 1)
      PROVE  p[i + 1] = p[i] * Constant
  <2>1. p[i] \in Int /\ <<i, p[i]>> \in (0..(Window - 1)) \X Int
    BY <1>3, HashConstants
  <2> QED
    BY <1>3, <2>1
<1> QED
  BY <1>3, <1>4 DEF Powers

\* The product of two powers.
LEMMA PowersAdd ==
    ASSUME NEW p, Powers(p), NEW a \in Nat, NEW b \in Nat, a + b <= Window
    PROVE  p[a + b] = p[a] * p[b]
<1> DEFINE T == {i \in Nat : a + i <= Window /\ p[a + i] # p[a] * p[i]}
<1> SUFFICES ASSUME T # {}
             PROVE  FALSE
  OBVIOUS
<1>1. PICK i \in T : \A y \in T : i <= y
  BY LeastElement
<1>2. Window \in Nat /\ Constant \in Nat /\ a \in 0..Window /\ p[a] \in Int /\ p[0] = 1
  BY HashConstants DEF Powers
<1>3. i # 0
  BY <1>1, <1>2
<1> DEFINE j == i - 1
<1>4. j \in Nat /\ j \notin T /\ a + j < Window /\ j < Window /\ i = j + 1
  BY <1>1, <1>2, <1>3
<1>5. p[a + j] = p[a] * p[j]
  BY <1>4, <1>2
<1> HIDE DEF j
<1>6. /\ p[(a + j) + 1] = p[a + j] * Constant /\ p[j + 1] = p[j] * Constant
      /\ p[j] \in Int
  BY <1>4, <1>2 DEF Powers
<1>7. (p[a] * p[j]) * Constant = p[a] * (p[j] * Constant)
  BY <1>2, <1>6
<1>8. (a + j) + 1 = a + i
  BY <1>4
<1>9. p[a + i] = p[a] * p[i]
  BY <1>4, <1>5, <1>6, <1>7, <1>8
<1> QED
  BY <1>1, <1>9


-----------------------------------------------------------------------------
(* Square and multiply *)

\* the factor that makes the square of a power the next odd one
Odd(u) == IF u % 2 = 1 THEN Constant ELSE 1

\* what the constructor of RollingHash computes
Squares(f) ==
    f = [u \in 0..Window |->
            IF u = 0 THEN 1
            ELSE LET half == f[u \div 2]
                 IN  (half * half * (IF u % 2 = 1 THEN Constant ELSE 1)) % Modulus]

\* Each value of it comes from the one at half the exponent.
LEMMA SquaresValues ==
    ASSUME NEW f, Squares(f)
    PROVE  /\ f[0] = 1
           /\ \A u \in 1..Window : f[u] = (f[u \div 2] * f[u \div 2] * Odd(u)) % Modulus
<1> DEFINE e(u) == IF u = 0 THEN 1 ELSE (f[u \div 2] * f[u \div 2] * Odd(u)) % Modulus
<1>1. f = [u \in 0..Window |-> e(u)]
  BY DEF Squares, Odd
<1> HIDE DEF e
<1>2. Window \in Nat /\ \A u \in 0..Window : f[u] = e(u)
  BY <1>1, HashConstants
<1>3. f[0] = e(0) /\ \A u \in 1..Window : f[u] = e(u) /\ u # 0
  BY <1>2
<1> QED
  BY <1>3 DEF e

\* A power is the square of the one of half the exponent, times the odd factor.
LEMMA PowerOfHalf ==
    ASSUME NEW p, Powers(p), NEW u \in 1..Window
    PROVE  /\ u \div 2 \in 0..(u - 1) /\ p[u \div 2] \in Int /\ Odd(u) \in Int
           /\ p[u] = p[u \div 2] * p[u \div 2] * Odd(u)
<1> DEFINE d == u \div 2
<1>1. /\ d \in Nat /\ d < u /\ u \in Nat /\ d + d <= Window
      /\ (u % 2 = 1 => u = (d + d) + 1) /\ (u % 2 # 1 => u = d + d)
  BY HashConstants
<1> HIDE DEF d
<1>2. Window \in Nat /\ Constant \in Int /\ d \in 0..Window
  BY <1>1, HashConstants
<1>3. p[d] \in Int /\ p[d + d] = p[d] * p[d]
  BY <1>1, <1>2, PowersAdd DEF Powers
<1>4. CASE u % 2 = 1
  <2>1. d + d \in 0..(Window - 1)
    BY <1>1, <1>2, <1>4
  <2>2. p[(d + d) + 1] = p[d + d] * Constant
    BY <2>1 DEF Powers
  <2>3. Odd(u) = Constant
    BY <1>4 DEF Odd
  <2> QED
    BY <1>1, <1>2, <1>3, <1>4, <2>2, <2>3 DEF d
<1>5. CASE u % 2 # 1
  <2>1. Odd(u) = 1 /\ p[u] = p[d] * p[d]
    BY <1>1, <1>3, <1>5 DEF Odd
  <2>2. p[d] * p[d] \in Int /\ (p[d] * p[d]) * 1 = p[d] * p[d]
    BY <1>3
  <2> QED
    BY <1>1, <1>3, <2>1, <2>2 DEF d
<1> QED
  BY <1>4, <1>5

\* One turn of square and multiply, on numbers congruent to the power.
LEMMA SquareCongruent ==
    ASSUME NEW p, Powers(p), NEW u \in 1..Window, NEW h \in Int, Congruent(h, p[u \div 2])
    PROVE  /\ (h * h * Odd(u)) % Modulus \in Int
           /\ Congruent((h * h * Odd(u)) % Modulus, p[u])
           /\ (h * h * Odd(u)) % Modulus = p[u] % Modulus
<1> DEFINE q == p[u \div 2]
           o == Odd(u)
           x == h * h * o
<1>1. q \in Int /\ o \in Int /\ p[u] = q * q * o /\ Congruent(h, q)
  BY PowerOfHalf
<1> HIDE DEF q, o
<1>2. h * h \in Int /\ q * q \in Int /\ Congruent(h * h, q * q)
  BY <1>1, CongruentProduct
<1>3. x \in Int /\ q * q * o \in Int /\ Congruent(x, q * q * o)
  <2>1. Congruent(o, o)
    BY <1>1, CongruentSelf
  <2>2. ASSUME NEW a \in Int, NEW b \in Int, Congruent(a, b)
        PROVE  a * o \in Int /\ b * o \in Int /\ Congruent(a * o, b * o)
    BY <1>1, <2>1, <2>2, CongruentProduct
  <2> QED
    BY <1>2, <2>2
<1> HIDE DEF x
<1>4. x % Modulus \in Int /\ Congruent(x % Modulus, x)
  BY <1>3, RemainderCongruent
<1>5. Congruent(x % Modulus, p[u]) /\ x % Modulus = p[u] % Modulus
  BY <1>1, <1>3, <1>4, CongruentTrans, CongruentRemainders
<1> QED
  BY <1>4, <1>5 DEF x, o

\* The computation has a result.
LEMMA SquaresExist == \E f : Squares(f)
<1>1. PICK p : Powers(p)
  BY PowersExist
<1> DEFINE f == [u \in 0..Window |-> IF u = 0 THEN 1 ELSE p[u] % Modulus]
<1>2. Window \in Nat /\ p \in [0..Window -> Int] /\ p[0] = 1
  BY <1>1, HashConstants DEF Powers
<1>3. ASSUME NEW u \in 0..Window
      PROVE  f[u] \in Int /\ Congruent(f[u], p[u])
  <2>1. p[u] \in Int
    BY <1>2
  <2>2. CASE u = 0
    BY <2>2, <1>2, CongruentSelf
  <2>3. CASE u # 0
    <3>1. f[u] = p[u] % Modulus
      BY <2>3
    <3> QED
      BY <3>1, <2>1, RemainderCongruent
  <2> QED
    BY <2>2, <2>3
<1>4. ASSUME NEW u \in 0..Window
      PROVE  f[u] = IF u = 0 THEN 1 ELSE (f[u \div 2] * f[u \div 2] * Odd(u)) % Modulus
  <2>1. CASE u = 0
    BY <2>1
  <2>2. CASE u # 0
    <3>1. u \in 1..Window /\ f[u] = p[u] % Modulus
      BY <2>2, <1>2
    <3>2. u \div 2 \in 0..Window
      BY <3>1, <1>2
    <3> HIDE DEF f
    <3>3. f[u \div 2] \in Int /\ Congruent(f[u \div 2], p[u \div 2])
      BY <3>2, <1>3
    <3>4. (f[u \div 2] * f[u \div 2] * Odd(u)) % Modulus = p[u] % Modulus
      BY <1>1, <3>1, <3>3, SquareCongruent
    <3> QED
      BY <3>1, <3>4, <2>2
  <2> QED
    BY <2>1, <2>2
<1>5. f = [u \in DOMAIN f |-> f[u]] /\ DOMAIN f = 0..Window
  OBVIOUS
<1> HIDE DEF f
<1>6. f = [u \in 0..Window |->
              IF u = 0 THEN 1 ELSE (f[u \div 2] * f[u \div 2] * Odd(u)) % Modulus]
  BY <1>4, <1>5
<1>7. Squares(f)
  BY <1>6 DEF Squares, Odd
<1> QED
  BY <1>7

\* mConstantPowWinSize is the power, but for a multiple of the modulus.
LEMMA PowerOfWindow ==
    ASSUME NEW p, Powers(p)
    PROVE  ConstantPowWinSize \in Int /\ Congruent(ConstantPowWinSize, p[Window])
<1> DEFINE f == CHOOSE g : Squares(g)
<1>1. Squares(f)
  BY SquaresExist
<1>2. ConstantPowWinSize = f[Window]
  BY DEF ConstantPowWinSize, Squares
<1> HIDE DEF f
<1>3. /\ f[0] = 1
      /\ \A u \in 1..Window : f[u] = (f[u \div 2] * f[u \div 2] * Odd(u)) % Modulus
  BY <1>1, SquaresValues
<1> DEFINE T == {u \in Nat : u <= Window /\ ~(f[u] \in Int /\ Congruent(f[u], p[u]))}
<1>4. T = {}
  <2> SUFFICES ASSUME T # {}
               PROVE  FALSE
    OBVIOUS
  <2>1. PICK u \in T : \A y \in T : u <= y
    <3>1. T \subseteq Nat
      OBVIOUS
    <3> HIDE DEF T
    <3> QED
      BY <3>1, LeastElement
  <2>2. u \in Nat /\ u <= Window /\ ~(f[u] \in Int /\ Congruent(f[u], p[u]))
    BY <2>1
  <2>3. u # 0
    BY <1>3, <2>2, CongruentSelf DEF Powers
  <2>4. u \in 1..Window /\ u \div 2 \in Nat /\ u \div 2 < u
    BY <2>2, <2>3, HashConstants
  <2>5. u \div 2 \notin T /\ u \div 2 <= Window
    BY <2>1, <2>2, <2>4, HashConstants
  <2>6. f[u \div 2] \in Int /\ Congruent(f[u \div 2], p[u \div 2])
    BY <2>4, <2>5
  <2> QED
    BY <1>3, <2>2, <2>4, <2>6, SquareCongruent
<1>5. Window \in Nat /\ Window <= Window
  BY HashConstants
<1> QED
  BY <1>2, <1>4, <1>5


-----------------------------------------------------------------------------
(* The polynomial of a window *)

\* its values after each byte
Horner(w, h) ==
    h = [i \in 0..Window |->
            IF i = 0 THEN 0 ELSE (h[i - 1] * Constant + SubTable[w[i]]) % Modulus]

\* the same, step by step, and known to be numbers
HornerSteps(w, h) ==
    /\ h \in [0..Window -> Int] /\ h[0] = 0
    /\ \A i \in 0..(Window - 1) :
          h[i + 1] = (h[i] * Constant + SubTable[w[i + 1]]) % Modulus

\* Every window has such values.
LEMMA HornerStepsExist ==
    ASSUME NEW w \in [1..Window -> Byte]
    PROVE  \E h : HornerSteps(w, h)
<1> DEFINE e(i, v) == (v * Constant + SubTable[w[i + 1]]) % Modulus
           step == [x \in (0..(Window - 1)) \X Int |-> e(x[1], x[2])]
<1>1. ASSUME NEW i \in 0..(Window - 1), NEW v \in Int
      PROVE  e(i, v) \in Int
  <2>1. i + 1 \in 1..Window
    BY HashConstants
  <2>2. SubTable[w[i + 1]] \in Int /\ Constant \in Int
    BY <2>1, HashConstants
  <2>3. v * Constant + SubTable[w[i + 1]] \in Int
    BY <2>2
  <2> QED
    BY <2>3, RemainderCongruent
<1> HIDE DEF e
<1>2. step \in [(0..(Window - 1)) \X Int -> Int]
  BY <1>1
<1>3. \A i \in 0..(Window - 1), v \in Int : step[<<i, v>>] = e(i, v)
  OBVIOUS
<1> HIDE DEF step
<1>4. \E h : Iterates(0, step, Window, h)
  <2>1. Window \in Nat /\ 0 \in Int
    BY HashConstants
  <2> QED
    BY <1>2, <2>1, IteratesExist
<1>5. PICK h : Iterates(0, step, Window, h)
  BY <1>4
<1>6. /\ h \in [0..Window -> Int] /\ h[0] = 0
      /\ \A i \in 0..(Window - 1) : h[i + 1] = step[<<i, h[i]>>]
  BY <1>5 DEF Iterates
<1>7. ASSUME NEW i \in 0..(Window - 1)
      PROVE  h[i + 1] = e(i, h[i])
  <2>1. h[i] \in Int
    BY <1>6, HashConstants
  <2> QED
    BY <2>1, <1>3, <1>6
<1> QED
  BY <1>6, <1>7 DEF HornerSteps, e

\* What the recursive definition says of each value.
LEMMA HornerValues ==
    ASSUME NEW w, NEW h, Horner(w, h)
    PROVE  /\ h[0] = 0
           /\ \A i \in 1..Window : h[i] = (h[i - 1] * Constant + SubTable[w[i]]) % Modulus
<1> DEFINE e(i) == IF i = 0 THEN 0 ELSE (h[i - 1] * Constant + SubTable[w[i]]) % Modulus
<1>1. h = [i \in 0..Window |-> e(i)]
  BY DEF Horner
<1> HIDE DEF e
<1>2. Window \in Nat /\ \A i \in 0..Window : h[i] = e(i)
  BY <1>1, HashConstants
<1>3. h[0] = e(0) /\ \A i \in 1..Window : h[i] = e(i) /\ i # 0
  BY <1>2
<1> QED
  BY <1>3 DEF e

\* The values found step by step are those of the recursive definition.
LEMMA HornerStepsHorner ==
    ASSUME NEW w, NEW h, HornerSteps(w, h)
    PROVE  Horner(w, h)
<1> DEFINE e(i) == IF i = 0 THEN 0 ELSE (h[i - 1] * Constant + SubTable[w[i]]) % Modulus
<1>1. h = [i \in 0..Window |-> h[i]]
  BY DEF HornerSteps
<1>2. ASSUME NEW i \in 0..Window
      PROVE  h[i] = e(i)
  <2>1. CASE i = 0
    BY <2>1 DEF HornerSteps
  <2>2. CASE i # 0
    <3>1. i - 1 \in 0..(Window - 1) /\ (i - 1) + 1 = i
      BY <2>2, HashConstants
    <3>2. h[(i - 1) + 1] = (h[i - 1] * Constant + SubTable[w[(i - 1) + 1]]) % Modulus
      BY <3>1 DEF HornerSteps
    <3> QED
      BY <3>1, <3>2, <2>2
  <2> QED
    BY <2>1, <2>2
<1> HIDE DEF e
<1>3. h = [i \in 0..Window |-> e(i)]
  BY <1>1, <1>2
<1> QED
  BY <1>3 DEF Horner, e

\* There is only one such polynomial.
LEMMA HornerUnique ==
    ASSUME NEW w, NEW g, NEW h, HornerSteps(w, g), Horner(w, h)
    PROVE  h[Window] = g[Window]
<1> DEFINE T == {i \in Nat : i <= Window /\ h[i] # g[i]}
<1>1. T = {}
  <2> SUFFICES ASSUME T # {}
               PROVE  FALSE
    OBVIOUS
  <2>1. PICK i \in T : \A y \in T : i <= y
    <3>1. T \subseteq Nat
      OBVIOUS
    <3> HIDE DEF T
    <3> QED
      BY <3>1, LeastElement
  <2>2. i \in Nat /\ i <= Window /\ h[i] # g[i]
    BY <2>1
  <2>3. i # 0
    BY <2>2, HornerValues DEF HornerSteps
  <2> DEFINE j == i - 1
  <2>4. j \in Nat /\ j \notin T /\ j <= Window /\ i = j + 1 /\ i \in 1..Window
        /\ j \in 0..(Window - 1) /\ i - 1 = j
    BY <2>1, <2>2, <2>3, HashConstants
  <2>5. h[j] = g[j]
    BY <2>4
  <2> HIDE DEF j
  <2>6. h[i] = (h[j] * Constant + SubTable[w[i]]) % Modulus
    BY <2>4, HornerValues
  <2>7. g[i] = (g[j] * Constant + SubTable[w[i]]) % Modulus
    BY <2>4 DEF HornerSteps
  <2> QED
    BY <2>2, <2>5, <2>6, <2>7
<1>2. Window \in Nat /\ Window <= Window
  BY HashConstants
<1> QED
  BY <1>1, <1>2

\* It is the reference that roll() is compared with.
LEMMA HashIsHorner ==
    ASSUME NEW w, NEW g, HornerSteps(w, g)
    PROVE  HashOf(w) = g[Window]
<1> DEFINE f == CHOOSE h : Horner(w, h)
<1>1. Horner(w, f)
  BY HornerStepsHorner
<1>2. HashOf(w) = f[Window]
  BY DEF HashOf, Horner
<1> HIDE DEF f
<1> QED
  BY <1>1, <1>2, HornerUnique


-----------------------------------------------------------------------------
(* Rolling *)

\* Two windows that go on alike: what sets their values apart, the power p of
\* the first byte's value x, is one power higher after the next.
LEMMA OneByteOn ==
    ASSUME NEW f \in Int, NEW g \in Int, NEW p \in Int, NEW x \in Int, NEW t \in Int,
           Congruent(f, g + p * x)
    PROVE  /\ Congruent(f * Constant, g * Constant + (p * Constant) * x)
           /\ Congruent((f * Constant + t) % Modulus,
                        ((g * Constant + t) % Modulus) + (p * Constant) * x)
<1> DEFINE y == (p * Constant) * x
           a == f * Constant
           b == g * Constant
<1>1. Constant \in Int /\ Congruent(Constant, Constant)
  BY HashConstants, CongruentSelf
<1>2. a \in Int /\ b \in Int /\ y \in Int /\ p * x \in Int /\ g + p * x \in Int
  BY <1>1
<1>3. (g + p * x) * Constant = b + y
  BY <1>1
<1>4. Congruent(a, b + y)
  BY <1>1, <1>2, <1>3, CongruentProduct
<1> HIDE DEF a, b, y
<1>5. Congruent(a + t, b + y + t) /\ a + t \in Int /\ b + t \in Int /\ b + y \in Int
  BY <1>2, <1>4, CongruentSelf, CongruentSum
<1>6. /\ (a + t) % Modulus \in Int /\ (b + t) % Modulus \in Int
      /\ Congruent((a + t) % Modulus, a + t) /\ Congruent(b + t, (b + t) % Modulus)
  BY <1>5, RemainderCongruent
<1> DEFINE u == (a + t) % Modulus
           v == (b + t) % Modulus
<1> HIDE DEF u, v
<1>7. Congruent((b + t) + y, v + y) /\ (b + t) + y \in Int /\ v + y \in Int
  <2>1. v \in Int /\ b + t \in Int /\ Congruent(b + t, v) /\ Congruent(y, y)
    BY <1>2, <1>5, <1>6, CongruentSelf DEF v
  <2>2. Congruent((b + t) + y, v + y)
    BY <1>2, <2>1, CongruentSum
  <2> QED
    BY <1>2, <2>1, <2>2
<1>8. b + y + t = (b + t) + y
  BY <1>2
<1>9. Congruent(u, (b + t) + y)
  BY <1>2, <1>5, <1>6, <1>8, CongruentTrans DEF u
<1>10. Congruent(u, v + y)
  BY <1>6, <1>7, <1>9, CongruentTrans DEF u
<1> QED
  BY <1>4, <1>10 DEF a, b, y, u, v

\* The window w with its first byte gone and c behind it.
Shift(w, c) == [i \in 1..Window |-> IF i = Window THEN c ELSE w[i + 1]]

\* It is a window again.
LEMMA ShiftType ==
    ASSUME NEW w \in [1..Window -> Byte], NEW c \in Byte
    PROVE  /\ Shift(w, c) \in [1..Window -> Byte] /\ Shift(w, c)[Window] = c
           /\ \A i \in 1..(Window - 1) : Shift(w, c)[i] = w[i + 1]
BY HashConstants DEF Shift

\* The value of all but the last byte of the shifted window.
LEMMA HornerShift ==
    ASSUME NEW w \in [1..Window -> Byte], NEW c \in Byte,
           NEW f, HornerSteps(w, f), NEW g, HornerSteps(Shift(w, c), g),
           NEW p, Powers(p), NEW i \in 0..(Window - 1)
    PROVE  Congruent(f[i + 1], g[i] + p[i] * SubTable[w[1]])
<1> DEFINE x == SubTable[w[1]]
           T == {k \in Nat : k < Window /\ ~Congruent(f[k + 1], g[k] + p[k] * x)}
<1>1. T = {}
  <2> SUFFICES ASSUME T # {}
               PROVE  FALSE
    OBVIOUS
  <2>1. PICK k \in T : \A y \in T : k <= y
    <3>1. T \subseteq Nat
      OBVIOUS
    <3> HIDE DEF T
    <3> QED
      BY <3>1, LeastElement
  <2>2. k \in Nat /\ k < Window /\ ~Congruent(f[k + 1], g[k] + p[k] * x)
    BY <2>1
  <2>3. 1 \in 1..Window /\ Window \in Nat /\ 0 \in 0..(Window - 1) /\ 0 \in 0..Window
    BY HashConstants
  <2>4. x \in Int /\ Constant \in Int
    BY <2>3, HashConstants
  <2>5. k # 0
    <3> SUFFICES ASSUME k = 0 PROVE FALSE
      OBVIOUS
    <3>1. f[0] = 0 /\ g[0] = 0 /\ p[0] = 1
      BY DEF HornerSteps, Powers
    <3>2. f[0 + 1] = (f[0] * Constant + SubTable[w[0 + 1]]) % Modulus
      BY <2>3 DEF HornerSteps
    <3>3. f[1] = x % Modulus
      BY <2>4, <3>1, <3>2
    <3>4. g[0] + p[0] * x = x
      BY <2>4, <3>1
    <3>5. Congruent(f[1], x)
      BY <2>4, <3>3, RemainderCongruent
    <3> QED
      BY <2>2, <3>4, <3>5
  <2> DEFINE j == k - 1
  <2>6. j \in Nat /\ j \notin T /\ j < Window /\ k = j + 1
        /\ j \in 0..(Window - 1) /\ k \in 0..(Window - 1) /\ k \in 1..(Window - 1)
        /\ j \in 0..Window /\ k \in 0..Window
    BY <2>1, <2>2, <2>3, <2>5
  <2>7. Congruent(f[k], g[j] + p[j] * x)
    BY <2>6
  <2> HIDE DEF j
  <2> DEFINE t == SubTable[w[k + 1]]
  <2>8. /\ f[k] \in Int /\ g[j] \in Int /\ p[j] \in Int
        /\ f[k + 1] = (f[k] * Constant + t) % Modulus
    BY <2>6 DEF HornerSteps, Powers
  <2>9. t \in Int
    <3>1. k + 1 \in 1..Window
      BY <2>6, <2>3
    <3> QED
      BY <3>1, HashConstants
  <2>10. g[k] = (g[j] * Constant + t) % Modulus
    <3>1. g[j + 1] = (g[j] * Constant + SubTable[Shift(w, c)[j + 1]]) % Modulus
      BY <2>6 DEF HornerSteps
    <3>2. Shift(w, c)[k] = w[k + 1]
      BY <2>6, ShiftType
    <3> QED
      BY <3>1, <3>2, <2>6
  <2>11. p[k] = p[j] * Constant
    BY <2>6 DEF Powers
  <2> HIDE DEF t, x
  <2>12. Congruent((f[k] * Constant + t) % Modulus,
                   ((g[j] * Constant + t) % Modulus) + (p[j] * Constant) * x)
    BY <2>4, <2>7, <2>8, <2>9, OneByteOn
  <2> QED
    BY <2>2, <2>8, <2>10, <2>11, <2>12
<1>2. i \in Nat /\ i < Window
  BY HashConstants
<1> QED
  BY <1>1, <1>2

\* The hash of the shifted window, from that of the window: what roll() does.
LEMMA HashOfShift ==
    ASSUME NEW w \in [1..Window -> Byte], NEW c \in Byte
    PROVE  HashOf(Shift(w, c))
               = (HashOf(w) * Constant + SubTable[c] - ConstantPowWinSize * SubTable[w[1]])
                     % Modulus
<1> DEFINE v == Shift(w, c)
           x == SubTable[w[1]]
           t == SubTable[c]
           n == Window - 1
           pow == ConstantPowWinSize
<1>1. v \in [1..Window -> Byte] /\ v[Window] = c
  BY ShiftType
<1>2. PICK f : HornerSteps(w, f)
  BY HornerStepsExist
<1>3. PICK g : HornerSteps(v, g)
  BY <1>1, HornerStepsExist
<1>4. PICK p : Powers(p)
  BY PowersExist
<1>5. /\ n \in 0..(Window - 1) /\ n + 1 = Window /\ Window \in 0..Window /\ n \in 0..Window
      /\ 1 \in 1..Window
  BY HashConstants
<1>6. x \in Int /\ t \in Int /\ Constant \in Int
  BY <1>5, HashConstants
<1>7. Congruent(f[Window], g[n] + p[n] * x)
  BY <1>2, <1>3, <1>4, <1>5, HornerShift
<1>8. HashOf(w) = f[Window] /\ HashOf(v) = g[Window]
  BY <1>2, <1>3, HashIsHorner
<1>9. pow \in Int /\ Congruent(pow, p[Window])
  BY <1>4, PowerOfWindow
<1>10. /\ f[Window] \in Int /\ g[n] \in Int /\ p[n] \in Int /\ p[Window] \in Int
       /\ p[Window] = p[n] * Constant
  BY <1>2, <1>3, <1>4, <1>5 DEF HornerSteps, Powers
<1>11. g[Window] = (g[n] * Constant + t) % Modulus
  <2>1. g[n + 1] = (g[n] * Constant + SubTable[v[n + 1]]) % Modulus
    BY <1>3, <1>5 DEF HornerSteps
  <2> QED
    BY <2>1, <1>1, <1>5
<1> HIDE DEF v, x, t, n, pow
<1> DEFINE a == f[Window] * Constant
           b == g[n] * Constant
           y == p[Window] * x
           z == pow * x
<1>12. Congruent(a, b + y)
  BY <1>6, <1>7, <1>10, OneByteOn
<1>13. Congruent(z, y)
  BY <1>6, <1>9, <1>10, CongruentProduct, CongruentSelf
<1>14. a \in Int /\ b \in Int /\ y \in Int /\ z \in Int
  BY <1>6, <1>9, <1>10
<1> HIDE DEF a, b, y, z
<1>15. Congruent(a - z, (b + y) - y) /\ (b + y) - y = b /\ a - z \in Int
  BY <1>12, <1>13, <1>14, CongruentSum
<1>16. Congruent((a - z) + t, b + t)
  BY <1>6, <1>14, <1>15, CongruentSum, CongruentSelf
<1>17. (a - z) + t = a + t - z /\ a + t - z \in Int /\ b + t \in Int
  BY <1>6, <1>14
<1>18. (a + t - z) % Modulus = (b + t) % Modulus
  BY <1>16, <1>17, CongruentRemainders
<1> QED
  BY <1>8, <1>11, <1>18 DEF a, b, z, v, x, t, pow


-----------------------------------------------------------------------------
(* The circular window *)

\* Positions in it are counted around its end.
LEMMA Around ==
    ASSUME NEW x \in Nat, x < Window + Window
    PROVE  x % Window = IF x < Window THEN x ELSE x - Window
<1> DEFINE r == x % Window
           q == x \div Window
           s == IF x < Window THEN x ELSE x - Window
           d == IF x < Window THEN 0 ELSE 1
<1>1. Window \in Nat \ {0}
  BY HashConstants
<1>2. r \in 0..(Window - 1) /\ q \in Int /\ x = q * Window + r
  BY <1>1, Division
<1>3. s \in 0..(Window - 1) /\ d \in Int /\ x = d * Window + s
  BY <1>1
<1> HIDE DEF r, q, s, d
<1>4. d - q \in Int /\ r = s + (d - q) * Window
  BY <1>1, <1>2, <1>3
<1>5. r = s
  BY <1>1, <1>2, <1>3, <1>4, OneRemainder
<1> QED
  BY <1>5 DEF r, s

\* From the place n of the last byte, the next one goes to the place behind it,
\* and the places from there on are those from n on, one further.
LEMMA Turn ==
    ASSUME NEW n \in 0..(Window - 1), NEW j, j = (n + 1) % Window, NEW i \in 1..Window
    PROVE  /\ j \in 0..(Window - 1) /\ (j + i) % Window \in 0..(Window - 1)
           /\ i = Window => (j + i) % Window = j
           /\ i # Window => /\ (j + i) % Window # j
                            /\ (n + (i + 1)) % Window = (j + i) % Window
<1> DEFINE around(x) == IF x < Window THEN x ELSE x - Window
<1>1. Window \in Nat /\ Window > 0 /\ n \in Nat /\ n < Window /\ i \in Nat /\ i > 0 /\ i <= Window
  BY HashConstants
<1>2. CASE Window = 1
  <2>1. n = 0 /\ i = 1 /\ i = Window
    BY <1>1, <1>2
  <2>2. (0 + 1) % Window = 0
    BY <1>2, Around
  <2> QED
    BY <1>2, <2>1, <2>2
<1>3. CASE Window # 1
  <2>1. n + 1 \in Nat /\ n + 1 < Window + Window
    BY <1>1, <1>3
  <2>2. j = around(n + 1)
    BY <2>1, Around
  <2>3. j \in Nat /\ j < Window
    BY <1>1, <2>2
  <2>4. j + i \in Nat /\ j + i < Window + Window
    BY <1>1, <2>3
  <2>5. (j + i) % Window = around(j + i)
    BY <2>4, Around
  <2>6. ASSUME i # Window
        PROVE  (n + (i + 1)) % Window = around(n + (i + 1))
    <3>1. n + (i + 1) \in Nat /\ n + (i + 1) < Window + Window
      BY <1>1, <2>6
    <3> QED
      BY <3>1, Around
  <2>7. /\ j \in 0..(Window - 1) /\ around(j + i) \in 0..(Window - 1)
        /\ i = Window => around(j + i) = j
        /\ i # Window => around(j + i) # j /\ around(n + (i + 1)) = around(j + i)
    BY <1>1, <2>2, <2>3
  <2> HIDE DEF around
  <2> QED
    BY <2>5, <2>6, <2>7
<1> QED
  BY <1>2, <1>3

\* The last bytes, after one more.
LEMMA LastOfAppend ==
    ASSUME NEW r \in Seq(Byte), NEW b \in Byte
    PROVE  /\ LastOf(r) \in [1..Window -> Byte]
           /\ LastOf(Append(r, b)) = Shift(LastOf(r), b)
<1> DEFINE e(i) == IF Len(r) + i <= Window THEN 0 ELSE r[Len(r) + i - Window]
           more == Append(r, b)
<1>1. Window \in Nat \ {0} /\ 0 \in Byte /\ Len(r) \in Nat
  BY HashConstants
<1>2. more \in Seq(Byte) /\ Len(more) = Len(r) + 1 /\ more[Len(r) + 1] = b
      /\ \A i \in 1..Len(r) : more[i] = r[i]
  OBVIOUS
<1>3. ASSUME NEW i \in 1..Window
      PROVE  e(i) \in Byte
  <2>1. CASE Len(r) + i <= Window
    BY <2>1, <1>1
  <2>2. CASE ~(Len(r) + i <= Window)
    <3>1. Len(r) + i - Window \in 1..Len(r)
      BY <2>2, <1>1
    <3> QED
      BY <3>1, <2>2
  <2> QED
    BY <2>1, <2>2
<1>4. LastOf(r) = [i \in 1..Window |-> e(i)]
  BY DEF LastOf
<1> HIDE DEF e
<1>5. LastOf(r) \in [1..Window -> Byte] /\ \A i \in 1..Window : LastOf(r)[i] = e(i)
  BY <1>3, <1>4
<1> HIDE DEF more
<1>6. ASSUME NEW i \in 1..Window
      PROVE  (IF Len(more) + i <= Window THEN 0 ELSE more[Len(more) + i - Window])
                 = (IF i = Window THEN b ELSE LastOf(r)[i + 1])
  <2>1. CASE i = Window
    <3>1. ~(Len(more) + i <= Window) /\ Len(more) + i - Window = Len(r) + 1
      BY <2>1, <1>1, <1>2
    <3> QED
      BY <3>1, <2>1, <1>2
  <2>2. CASE i # Window
    <3>1. i + 1 \in 1..Window /\ Len(more) + i = Len(r) + (i + 1)
      BY <2>2, <1>1, <1>2
    <3>2. LastOf(r)[i + 1]
              = IF Len(r) + (i + 1) <= Window THEN 0 ELSE r[Len(r) + (i + 1) - Window]
      BY <3>1, <1>5 DEF e
    <3>3. CASE Len(r) + (i + 1) <= Window
      BY <2>2, <3>1, <3>2, <3>3
    <3>4. CASE ~(Len(r) + (i + 1) <= Window)
      <4>1. Len(r) + (i + 1) - Window \in 1..Len(r)
        BY <2>2, <3>1, <3>4, <1>1
      <4>2. more[Len(r) + (i + 1) - Window] = r[Len(r) + (i + 1) - Window]
        BY <4>1, <1>2
      <4>3. /\ ~(Len(more) + i <= Window)
            /\ Len(more) + i - Window = Len(r) + (i + 1) - Window
        BY <3>1, <3>4, <1>1, <1>2
      <4>4. more[Len(more) + i - Window] = LastOf(r)[i + 1]
        BY <3>2, <3>4, <4>2, <4>3, Zenon
      <4> QED
        BY <2>2, <4>3, <4>4
    <3> QED
      BY <3>3, <3>4
  <2> QED
    BY <2>1, <2>2
<1>7. LastOf(more) = Shift(LastOf(r), b)
  BY <1>6 DEF LastOf, Shift
<1> QED
  BY <1>5, <1>7 DEF more

\* At first the window is zeros, and so are the last bytes of nothing.
LEMMA InitHash == ChunkInit => SafeHash
<1> SUFFICES ASSUME ChunkInit
             PROVE  SafeHash
  OBVIOUS
<1> DEFINE w == LastOf(rolled)
           z == CHOOSE h : h = [i \in 0..Window |->
                    IF i = 0 THEN 0 ELSE (h[i - 1] * Constant + SubTable[0]) % Modulus]
<1>1. Window \in Nat \ {0} /\ 0 \in Byte
  BY HashConstants
<1>2. rolled = <<>> /\ rh = RollingHash
  BY DEF ChunkInit
<1>3. rolled \in Seq(Byte) /\ Len(rolled) = 0
  BY <1>2
<1>4. w \in [1..Window -> Byte] /\ \A i \in 1..Window : w[i] = 0
  BY <1>1, <1>3 DEF LastOf
<1>5. rh.hash = z[Window] /\ rh.index = Window - 1 /\ rh.window = [i \in 0..(Window - 1) |-> 0]
  BY <1>2 DEF RollingHash
<1> HIDE DEF w
<1>6. PICK g : HornerSteps(w, g)
  BY <1>4, HornerStepsExist
<1>7. ASSUME NEW h
      PROVE  Horner(w, h) <=>
                 h = [i \in 0..Window |->
                         IF i = 0 THEN 0 ELSE (h[i - 1] * Constant + SubTable[0]) % Modulus]
  <2> DEFINE e(i) == IF i = 0 THEN 0 ELSE (h[i - 1] * Constant + SubTable[w[i]]) % Modulus
             d(i) == IF i = 0 THEN 0 ELSE (h[i - 1] * Constant + SubTable[0]) % Modulus
  <2>1. ASSUME NEW i \in 0..Window
        PROVE  e(i) = d(i)
    <3>1. CASE i = 0
      BY <3>1
    <3>2. CASE i # 0
      <4>1. w[i] = 0
        BY <3>2, <1>1, <1>4
      <4> QED
        BY <4>1
    <3> QED
      BY <3>1, <3>2
  <2>2. Horner(w, h) <=> h = [i \in 0..Window |-> e(i)]
    BY DEF Horner
  <2> HIDE DEF e, d
  <2>3. [i \in 0..Window |-> e(i)] = [i \in 0..Window |-> d(i)]
    BY <2>1
  <2> QED
    BY <2>2, <2>3 DEF d
<1>8. Horner(w, g)
  BY <1>6, HornerStepsHorner
<1>9. z = [i \in 0..Window |->
              IF i = 0 THEN 0 ELSE (z[i - 1] * Constant + SubTable[0]) % Modulus]
  <2>1. \E h : h = [i \in 0..Window |->
                    IF i = 0 THEN 0 ELSE (h[i - 1] * Constant + SubTable[0]) % Modulus]
    BY <1>7, <1>8
  <2> QED
    BY <2>1
<1> HIDE DEF z
<1>10. Horner(w, z)
  BY <1>7, <1>9
<1>11. rh.hash = HashOf(w)
  BY <1>5, <1>6, <1>10, HornerUnique, HashIsHorner
<1>12. rh.index \in 0..(Window - 1) /\ rh.window \in [0..(Window - 1) -> Byte]
  BY <1>1, <1>5
<1>13. ASSUME NEW i \in 1..Window
       PROVE  rh.window[(rh.index + i) % Window] = w[i]
  <2>1. rh.index + i \in Int
    BY <1>1, <1>12
  <2>2. (rh.index + i) % Window \in 0..(Window - 1)
    BY <1>1, <2>1, Division
  <2> QED
    BY <2>2, <1>4, <1>5
<1> QED
  BY <1>3, <1>11, <1>12, <1>13 DEF SafeHash, w

\* roll() keeps hash and window those of the last bytes.
LEMMA RollHash ==
    ASSUME SafeHash, NEW b \in Byte, rh' = roll(rh, b), rolled' = Append(rolled, b)
    PROVE  SafeHash'
<1> DEFINE n == rh.index
           win == rh.window
           j == (n + 1) % Window
           w == LastOf(rolled)
<1>1. rolled \in Seq(Byte) /\ n \in 0..(Window - 1) /\ win \in [0..(Window - 1) -> Byte]
      /\ rh.hash = HashOf(w)
  BY DEF SafeHash
<1>2. \A i \in 1..Window : win[(n + i) % Window] = w[i]
  BY DEF SafeHash
<1>3. /\ rh'.index = j /\ rh'.window = [win EXCEPT ![j] = b]
      /\ rh'.hash = (rh.hash * Constant + SubTable[b]
                         - ConstantPowWinSize * SubTable[win[j]]) % Modulus
  BY DEF roll
<1>4. w \in [1..Window -> Byte] /\ LastOf(rolled') = Shift(w, b)
  BY <1>1, LastOfAppend
<1>5. 1 \in 1..Window
  BY HashConstants
<1>6. j \in 0..(Window - 1) /\ win[j] = w[1]
  BY <1>1, <1>2, <1>5, Turn
<1> HIDE DEF n, win, j, w
<1>7. rh'.hash = HashOf(LastOf(rolled'))
  <2>1. HashOf(Shift(w, b))
            = (HashOf(w) * Constant + SubTable[b] - ConstantPowWinSize * SubTable[w[1]])
                  % Modulus
    BY <1>4, HashOfShift
  <2> QED
    BY <2>1, <1>1, <1>3, <1>4, <1>6, Zenon
<1>8. rh'.window \in [0..(Window - 1) -> Byte] /\ rolled' \in Seq(Byte)
  BY <1>1, <1>3, <1>6
<1>9. ASSUME NEW i \in 1..Window
      PROVE  rh'.window[(rh'.index + i) % Window] = Shift(w, b)[i]
  <2> DEFINE k == (j + i) % Window
  <2>1. /\ k \in 0..(Window - 1)
        /\ i = Window => k = j
        /\ i # Window => k # j /\ (n + (i + 1)) % Window = k
    BY <1>1, Turn DEF j
  <2>2. rh'.window[(rh'.index + i) % Window] = rh'.window[k]
    BY <1>3
  <2> HIDE DEF k
  <2>3. CASE i = Window
    <3>1. Shift(w, b)[i] = b
      BY <1>4, <2>3, ShiftType
    <3>2. rh'.window[k] = b
      BY <1>1, <1>3, <1>6, <2>1, <2>3
    <3> QED
      BY <2>2, <3>1, <3>2
  <2>4. CASE i # Window
    <3>1. i \in 1..(Window - 1) /\ i + 1 \in 1..Window
      BY <2>4, HashConstants
    <3>2. Shift(w, b)[i] = w[i + 1]
      BY <1>4, <3>1, ShiftType
    <3>3. win[k] = w[i + 1]
      BY <1>2, <2>1, <2>4, <3>1
    <3>4. rh'.window[k] = win[k]
      BY <1>1, <1>3, <2>1, <2>4
    <3> QED
      BY <2>2, <3>2, <3>3, <3>4
  <2> QED
    BY <2>3, <2>4
<1>10. rh'.index \in 0..(Window - 1)
  BY <1>3, <1>6
<1> QED
  BY <1>4, <1>7, <1>8, <1>9, <1>10 DEF SafeHash

\* The circular window and the hash are those of the last bytes rolled, for
\* every byte that the loop of uploadFile reads.
THEOREM HashSafe == ChunkSpec => []SafeHash
<1>1. ASSUME SafeChunks, SafeHash, [ChunkNext]_chunkVars
      PROVE  SafeHash'
  <2>1. CASE ReadByte /\ rh' = rh /\ rolled' = rolled
    BY <1>1, <2>1 DEF SafeHash
  <2>2. CASE ReadByte /\ ~(rh' = rh /\ rolled' = rolled)
    <3> DEFINE area == reload.buffer
               b == Head(area)
    <3>1. area \in Seq(Byte) /\ area # <<>>
      BY <1>1, <2>2, Reloaded DEF SafeChunks, ReadByte
    <3> HIDE DEF area
    <3>2. b \in Byte
      BY <3>1
    <3>3. rh' = roll(rh, b) /\ rolled' = Append(rolled, b)
      BY <2>2 DEF ReadByte, area
    <3> HIDE DEF b
    <3> QED
      BY <1>1, <3>2, <3>3, RollHash
  <2>3. CASE Tail_ \/ UNCHANGED chunkVars
    <3>1. rh' = rh /\ rolled' = rolled
      BY <2>3 DEF Tail_, chunkVars
    <3> QED
      BY <1>1, <3>1 DEF SafeHash
  <2> QED
    BY <1>1, <2>1, <2>2, <2>3 DEF ChunkNext
<1> QED
  BY <1>1, InitHash, ChunksSafe, PTL DEF ChunkSpec

\* Where blocks end depends on the last Window bytes rolled and on nothing
\* older: the hash updated byte by byte, modulo 2^64 and by a subtraction that
\* may wrap, is the polynomial of the window computed from scratch.
THEOREM HashAlwaysOfWindow == ChunkSpec => []HashOfWindow
<1>1. SafeHash => HashOfWindow
  BY DEF SafeHash, HashOfWindow
<1> QED
  BY <1>1, HashSafe, PTL

-----------------------------------------------------------------------------
(* Powers of two and bits *)

\* The powers of two that the shifts of base32encode need.
LEMMA PowersOfTwo ==
    /\ 2^0 = 1 /\ 2^1 = 2 /\ 2^2 = 4 /\ 2^3 = 8 /\ 2^4 = 16 /\ 2^5 = 32 /\ 2^6 = 64
    /\ 2^7 = 128 /\ 2^8 = 256 /\ 2^9 = 512 /\ 2^10 = 1024 /\ 2^11 = 2048 /\ 2^12 = 4096
OBVIOUS

\* what a shift by k divides by
Pow(k) == 2^k

\* It is positive.
LEMMA PowPositive ==
    ASSUME NEW k \in 0..12
    PROVE  Pow(k) \in Nat \ {0}
<1>1. CASE k = 0
  BY <1>1, PowersOfTwo DEF Pow
<1>2. CASE k = 1
  BY <1>2, PowersOfTwo DEF Pow
<1>3. CASE k = 2
  BY <1>3, PowersOfTwo DEF Pow
<1>4. CASE k = 3
  BY <1>4, PowersOfTwo DEF Pow
<1>5. CASE k = 4
  BY <1>5, PowersOfTwo DEF Pow
<1>6. CASE k = 5
  BY <1>6, PowersOfTwo DEF Pow
<1>7. CASE k = 6
  BY <1>7, PowersOfTwo DEF Pow
<1>8. CASE k = 7
  BY <1>8, PowersOfTwo DEF Pow
<1>9. CASE k = 8
  BY <1>9, PowersOfTwo DEF Pow
<1>10. CASE k = 9
  BY <1>10, PowersOfTwo DEF Pow
<1>11. CASE k = 10
  BY <1>11, PowersOfTwo DEF Pow
<1>12. CASE k = 11
  BY <1>12, PowersOfTwo DEF Pow
<1>13. CASE k = 12
  BY <1>13, PowersOfTwo DEF Pow
<1> QED
  BY <1>1, <1>2, <1>3, <1>4, <1>5, <1>6, <1>7, <1>8, <1>9, <1>10, <1>11, <1>12, <1>13

\* A shift by one more doubles.
LEMMA PowStep ==
    ASSUME NEW k \in 0..11
    PROVE  Pow(k + 1) = 2 * Pow(k)
<1>1. CASE k = 0
  BY <1>1, PowersOfTwo DEF Pow
<1>2. CASE k = 1
  BY <1>2, PowersOfTwo DEF Pow
<1>3. CASE k = 2
  BY <1>3, PowersOfTwo DEF Pow
<1>4. CASE k = 3
  BY <1>4, PowersOfTwo DEF Pow
<1>5. CASE k = 4
  BY <1>5, PowersOfTwo DEF Pow
<1>6. CASE k = 5
  BY <1>6, PowersOfTwo DEF Pow
<1>7. CASE k = 6
  BY <1>7, PowersOfTwo DEF Pow
<1>8. CASE k = 7
  BY <1>8, PowersOfTwo DEF Pow
<1>9. CASE k = 8
  BY <1>9, PowersOfTwo DEF Pow
<1>10. CASE k = 9
  BY <1>10, PowersOfTwo DEF Pow
<1>11. CASE k = 10
  BY <1>11, PowersOfTwo DEF Pow
<1>12. CASE k = 11
  BY <1>12, PowersOfTwo DEF Pow
<1> QED
  BY <1>1, <1>2, <1>3, <1>4, <1>5, <1>6, <1>7, <1>8, <1>9, <1>10, <1>11, <1>12

\* A shift by a + b is one by a and one by b.
LEMMA PowSum ==
    ASSUME NEW a \in 0..12, NEW b \in 0..12, a + b <= 12
    PROVE  Pow(a + b) = Pow(a) * Pow(b)
<1> DEFINE T == {c \in 0..(12 - a) : Pow(a + c) # Pow(a) * Pow(c)}
<1> SUFFICES ASSUME T # {}
             PROVE  FALSE
  <2>1. b \in 0..(12 - a)
    OBVIOUS
  <2> QED
    BY <2>1, Zenon
<1>1. PICK c \in T : \A y \in T : c <= y
  <2>1. T \subseteq Nat
    OBVIOUS
  <2> HIDE DEF T
  <2> QED
    BY <2>1, LeastElement
<1>2. c \in 0..(12 - a) /\ Pow(a + c) # Pow(a) * Pow(c)
  BY <1>1
<1>3. Pow(a) \in Nat /\ Pow(0) = 1
  <2>1. Pow(a) \in Nat
    BY PowPositive
  <2>2. Pow(0) = 1
    BY PowersOfTwo DEF Pow
  <2> QED
    BY <2>1, <2>2
<1>4. c # 0
  BY <1>2, <1>3
<1> DEFINE e == c - 1
<1>5. e \in 0..11 /\ e \in 0..12 /\ a + e \in 0..11 /\ a + e \in 0..12
  BY <1>2, <1>4
<1>6. e \in 0..(12 - a) /\ e < c /\ c = e + 1 /\ a + c = (a + e) + 1
  BY <1>2, <1>4
<1>7. Pow(a + e) = Pow(a) * Pow(e)
  BY <1>1, <1>2, <1>6
<1>8. Pow(e + 1) = 2 * Pow(e) /\ Pow((a + e) + 1) = 2 * Pow(a + e)
  BY <1>5, PowStep
<1>9. Pow(e) \in Nat /\ Pow(a + e) \in Nat
  BY <1>5, PowPositive
<1>10. Pow(a + c) = Pow(a) * Pow(c)
  <2> HIDE DEF e
  <2> QED
    BY <1>3, <1>6, <1>7, <1>8, <1>9
<1> QED
  BY <1>2, <1>10

\* Two shifts to the right are one.
LEMMA DivDiv ==
    ASSUME NEW n \in Nat, NEW p \in Nat \ {0}, NEW q \in Nat \ {0}
    PROVE  (n \div p) \div q = n \div (p * q)
OBVIOUS

\* What is shifted out on the right does not matter.
LEMMA DivAdd ==
    ASSUME NEW c \in Nat, NEW r \in Nat, NEW p \in Nat \ {0}
    PROVE  (c * p + r) \div p = c + (r \div p)
OBVIOUS

\* Quotient and remainder.
LEMMA QuotientRemainder ==
    ASSUME NEW n \in Nat, NEW w \in Nat \ {0}
    PROVE  n \div w \in Nat /\ n % w \in 0..(w - 1) /\ n = (n \div w) * w + (n % w)
OBVIOUS

\* A mask on the left leaves the bits on the right.
LEMMA LowBits ==
    ASSUME NEW n \in Nat, NEW p \in Nat \ {0}, NEW q \in Nat \ {0}
    PROVE  ((n % (p * (2 * q))) \div p) % 2 = (n \div p) % 2
<1> DEFINE w == p * (2 * q)
           r == n % w
           c == n \div w
<1>1. w \in Nat \ {0} /\ w = (2 * q) * p
  OBVIOUS
<1>2. c \in Nat /\ r \in 0..(w - 1) /\ n = c * w + r
  <2> HIDE DEF w
  <2> QED
    BY <1>1, QuotientRemainder, Zenon
<1> HIDE DEF c, r, w
<1>3. r \in Nat
  BY <1>1, <1>2
<1>4. c * w = (2 * (c * q)) * p /\ c * q \in Nat /\ 2 * (c * q) \in Nat
  BY <1>1, <1>2
<1>5. ((2 * (c * q)) * p + r) \div p = 2 * (c * q) + (r \div p)
  BY <1>3, <1>4, DivAdd, Zenon
<1>6. n \div p = 2 * (c * q) + (r \div p)
  BY <1>2, <1>4, <1>5, Zenon
<1>7. r \div p \in Nat
  BY <1>3, QuotientRemainder, Zenon
<1>8. (n \div p) % 2 = (r \div p) % 2
  BY <1>4, <1>6, <1>7
<1> QED
  BY <1>8 DEF r, w

\* the b-th bit of a number of w bits, the highest first
Bit(n, w, b) == (n \div Pow(w - b)) % 2

\* Masking to w bits changes none of them.
LEMMA MaskedBit ==
    ASSUME NEW n \in Nat, NEW w \in 1..12, NEW b \in 1..w
    PROVE  Bit(n % Pow(w), w, b) = Bit(n, w, b)
<1>1. w - b \in 0..12 /\ b - 1 \in 0..11 /\ b \in 0..12 /\ (w - b) + b <= 12
  OBVIOUS
<1>2. Pow((w - b) + b) = Pow(w - b) * Pow(b)
  BY <1>1, PowSum
<1>3. Pow((b - 1) + 1) = 2 * Pow(b - 1)
  BY <1>1, PowStep
<1>4. Pow(w - b) \in Nat \ {0} /\ Pow(b - 1) \in Nat \ {0}
  <2>1. b - 1 \in 0..12
    BY <1>1
  <2> QED
    BY <1>1, <2>1, PowPositive
<1>5. (w - b) + b = w /\ (b - 1) + 1 = b
  OBVIOUS
<1>6. Pow(w) = Pow(w - b) * (2 * Pow(b - 1))
  BY <1>2, <1>3, <1>5
<1>7. ((n % (Pow(w - b) * (2 * Pow(b - 1)))) \div Pow(w - b)) % 2 = (n \div Pow(w - b)) % 2
  BY <1>4, LowBits, Zenon
<1> QED
  BY <1>6, <1>7, Zenon DEF Bit

\* A shift to the right by s leaves the bits before the last s.
LEMMA ShiftedBit ==
    ASSUME NEW n \in Nat, NEW w \in 0..12, NEW s \in 0..12, w + s <= 12, NEW b \in 1..w
    PROVE  Bit(n \div Pow(s), w, b) = Bit(n, w + s, b)
<1> DEFINE k == w - b
<1>1. k \in 0..12 /\ s + k <= 12 /\ s + k = (w + s) - b
  OBVIOUS
<1>2. Pow(s + k) = Pow(s) * Pow(k)
  <2> HIDE DEF k
  <2> QED
    BY <1>1, PowSum
<1>3. Pow(s) \in Nat \ {0} /\ Pow(k) \in Nat \ {0}
  BY <1>1, PowPositive
<1>4. (n \div Pow(s)) \div Pow(k) = n \div (Pow(s) * Pow(k))
  BY <1>3, DivDiv, Zenon
<1>5. (n \div Pow(s)) \div Pow(k) = n \div Pow((w + s) - b)
  BY <1>1, <1>2, <1>4, Zenon
<1> QED
  BY <1>5, Zenon DEF Bit

\* A shift to the left by s keeps the bits,
LEMMA EnteredHigh ==
    ASSUME NEW n \in Nat, NEW w \in 0..12, NEW s \in 0..12, w + s <= 12,
           NEW x \in Nat, x < Pow(s), NEW b \in 1..w
    PROVE  Bit(n * Pow(s) + x, w + s, b) = Bit(n, w, b)
<1> DEFINE m == n * Pow(s) + x
<1>1. Pow(s) \in Nat \ {0}
  BY PowPositive
<1>2. m \in Nat
  BY <1>1
<1>3. m \div Pow(s) = n
  <2>1. m \div Pow(s) = n + (x \div Pow(s))
    BY <1>1, DivAdd, Zenon
  <2>2. x \div Pow(s) = 0
    BY <1>1
  <2> QED
    BY <2>1, <2>2
<1> HIDE DEF m
<1>4. Bit(m \div Pow(s), w, b) = Bit(m, w + s, b)
  BY <1>2, ShiftedBit
<1> QED
  BY <1>3, <1>4 DEF m

\* and what is added, of s bits, comes behind them.
LEMMA EnteredLow ==
    ASSUME NEW n \in Nat, NEW w \in 0..12, NEW s \in 0..12, w + s <= 12,
           NEW x \in Nat, NEW b \in 1..s
    PROVE  Bit(n * Pow(s) + x, w + s, w + b) = Bit(x, s, b)
<1> DEFINE m == n * Pow(s) + x
           k == s - b
           h == b - 1
<1>1. k \in 0..12 /\ h \in 0..12 /\ h \in 0..11 /\ k + (h + 1) <= 12 /\ h + 1 \in 0..12
  OBVIOUS
<1>2. k + (h + 1) = s /\ (w + s) - (w + b) = k
  OBVIOUS
<1> HIDE DEF k, h
<1>3. Pow(k + (h + 1)) = Pow(k) * Pow(h + 1) /\ Pow(h + 1) = 2 * Pow(h)
  BY <1>1, PowSum, PowStep
<1>4. Pow(k) \in Nat \ {0} /\ Pow(h) \in Nat \ {0}
  BY <1>1, PowPositive
<1>5. Pow(s) = Pow(k) * (2 * Pow(h))
  BY <1>2, <1>3
<1>6. n * Pow(s) = (2 * (n * Pow(h))) * Pow(k) /\ n * Pow(h) \in Nat
      /\ 2 * (n * Pow(h)) \in Nat
  BY <1>4, <1>5
<1>7. ((2 * (n * Pow(h))) * Pow(k) + x) \div Pow(k) = 2 * (n * Pow(h)) + (x \div Pow(k))
  BY <1>4, <1>6, DivAdd, Zenon
<1>8. m \div Pow(k) = 2 * (n * Pow(h)) + (x \div Pow(k))
  BY <1>6, <1>7, Zenon
<1>9. x \div Pow(k) \in Nat
  BY <1>4, QuotientRemainder, Zenon
<1>10. (m \div Pow(k)) % 2 = (x \div Pow(k)) % 2
  <2> HIDE DEF m
  <2> QED
    BY <1>6, <1>8, <1>9
<1> QED
  BY <1>2, <1>10, Zenon DEF Bit, k

\* Zero has no bit.
LEMMA ZeroBit ==
    ASSUME NEW w \in 0..12, NEW b \in 1..w
    PROVE  Bit(0, w, b) = 0
<1>1. w - b \in 0..12
  OBVIOUS
<1>2. Pow(w - b) \in Nat \ {0}
  BY <1>1, PowPositive
<1> QED
  BY <1>2 DEF Bit

-----------------------------------------------------------------------------
(* The loop of base32encode *)

\* the j-th bit of a sequence of numbers of w bits
BitAt(seq, w, j) == Bit(seq[((j - 1) \div w) + 1], w, ((j - 1) % w) + 1)

\* It is a bit of one of them: of a byte,
LEMMA BitOfByte ==
    ASSUME NEW seq, NEW i \in Nat \ {0}, NEW b \in 1..8
    PROVE  BitAt(seq, 8, 8 * (i - 1) + b) = Bit(seq[i], 8, b)
<1> DEFINE j == 8 * (i - 1) + b
<1>1. ((j - 1) \div 8) + 1 = i /\ ((j - 1) % 8) + 1 = b
  OBVIOUS
<1> HIDE DEF j
<1>2. BitAt(seq, 8, j) = Bit(seq[i], 8, b)
  BY <1>1, Zenon DEF BitAt
<1> QED
  BY <1>2 DEF j

\* or of a digit.
LEMMA BitOfDigit ==
    ASSUME NEW seq, NEW i \in Nat \ {0}, NEW b \in 1..5
    PROVE  BitAt(seq, 5, 5 * (i - 1) + b) = Bit(seq[i], 5, b)
<1> DEFINE j == 5 * (i - 1) + b
<1>1. ((j - 1) \div 5) + 1 = i /\ ((j - 1) % 5) + 1 = b
  OBVIOUS
<1> HIDE DEF j
<1>2. BitAt(seq, 5, j) = Bit(seq[i], 5, b)
  BY <1>1, Zenon DEF BitAt
<1> QED
  BY <1>2 DEF j

\* The digits that were put out and the v valid bits of n are the first t bits
\* of the data.
Tracks(n, v, out, bytes, t) ==
    /\ n \in Nat /\ v \in 0..12 /\ n < Pow(v)
    /\ out \in Seq(0..31)
    /\ 5 * Len(out) + v = t
    /\ \A j \in 1..(5 * Len(out)) : BitAt(out, 5, j) = BitAt(bytes, 8, j)
    /\ \A b \in 1..v : Bit(n, v, b) = BitAt(bytes, 8, 5 * Len(out) + b)

\* x has the 8 bits behind the v bits of n
Entered(n, v, x) ==
    /\ \A b \in 1..v : Bit(n * 256 + x, v + 8, b) = Bit(n, v, b)
    /\ \A b \in 1..8 : Bit(n * 256 + x, v + 8, v + b) = Bit(x, 8, b)

\* That is where a byte enters.
LEMMA ByteEnters ==
    ASSUME NEW n \in Nat, NEW v \in 0..4, NEW x \in 0..255
    PROVE  Entered(n, v, x)
<1>1. Pow(8) = 256
  BY PowersOfTwo DEF Pow
<1>2. v \in 0..12 /\ 8 \in 0..12 /\ v + 8 <= 12 /\ x \in Nat /\ x < Pow(8)
  BY <1>1
<1>3. ASSUME NEW b \in 1..v
      PROVE  Bit(n * Pow(8) + x, v + 8, b) = Bit(n, v, b)
  BY <1>2, EnteredHigh
<1>4. ASSUME NEW b \in 1..8
      PROVE  Bit(n * Pow(8) + x, v + 8, v + b) = Bit(x, 8, b)
  BY <1>2, EnteredLow
<1> QED
  BY <1>1, <1>3, <1>4 DEF Entered

\* With it value is never larger than 12 bits: its shifts do not overflow an
\* unsigned int.
LEMMA ByteTracked ==
    ASSUME NEW bytes, NEW i \in Nat \ {0}, NEW x \in 0..255, bytes[i] = x,
           NEW n \in Nat, NEW v \in 0..4, NEW out, Tracks(n, v, out, bytes, 8 * (i - 1))
    PROVE  Tracks(n * 256 + x, v + 8, out, bytes, 8 * i)
<1> DEFINE len == Len(out)
<1>1. n \in Nat /\ v \in 0..12 /\ n < Pow(v) /\ out \in Seq(0..31) /\ 5 * len + v = 8 * (i - 1)
  BY DEF Tracks
<1>2. len \in Nat /\ v \in 0..4 /\ v + 8 <= 12 /\ v + 8 \in 0..12 /\ 8 \in 0..12 /\ x \in Nat
  BY <1>1
<1>3. n * 256 + x \in Nat /\ n * 256 + x < Pow(v + 8)
  <2>1. Pow(v + 8) = Pow(v) * Pow(8) /\ Pow(v) \in Nat
    BY <1>1, <1>2, PowSum, PowPositive
  <2>2. Pow(8) = 256
    BY PowersOfTwo DEF Pow
  <2> QED
    BY <1>1, <1>2, <2>1, <2>2
<1> HIDE DEF len
<1>4. /\ \A b \in 1..v : Bit(n * 256 + x, v + 8, b) = Bit(n, v, b)
      /\ \A b \in 1..8 : Bit(n * 256 + x, v + 8, v + b) = Bit(x, 8, b)
  <2>1. Entered(n, v, x)
    BY ByteEnters
  <2> QED
    BY <2>1, Zenon DEF Entered
<1>6. ASSUME NEW b \in 1..(v + 8)
      PROVE  Bit(n * 256 + x, v + 8, b) = BitAt(bytes, 8, 5 * len + b)
  <2>1. CASE b <= v
    <3>1. b \in 1..v
      BY <1>1, <2>1
    <3>2. Bit(n, v, b) = BitAt(bytes, 8, 5 * len + b)
      BY <3>1 DEF Tracks, len
    <3>3. Bit(n * 256 + x, v + 8, b) = Bit(n, v, b)
      BY <1>4, <3>1, Zenon
    <3> QED
      BY <3>2, <3>3, Zenon
  <2>2. CASE ~(b <= v)
    <3> DEFINE c == b - v
    <3>1. c \in 1..8 /\ v + c = b /\ 8 * (i - 1) + c = 5 * len + b
      BY <1>1, <1>2, <2>2
    <3> HIDE DEF c
    <3>2. BitAt(bytes, 8, 8 * (i - 1) + c) = Bit(x, 8, c)
      BY <3>1, BitOfByte, Zenon
    <3>3. Bit(n * 256 + x, v + 8, v + c) = Bit(x, 8, c)
      BY <1>4, <3>1, Zenon
    <3> QED
      BY <3>1, <3>2, <3>3, Zenon
  <2> QED
    BY <2>1, <2>2
<1>7. 5 * len + (v + 8) = 8 * i
  BY <1>1, <1>2
<1>8. \A j \in 1..(5 * Len(out)) : BitAt(out, 5, j) = BitAt(bytes, 8, j)
  BY DEF Tracks
<1> QED
  BY <1>1, <1>2, <1>3, <1>6, <1>7, <1>8, Zenon DEF Tracks, len

\* Putting out a digit moves five bits.
LEMMA DigitTracked ==
    ASSUME NEW bytes, NEW t \in Nat, NEW n, NEW v, NEW out, Tracks(n, v, out, bytes, t), v >= 5
    PROVE  Tracks(n % Pow(v - 5), v - 5, Append(out, (n \div Pow(v - 5)) % 32), bytes, t)
<1> DEFINE h == v - 5
           len == Len(out)
           m == n \div Pow(h)
           d == m % 32
           more == Append(out, d)
<1>1. n \in Nat /\ v \in 0..12 /\ out \in Seq(0..31) /\ 5 * len + v = t
  BY DEF Tracks
<1>2. /\ v \in 5..12 /\ h \in 0..7 /\ h \in 0..12 /\ len \in Nat
      /\ 5 + h = v /\ 5 + h <= 12 /\ 5 \in 0..12 /\ 5 \in 1..12
  BY <1>1
<1> HIDE DEF h, len
<1>3. Pow(h) \in Nat \ {0} /\ Pow(5) = 32
  <2>1. Pow(h) \in Nat \ {0}
    BY <1>2, PowPositive
  <2>2. Pow(5) = 32
    BY PowersOfTwo DEF Pow
  <2> QED
    BY <2>1, <2>2
<1>4. m \in Nat /\ n % Pow(h) \in 0..(Pow(h) - 1)
  BY <1>1, <1>3, QuotientRemainder, Zenon
<1> HIDE DEF m
<1>5. n % Pow(h) \in Nat /\ n % Pow(h) < Pow(h) /\ d \in 0..31
  BY <1>3, <1>4
<1>6. ASSUME NEW b \in 1..5
      PROVE  Bit(d, 5, b) = Bit(n, v, b)
  <2>1. Bit(m % Pow(5), 5, b) = Bit(m, 5, b)
    BY <1>2, <1>4, MaskedBit, Zenon
  <2>2. Bit(m, 5, b) = Bit(n, 5 + h, b)
    BY <1>1, <1>2, ShiftedBit, Zenon DEF m
  <2> QED
    BY <1>2, <1>3, <2>1, <2>2, Zenon
<1> HIDE DEF d
<1>7. /\ more \in Seq(0..31) /\ Len(more) = len + 1 /\ more[len + 1] = d
      /\ \A k \in 1..len : more[k] = out[k]
  BY <1>1, <1>2, <1>5 DEF len
<1> HIDE DEF more
<1>8. ASSUME NEW b \in 1..h
      PROVE  Bit(n % Pow(h), h, b) = Bit(n, v, b + 5)
  <2>1. h \in 1..12 /\ h - b = v - (b + 5)
    BY <1>2
  <2>2. Bit(n % Pow(h), h, b) = Bit(n, h, b)
    BY <1>1, <2>1, MaskedBit, Zenon
  <2> QED
    BY <2>1, <2>2, Zenon DEF Bit
<1>9. \A b \in 1..v : Bit(n, v, b) = BitAt(bytes, 8, 5 * len + b)
  BY DEF Tracks, len
<1>10. ASSUME NEW j \in 1..(5 * Len(more))
       PROVE  BitAt(more, 5, j) = BitAt(bytes, 8, j)
  <2> DEFINE k == ((j - 1) \div 5) + 1
             b == ((j - 1) % 5) + 1
  <2>1. k \in 1..(len + 1) /\ b \in 1..5 /\ j = 5 * (k - 1) + b
    BY <1>2, <1>7
  <2>2. BitAt(more, 5, j) = Bit(more[k], 5, b) /\ BitAt(out, 5, j) = Bit(out[k], 5, b)
    BY Zenon DEF BitAt
  <2> HIDE DEF k, b
  <2>3. CASE k = len + 1
    <3>1. b \in 1..v /\ j = 5 * len + b
      BY <1>2, <2>1, <2>3
    <3>2. Bit(d, 5, b) = Bit(n, v, b) /\ Bit(n, v, b) = BitAt(bytes, 8, 5 * len + b)
      BY <1>6, <1>9, <2>1, <3>1, Zenon
    <3> QED
      BY <1>7, <2>2, <2>3, <3>1, <3>2, Zenon
  <2>4. CASE k # len + 1
    <3>1. k \in 1..len /\ j \in 1..(5 * len)
      BY <1>2, <2>1, <2>4
    <3>2. BitAt(out, 5, j) = BitAt(bytes, 8, j)
      BY <3>1 DEF Tracks, len
    <3> QED
      BY <1>7, <2>2, <3>1, <3>2, Zenon
  <2> QED
    BY <2>3, <2>4
<1>11. ASSUME NEW b \in 1..h
       PROVE  Bit(n % Pow(h), h, b) = BitAt(bytes, 8, 5 * Len(more) + b)
  <2>1. b + 5 \in 1..v /\ 5 * len + (b + 5) = 5 * Len(more) + b
    BY <1>2, <1>7
  <2> QED
    BY <1>8, <1>9, <2>1, Zenon
<1>12. 5 * Len(more) + h = t
  BY <1>1, <1>2, <1>7
<1>13. Tracks(n % Pow(h), h, more, bytes, t)
  BY <1>2, <1>5, <1>7, <1>10, <1>11, <1>12, Zenon DEF Tracks
<1> QED
  BY <1>13, Zenon DEF h, more, d, m

\* d has the v bits of n, and zeros behind them.
Filled(n, v, d) ==
    /\ \A b \in 1..v : Bit(d, 5, b) = Bit(n, v, b)
    /\ \A b \in (v + 1)..5 : Bit(d, 5, b) = 0

\* So does the digit of the bits left over.
LEMMA RemainderFilled ==
    ASSUME NEW n \in Nat, NEW v \in 1..4
    PROVE  /\ Filled(n, v, (n * Pow(5 - v)) % 32)
           /\ (n * Pow(5 - v)) % 32 \in 0..31
<1> DEFINE s == 5 - v
           m == n * Pow(s)
           d == m % 32
<1>1. v \in 0..12 /\ s \in 1..4 /\ s \in 0..12 /\ v + s = 5 /\ v + s <= 12
  OBVIOUS
<1> HIDE DEF s
<1>2. Pow(s) \in Nat \ {0}
  BY <1>1, PowPositive
<1>3. Pow(5) = 32
  BY PowersOfTwo DEF Pow
<1>4. m \in Nat /\ 0 \in Nat /\ 0 < Pow(s) /\ m + 0 = m /\ d \in 0..31
  BY <1>2
<1>5. ASSUME NEW b \in 1..5
      PROVE  Bit(d, 5, b) = Bit(m, 5, b)
  <2>1. 5 \in 1..12
    OBVIOUS
  <2>2. Bit(m % Pow(5), 5, b) = Bit(m, 5, b)
    <3> HIDE DEF m
    <3> QED
      BY <1>4, <2>1, MaskedBit, Zenon
  <2> QED
    BY <1>3, <2>2, Zenon
<1>6. ASSUME NEW b \in 1..v
      PROVE  Bit(d, 5, b) = Bit(n, v, b)
  <2>1. b \in 1..5
    OBVIOUS
  <2>2. Bit(n * Pow(s) + 0, v + s, b) = Bit(n, v, b)
    BY <1>1, <1>4, EnteredHigh, Zenon
  <2> QED
    BY <1>1, <1>4, <1>5, <2>1, <2>2, Zenon
<1>7. ASSUME NEW b \in (v + 1)..5
      PROVE  Bit(d, 5, b) = 0
  <2> DEFINE c == b - v
  <2>1. b \in 1..5 /\ c \in 1..s /\ v + c = b
    BY <1>1
  <2> HIDE DEF c
  <2>2. Bit(n * Pow(s) + 0, v + s, v + c) = Bit(0, s, c)
    BY <1>1, <1>4, <2>1, EnteredLow, Zenon
  <2>3. Bit(0, s, c) = 0
    BY <1>1, <2>1, ZeroBit, Zenon
  <2> QED
    BY <1>1, <1>4, <1>5, <2>1, <2>2, <2>3, Zenon
<1> QED
  BY <1>4, <1>6, <1>7, Zenon DEF Filled, s

\* The digits are the bits of the data, and zeros behind them.
Encodes(digits, bytes) ==
    /\ digits \in Seq(0..31)
    /\ 5 * Len(digits) \in (8 * Len(bytes))..(8 * Len(bytes) + 4)
    /\ \A j \in 1..(8 * Len(bytes)) : BitAt(digits, 5, j) = BitAt(bytes, 8, j)
    /\ \A j \in (8 * Len(bytes) + 1)..(5 * Len(digits)) : BitAt(digits, 5, j) = 0

\* When all bytes are put out and no bit is left, the digits are such digits;
LEMMA NoRemainder ==
    ASSUME NEW bytes \in Seq(0..255), NEW n, NEW out, Tracks(n, 0, out, bytes, 8 * Len(bytes))
    PROVE  Encodes(out, bytes)
<1> DEFINE t == 8 * Len(bytes)
<1>1. /\ out \in Seq(0..31) /\ 5 * Len(out) + 0 = t
      /\ \A j \in 1..(5 * Len(out)) : BitAt(out, 5, j) = BitAt(bytes, 8, j)
  BY DEF Tracks
<1>2. t \in Nat /\ Len(out) \in Nat
  BY <1>1
<1> HIDE DEF t
<1>3. 5 * Len(out) = t /\ 5 * Len(out) \in t..(t + 4) /\ (t + 1)..(5 * Len(out)) = {}
  BY <1>1, <1>2
<1> QED
  BY <1>1, <1>3 DEF Encodes, t

\* otherwise they are with the digit of what is left.
LEMMA RemainderEncodes ==
    ASSUME NEW bytes \in Seq(0..255), NEW n, NEW v \in 1..4, NEW out,
           Tracks(n, v, out, bytes, 8 * Len(bytes))
    PROVE  Encodes(Append(out, (n * Pow(5 - v)) % 32), bytes)
<1> DEFINE t == 8 * Len(bytes)
           len == Len(out)
           d == (n * Pow(5 - v)) % 32
           digits == Append(out, d)
<1>1. /\ n \in Nat /\ out \in Seq(0..31) /\ 5 * Len(out) + v = t
      /\ \A j \in 1..(5 * Len(out)) : BitAt(out, 5, j) = BitAt(bytes, 8, j)
      /\ \A b \in 1..v : Bit(n, v, b) = BitAt(bytes, 8, 5 * Len(out) + b)
  BY DEF Tracks
<1>2. t \in Nat /\ len \in Nat /\ 5 * len + v = t
  BY <1>1
<1> HIDE DEF t
<1>3. Filled(n, v, d) /\ d \in 0..31
  BY <1>1, RemainderFilled, Zenon
<1> HIDE DEF d
<1>4. /\ digits \in Seq(0..31) /\ Len(digits) = len + 1 /\ digits[len + 1] = d
      /\ \A k \in 1..len : digits[k] = out[k]
  BY <1>1, <1>3
<1> HIDE DEF digits, len
<1>5. ASSUME NEW j \in 1..(5 * len)
      PROVE  BitAt(digits, 5, j) = BitAt(bytes, 8, j)
  <2> DEFINE k == ((j - 1) \div 5) + 1
             b == ((j - 1) % 5) + 1
  <2>1. k \in 1..len
    BY <1>2
  <2>2. BitAt(digits, 5, j) = Bit(digits[k], 5, b) /\ BitAt(out, 5, j) = Bit(out[k], 5, b)
    BY Zenon DEF BitAt
  <2> HIDE DEF k, b
  <2>3. BitAt(out, 5, j) = BitAt(bytes, 8, j)
    BY <1>1 DEF len
  <2> QED
    BY <1>4, <2>1, <2>2, <2>3, Zenon
<1>6. ASSUME NEW b \in 1..5
      PROVE  BitAt(digits, 5, 5 * len + b) = Bit(d, 5, b)
  <2>1. len + 1 \in Nat \ {0} /\ (len + 1) - 1 = len
    BY <1>2
  <2>2. BitAt(digits, 5, 5 * ((len + 1) - 1) + b) = Bit(digits[len + 1], 5, b)
    BY <2>1, BitOfDigit, Zenon
  <2> QED
    BY <1>4, <2>1, <2>2, Zenon
<1>7. ASSUME NEW j \in 1..t
      PROVE  BitAt(digits, 5, j) = BitAt(bytes, 8, j)
  <2>1. CASE j \in 1..(5 * len)
    BY <1>5, <2>1, Zenon
  <2>2. CASE j \notin 1..(5 * len)
    <3> DEFINE b == j - 5 * len
    <3>1. b \in 1..v /\ b \in 1..5 /\ 5 * len + b = j
      BY <1>2, <2>2
    <3> HIDE DEF b
    <3>2. Bit(d, 5, b) = Bit(n, v, b)
      BY <1>3, <3>1, Zenon DEF Filled
    <3>3. Bit(n, v, b) = BitAt(bytes, 8, 5 * len + b)
      BY <1>1, <3>1, Zenon DEF len
    <3> QED
      BY <1>6, <3>1, <3>2, <3>3, Zenon
  <2> QED
    BY <2>1, <2>2
<1>8. ASSUME NEW j \in (t + 1)..(5 * Len(digits))
      PROVE  BitAt(digits, 5, j) = 0
  <2> DEFINE b == j - 5 * len
  <2>1. b \in (v + 1)..5 /\ b \in 1..5 /\ 5 * len + b = j
    BY <1>2, <1>4
  <2> HIDE DEF b
  <2>2. Bit(d, 5, b) = 0
    BY <1>3, <2>1, Zenon DEF Filled
  <2> QED
    BY <1>6, <2>1, <2>2, Zenon
<1>9. 5 * Len(digits) \in t..(t + 4)
  BY <1>2, <1>4
<1>10. Encodes(digits, bytes)
  BY <1>4, <1>7, <1>8, <1>9, Zenon DEF Encodes, t
<1> QED
  BY <1>10, Zenon DEF digits, d

-----------------------------------------------------------------------------
(* base32decode *)

\* A bit is 0 or 1.
LEMMA BitIsBit ==
    ASSUME NEW n \in Nat, NEW w \in 1..12, NEW b \in 1..w
    PROVE  Bit(n, w, b) \in 0..1
<1> DEFINE p == Pow(w - b)
<1>1. w - b \in 0..12
  OBVIOUS
<1>2. p \in Nat \ {0}
  BY <1>1, PowPositive, Zenon
<1> HIDE DEF p
<1>3. n \div p \in Int
  BY <1>2
<1>4. (n \div p) % 2 \in 0..1
  BY <1>3
<1> QED
  BY <1>4 DEF Bit, p

\* A byte is the sum of its bits,
LEMMA ByteOfBits ==
    ASSUME NEW x \in 0..255
    PROVE  x = Bit(x, 8, 1) * 128 + Bit(x, 8, 2) * 64 + Bit(x, 8, 3) * 32 + Bit(x, 8, 4) * 16
                 + Bit(x, 8, 5) * 8 + Bit(x, 8, 6) * 4 + Bit(x, 8, 7) * 2 + Bit(x, 8, 8)
<1>1. /\ Bit(x, 8, 1) = (x \div 128) % 2 /\ Bit(x, 8, 2) = (x \div 64) % 2
      /\ Bit(x, 8, 3) = (x \div 32) % 2 /\ Bit(x, 8, 4) = (x \div 16) % 2
      /\ Bit(x, 8, 5) = (x \div 8) % 2 /\ Bit(x, 8, 6) = (x \div 4) % 2
      /\ Bit(x, 8, 7) = (x \div 2) % 2 /\ Bit(x, 8, 8) = x % 2
  BY PowersOfTwo DEF Bit, Pow
<1>2. x \div 128 = (x \div 128) % 2
  OBVIOUS
<1>3. x \div 64 = 2 * (x \div 128) + ((x \div 64) % 2)
  OBVIOUS
<1>4. x \div 32 = 2 * (x \div 64) + ((x \div 32) % 2)
  OBVIOUS
<1>5. x \div 16 = 2 * (x \div 32) + ((x \div 16) % 2)
  OBVIOUS
<1>6. x \div 8 = 2 * (x \div 16) + ((x \div 8) % 2)
  OBVIOUS
<1>7. x \div 4 = 2 * (x \div 8) + ((x \div 4) % 2)
  OBVIOUS
<1>8. x \div 2 = 2 * (x \div 4) + ((x \div 2) % 2)
  OBVIOUS
<1>9. x = 2 * (x \div 2) + (x % 2)
  OBVIOUS
<1> QED
  BY <1>1, <1>2, <1>3, <1>4, <1>5, <1>6, <1>7, <1>8, <1>9

\* and so are the parts of a digit that bytes are made of.
LEMMA DigitOfBits ==
    ASSUME NEW d \in 0..31
    PROVE  /\ d = Bit(d, 5, 1) * 16 + Bit(d, 5, 2) * 8 + Bit(d, 5, 3) * 4 + Bit(d, 5, 4) * 2
                    + Bit(d, 5, 5)
           /\ d \div 2 = Bit(d, 5, 1) * 8 + Bit(d, 5, 2) * 4 + Bit(d, 5, 3) * 2 + Bit(d, 5, 4)
           /\ d \div 4 = Bit(d, 5, 1) * 4 + Bit(d, 5, 2) * 2 + Bit(d, 5, 3)
           /\ d \div 8 = Bit(d, 5, 1) * 2 + Bit(d, 5, 2)
           /\ d \div 16 = Bit(d, 5, 1)
           /\ d % 16 = Bit(d, 5, 2) * 8 + Bit(d, 5, 3) * 4 + Bit(d, 5, 4) * 2 + Bit(d, 5, 5)
           /\ d % 8 = Bit(d, 5, 3) * 4 + Bit(d, 5, 4) * 2 + Bit(d, 5, 5)
           /\ d % 4 = Bit(d, 5, 4) * 2 + Bit(d, 5, 5)
           /\ d % 2 = Bit(d, 5, 5)
<1>1. /\ Bit(d, 5, 1) = (d \div 16) % 2 /\ Bit(d, 5, 2) = (d \div 8) % 2
      /\ Bit(d, 5, 3) = (d \div 4) % 2 /\ Bit(d, 5, 4) = (d \div 2) % 2
      /\ Bit(d, 5, 5) = d % 2
  BY PowersOfTwo DEF Bit, Pow
<1>2. d \div 16 = (d \div 16) % 2
  OBVIOUS
<1>3. d \div 8 = 2 * (d \div 16) + ((d \div 8) % 2)
  OBVIOUS
<1>4. d \div 4 = 2 * (d \div 8) + ((d \div 4) % 2)
  OBVIOUS
<1>5. d \div 2 = 2 * (d \div 4) + ((d \div 2) % 2)
  OBVIOUS
<1>6. d = 2 * (d \div 2) + (d % 2)
  OBVIOUS
<1>7. d = Bit(d, 5, 1) * 16 + Bit(d, 5, 2) * 8 + Bit(d, 5, 3) * 4 + Bit(d, 5, 4) * 2
            + Bit(d, 5, 5)
  BY <1>1, <1>2, <1>3, <1>4, <1>5, <1>6
<1>8. /\ Bit(d, 5, 1) \in 0..1 /\ Bit(d, 5, 2) \in 0..1 /\ Bit(d, 5, 3) \in 0..1
      /\ Bit(d, 5, 4) \in 0..1 /\ Bit(d, 5, 5) \in 0..1 /\ d \in Int
  BY <1>1
<1> DEFINE b1 == Bit(d, 5, 1)
           b2 == Bit(d, 5, 2)
           b3 == Bit(d, 5, 3)
           b4 == Bit(d, 5, 4)
           b5 == Bit(d, 5, 5)
<1>9. /\ d = b1 * 16 + b2 * 8 + b3 * 4 + b4 * 2 + b5
      /\ b1 \in 0..1 /\ b2 \in 0..1 /\ b3 \in 0..1 /\ b4 \in 0..1 /\ b5 \in 0..1
  BY <1>7, <1>8
<1> HIDE DEF b1, b2, b3, b4, b5
<1>10. d \div 2 = b1 * 8 + b2 * 4 + b3 * 2 + b4 /\ d % 2 = b5
  BY <1>9
<1>11. d \div 4 = b1 * 4 + b2 * 2 + b3 /\ d % 4 = b4 * 2 + b5
  BY <1>9
<1>12. d \div 8 = b1 * 2 + b2 /\ d % 8 = b3 * 4 + b4 * 2 + b5
  BY <1>9
<1>13. d \div 16 = b1 /\ d % 16 = b2 * 8 + b3 * 4 + b4 * 2 + b5
  BY <1>9
<1> QED
  BY <1>7, <1>10, <1>11, <1>12, <1>13, Zenon DEF b1, b2, b3, b4, b5

\* A group of 8 digits decodes to the 5 bytes that it encodes.
LEMMA GroupDecodes ==
    ASSUME NEW bytes \in Seq(0..255), NEW digits, Encodes(digits, bytes),
           NEW k \in 1..Len(bytes)
    PROVE  GroupByte(digits, ((k - 1) \div 5) * 8, ((k - 1) % 5) + 1) = bytes[k]
<1> DEFINE n == Len(bytes)
           len == Len(digits)
           i == ((k - 1) \div 5) * 8
           c == (k - 1) % 5
           x == bytes[k]
<1>1. n \in Nat /\ x \in 0..255
  <2> DEFINE B == 0..255
  <2>1. bytes \in Seq(B)
    OBVIOUS
  <2> HIDE DEF B
  <2>2. n \in Nat /\ x \in B
    BY <2>1
  <2> QED
    BY <2>2 DEF B
<1>2. len \in Nat /\ \A a \in 1..len : digits[a] \in 0..31
  <2> DEFINE B == 0..31
  <2>1. digits \in Seq(B)
    BY DEF Encodes
  <2> HIDE DEF B
  <2>2. len \in Nat /\ \A a \in 1..len : digits[a] \in B
    BY <2>1
  <2> QED
    BY <2>2 DEF B
<1>3. 8 * n <= 5 * len
  BY <1>1, <1>2 DEF Encodes
<1>4. \A j \in 1..(8 * n) : BitAt(digits, 5, j) = BitAt(bytes, 8, j)
  BY DEF Encodes
<1>5. k \in Nat \ {0} /\ k <= n
  BY <1>1
<1>6. i \in Nat /\ c \in 0..4 /\ 8 * (k - 1) = 5 * i + 8 * c
  BY <1>5
<1> HIDE DEF n, len, i, c, x
<1>7. ASSUME NEW a \in Nat \ {0}, NEW e \in 1..5, NEW b \in 1..8,
             5 * (a - 1) + e = 8 * (k - 1) + b
      PROVE  Bit(digits[a], 5, e) = Bit(x, 8, b) /\ digits[a] \in 0..31
  <2> DEFINE j == 8 * (k - 1) + b
  <2>1. j \in 1..(8 * n)
    BY <1>1, <1>5
  <2>2. BitAt(digits, 5, 5 * (a - 1) + e) = Bit(digits[a], 5, e)
    BY BitOfDigit, Zenon
  <2>3. BitAt(bytes, 8, 8 * (k - 1) + b) = Bit(x, 8, b)
    BY <1>5, BitOfByte, Zenon DEF x
  <2>4. BitAt(digits, 5, j) = BitAt(bytes, 8, j)
    <3> HIDE DEF j
    <3> QED
      BY <1>4, <2>1, Zenon
  <2>5. a \in 1..len
    BY <1>1, <1>2, <1>3, <1>5, <1>7
  <2> QED
    BY <1>2, <1>7, <2>2, <2>3, <2>4, <2>5, Zenon
<1>8. \A b \in 1..8 : Bit(x, 8, b) \in 0..1
  <2>1. x \in Nat /\ 8 \in 1..12
    BY <1>1
  <2> QED
    BY <2>1, BitIsBit, Zenon
<1> DEFINE x1 == Bit(x, 8, 1)
           x2 == Bit(x, 8, 2)
           x3 == Bit(x, 8, 3)
           x4 == Bit(x, 8, 4)
           x5 == Bit(x, 8, 5)
           x6 == Bit(x, 8, 6)
           x7 == Bit(x, 8, 7)
           x8 == Bit(x, 8, 8)
<1>9. /\ x = x1 * 128 + x2 * 64 + x3 * 32 + x4 * 16 + x5 * 8 + x6 * 4 + x7 * 2 + x8
      /\ x1 \in 0..1 /\ x2 \in 0..1 /\ x3 \in 0..1 /\ x4 \in 0..1
      /\ x5 \in 0..1 /\ x6 \in 0..1 /\ x7 \in 0..1 /\ x8 \in 0..1
  <2>1. x = x1 * 128 + x2 * 64 + x3 * 32 + x4 * 16 + x5 * 8 + x6 * 4 + x7 * 2 + x8
    BY <1>1, ByteOfBits, Zenon
  <2>2. /\ 1 \in 1..8 /\ 2 \in 1..8 /\ 3 \in 1..8 /\ 4 \in 1..8
        /\ 5 \in 1..8 /\ 6 \in 1..8 /\ 7 \in 1..8 /\ 8 \in 1..8
    OBVIOUS
  <2> QED
    BY <1>8, <2>1, <2>2, Zenon
<1> SUFFICES GroupByte(digits, i, c + 1) = x
  BY DEF i, c, x
<1>10. CASE c = 0
  <2>1. GroupByte(digits, i, 1) = digits[i + 1] * 8 + (digits[i + 2] \div 4)
    BY DEF GroupByte
  <2>2. /\ Bit(digits[i + 1], 5, 1) = x1 /\ Bit(digits[i + 1], 5, 2) = x2
        /\ Bit(digits[i + 1], 5, 3) = x3 /\ Bit(digits[i + 1], 5, 4) = x4
        /\ Bit(digits[i + 1], 5, 5) = x5 /\ digits[i + 1] \in 0..31
    BY <1>6, <1>7, <1>10
  <2>3. digits[i + 1] = x1 * 16 + x2 * 8 + x3 * 4 + x4 * 2 + x5
    BY <2>2, DigitOfBits, Zenon
  <2>4. /\ Bit(digits[i + 2], 5, 1) = x6 /\ Bit(digits[i + 2], 5, 2) = x7
        /\ Bit(digits[i + 2], 5, 3) = x8 /\ digits[i + 2] \in 0..31
    BY <1>6, <1>7, <1>10
  <2>5. digits[i + 2] \div 4 = x6 * 4 + x7 * 2 + x8
    BY <2>4, DigitOfBits, Zenon
  <2> HIDE DEF x1, x2, x3, x4, x5, x6, x7, x8
  <2>6. digits[i + 1] * 8 + (digits[i + 2] \div 4) = x
    BY <1>9, <2>3, <2>5
  <2> QED
    BY <1>10, <2>1, <2>6
<1>11. CASE c = 1
  <2>1. GroupByte(digits, i, 2) = (digits[i + 2] % 4) * 64 + digits[i + 3] * 2
                                    + (digits[i + 4] \div 16)
    BY DEF GroupByte
  <2>2. /\ Bit(digits[i + 2], 5, 4) = x1 /\ Bit(digits[i + 2], 5, 5) = x2
        /\ digits[i + 2] \in 0..31
    BY <1>6, <1>7, <1>11
  <2>3. digits[i + 2] % 4 = x1 * 2 + x2
    BY <2>2, DigitOfBits, Zenon
  <2>4. /\ Bit(digits[i + 3], 5, 1) = x3 /\ Bit(digits[i + 3], 5, 2) = x4
        /\ Bit(digits[i + 3], 5, 3) = x5 /\ Bit(digits[i + 3], 5, 4) = x6
        /\ Bit(digits[i + 3], 5, 5) = x7 /\ digits[i + 3] \in 0..31
    BY <1>6, <1>7, <1>11
  <2>5. digits[i + 3] = x3 * 16 + x4 * 8 + x5 * 4 + x6 * 2 + x7
    BY <2>4, DigitOfBits, Zenon
  <2>6. /\ Bit(digits[i + 4], 5, 1) = x8 /\ digits[i + 4] \in 0..31
    BY <1>6, <1>7, <1>11
  <2>7. digits[i + 4] \div 16 = x8
    BY <2>6, DigitOfBits, Zenon
  <2> HIDE DEF x1, x2, x3, x4, x5, x6, x7, x8
  <2>8. (digits[i + 2] % 4) * 64 + digits[i + 3] * 2 + (digits[i + 4] \div 16) = x
    BY <1>9, <2>3, <2>5, <2>7
  <2> QED
    BY <1>11, <2>1, <2>8
<1>12. CASE c = 2
  <2>1. GroupByte(digits, i, 3) = (digits[i + 4] % 16) * 16 + (digits[i + 5] \div 2)
    BY DEF GroupByte
  <2>2. /\ Bit(digits[i + 4], 5, 2) = x1 /\ Bit(digits[i + 4], 5, 3) = x2
        /\ Bit(digits[i + 4], 5, 4) = x3 /\ Bit(digits[i + 4], 5, 5) = x4
        /\ digits[i + 4] \in 0..31
    BY <1>6, <1>7, <1>12
  <2>3. digits[i + 4] % 16 = x1 * 8 + x2 * 4 + x3 * 2 + x4
    BY <2>2, DigitOfBits, Zenon
  <2>4. /\ Bit(digits[i + 5], 5, 1) = x5 /\ Bit(digits[i + 5], 5, 2) = x6
        /\ Bit(digits[i + 5], 5, 3) = x7 /\ Bit(digits[i + 5], 5, 4) = x8
        /\ digits[i + 5] \in 0..31
    BY <1>6, <1>7, <1>12
  <2>5. digits[i + 5] \div 2 = x5 * 8 + x6 * 4 + x7 * 2 + x8
    BY <2>4, DigitOfBits, Zenon
  <2> HIDE DEF x1, x2, x3, x4, x5, x6, x7, x8
  <2>6. (digits[i + 4] % 16) * 16 + (digits[i + 5] \div 2) = x
    BY <1>9, <2>3, <2>5
  <2> QED
    BY <1>12, <2>1, <2>6
<1>13. CASE c = 3
  <2>1. GroupByte(digits, i, 4) = (digits[i + 5] % 2) * 128 + digits[i + 6] * 4
                                    + (digits[i + 7] \div 8)
    BY DEF GroupByte
  <2>2. /\ Bit(digits[i + 5], 5, 5) = x1 /\ digits[i + 5] \in 0..31
    BY <1>6, <1>7, <1>13
  <2>3. digits[i + 5] % 2 = x1
    BY <2>2, DigitOfBits, Zenon
  <2>4. /\ Bit(digits[i + 6], 5, 1) = x2 /\ Bit(digits[i + 6], 5, 2) = x3
        /\ Bit(digits[i + 6], 5, 3) = x4 /\ Bit(digits[i + 6], 5, 4) = x5
        /\ Bit(digits[i + 6], 5, 5) = x6 /\ digits[i + 6] \in 0..31
    BY <1>6, <1>7, <1>13
  <2>5. digits[i + 6] = x2 * 16 + x3 * 8 + x4 * 4 + x5 * 2 + x6
    BY <2>4, DigitOfBits, Zenon
  <2>6. /\ Bit(digits[i + 7], 5, 1) = x7 /\ Bit(digits[i + 7], 5, 2) = x8
        /\ digits[i + 7] \in 0..31
    BY <1>6, <1>7, <1>13
  <2>7. digits[i + 7] \div 8 = x7 * 2 + x8
    BY <2>6, DigitOfBits, Zenon
  <2> HIDE DEF x1, x2, x3, x4, x5, x6, x7, x8
  <2>8. (digits[i + 5] % 2) * 128 + digits[i + 6] * 4 + (digits[i + 7] \div 8) = x
    BY <1>9, <2>3, <2>5, <2>7
  <2> QED
    BY <1>13, <2>1, <2>8
<1>14. CASE c = 4
  <2>1. GroupByte(digits, i, 5) = (digits[i + 7] % 8) * 32 + digits[i + 8]
    BY DEF GroupByte
  <2>2. /\ Bit(digits[i + 7], 5, 3) = x1 /\ Bit(digits[i + 7], 5, 4) = x2
        /\ Bit(digits[i + 7], 5, 5) = x3 /\ digits[i + 7] \in 0..31
    BY <1>6, <1>7, <1>14
  <2>3. digits[i + 7] % 8 = x1 * 4 + x2 * 2 + x3
    BY <2>2, DigitOfBits, Zenon
  <2>4. /\ Bit(digits[i + 8], 5, 1) = x4 /\ Bit(digits[i + 8], 5, 2) = x5
        /\ Bit(digits[i + 8], 5, 3) = x6 /\ Bit(digits[i + 8], 5, 4) = x7
        /\ Bit(digits[i + 8], 5, 5) = x8 /\ digits[i + 8] \in 0..31
    BY <1>6, <1>7, <1>14
  <2>5. digits[i + 8] = x4 * 16 + x5 * 8 + x6 * 4 + x7 * 2 + x8
    BY <2>4, DigitOfBits, Zenon
  <2> HIDE DEF x1, x2, x3, x4, x5, x6, x7, x8
  <2>6. (digits[i + 7] % 8) * 32 + digits[i + 8] = x
    BY <1>9, <2>3, <2>5
  <2> QED
    BY <1>14, <2>1, <2>6
<1> QED
  BY <1>6, <1>10, <1>11, <1>12, <1>13, <1>14

-----------------------------------------------------------------------------
(* The bits of a sequence, as EncodesBits states them *)

\* where the bits of the number after the i-th begin, in numbers of w bits
Upto(w, i) == w * i

\* Each number adds w bits.
LEMMA UptoNext ==
    ASSUME NEW w \in {5, 8}, NEW i \in Nat \ {0}
    PROVE  /\ Upto(w, i) \in Nat /\ Upto(w, i - 1) \in Nat
           /\ Upto(w, i) = Upto(w, i - 1) + w
           /\ i = 1 => Upto(w, i - 1) = 0
<1>1. CASE w = 5
  BY <1>1 DEF Upto
<1>2. CASE w = 8
  BY <1>2 DEF Upto
<1> QED
  BY <1>1, <1>2

\* Its bits are those of BitAt from there on.
LEMMA BitOfNumber ==
    ASSUME NEW seq, NEW w \in {5, 8}, NEW i \in Nat \ {0}, NEW b \in 1..w
    PROVE  BitAt(seq, w, Upto(w, i - 1) + b) = Bit(seq[i], w, b)
<1>1. CASE w = 5
  BY <1>1, BitOfDigit, Zenon DEF Upto
<1>2. CASE w = 8
  BY <1>2, BitOfByte, Zenon DEF Upto
<1> QED
  BY <1>1, <1>2

\* the bits of the i-th number
Row(seq, w, i) == [b \in 1..w |-> Bit(seq[i], w, b)]

\* the first i of the numbers, joined
RowsJoined(s, seq, w, i) ==
    /\ s \in Seq({0, 1}) /\ Len(s) = Upto(w, i)
    /\ \A j \in 1..Upto(w, i) : s[j] = BitAt(seq, w, j)

\* They are w zeros and ones.
LEMMA RowIsBits ==
    ASSUME NEW seq, NEW w \in {5, 8}, NEW i, seq[i] \in Nat
    PROVE  /\ Row(seq, w, i) \in Seq({0, 1}) /\ Len(Row(seq, w, i)) = w
           /\ \A b \in 1..w : Row(seq, w, i)[b] = Bit(seq[i], w, b)
<1>1. w \in Nat /\ w \in 1..12
  OBVIOUS
<1>2. \A b \in 1..w : Bit(seq[i], w, b) \in {0, 1}
  <2> TAKE b \in 1..w
  <2>1. Bit(seq[i], w, b) \in 0..1
    BY <1>1, BitIsBit, Zenon
  <2> QED
    BY <2>1
<1> QED
  BY <1>1, <1>2 DEF Row

\* One more number adds its bits.
LEMMA RowAdded ==
    ASSUME NEW seq, NEW w \in {5, 8}, NEW i \in Nat \ {0}, seq[i] \in Nat,
           NEW s, RowsJoined(s, seq, w, i - 1)
    PROVE  RowsJoined(s \o Row(seq, w, i), seq, w, i)
<1> DEFINE u == Upto(w, i - 1)
           t == Upto(w, i)
           row == Row(seq, w, i)
           joined == s \o row
<1>1. u \in Nat /\ t = u + w /\ w \in Nat
  BY UptoNext
<1>2. s \in Seq({0, 1}) /\ Len(s) = u /\ \A j \in 1..u : s[j] = BitAt(seq, w, j)
  BY DEF RowsJoined
<1>3. row \in Seq({0, 1}) /\ Len(row) = w /\ \A b \in 1..w : row[b] = Bit(seq[i], w, b)
  <2>1. row \in Seq({0, 1}) /\ Len(row) = w
    BY RowIsBits, Zenon
  <2>2. \A b \in 1..w : row[b] = Bit(seq[i], w, b)
    BY Zenon DEF Row
  <2> QED
    BY <2>1, <2>2
<1> HIDE DEF row, u, t
<1>4. joined \in Seq({0, 1}) /\ Len(joined) = t
  BY <1>1, <1>2, <1>3
<1>5. /\ \A j \in 1..u : joined[j] = s[j]
      /\ \A b \in 1..w : joined[u + b] = row[b]
  BY <1>1, <1>2, <1>3
<1> HIDE DEF joined
<1>6. ASSUME NEW j \in 1..t
      PROVE  joined[j] = BitAt(seq, w, j)
  <2>1. CASE j \in 1..u
    BY <1>2, <1>5, <2>1, Zenon
  <2>2. CASE j \notin 1..u
    <3> DEFINE b == j - u
    <3>1. b \in 1..w /\ j = u + b
      BY <1>1, <2>2
    <3> HIDE DEF b
    <3>2. BitAt(seq, w, u + b) = Bit(seq[i], w, b)
      BY <3>1, BitOfNumber, Zenon DEF u
    <3> QED
      BY <1>3, <1>5, <3>1, <3>2, Zenon
  <2> QED
    BY <2>1, <2>2
<1> QED
  BY <1>4, <1>6, Zenon DEF RowsJoined, t, joined, row

\* BitsOf lists what BitAt says, for digits and for bytes.
LEMMA BitsJoined ==
    ASSUME NEW seq \in Seq(Nat), NEW w \in {5, 8}
    PROVE  RowsJoined(BitsOf(seq, w), seq, w, Len(seq))
<1> DEFINE n == Len(seq)
           rows == [i \in 1..n |-> Row(seq, w, i)]
           C == Seq({0, 1})
<1>1. n \in Nat /\ (\A i \in 1..n : seq[i] \in Nat) /\ DOMAIN seq = 1..n
  OBVIOUS
<1>2. BitsOf(seq, w) = FlattenSeq(rows)
  BY <1>1, Zenon DEF BitsOf, Row, Bit, Pow
<1>3. \A i \in 1..n : Row(seq, w, i) \in C
  BY <1>1, RowIsBits, Zenon
<1> HIDE DEF n, C
<1>4. rows \in Seq(C) /\ Len(rows) = n /\ \A i \in 1..n : rows[i] = Row(seq, w, i)
  BY <1>1, <1>3
<1>5. RowsJoined(<<>>, seq, w, 0)
  <2>1. Upto(w, 0) = 0
    BY UptoNext DEF Upto
  <2> QED
    BY <2>1 DEF RowsJoined
<1>6. CASE n = 0
  <2>1. rows = <<>>
    BY <1>4, <1>6
  <2>2. FlattenSeq(rows) = rows
    BY <1>4, <1>6, Zenon DEF FlattenSeq
  <2> QED
    BY <1>2, <1>5, <1>6, <2>1, <2>2, Zenon DEF n
<1>7. CASE n # 0
  <2> HIDE DEF rows
  <2>1. PICK g : Joins(rows, n, g)
    BY <1>1, JoinsExists
  <2>2. rows # <<>>
    BY <1>4, <1>7
  <2>3. FlattenSeq(rows) = g[n]
    BY <1>4, <2>1, <2>2, FlattenJoins, Zenon
  <2>4. \A i \in 1..n : g[i] = IF i = 1 THEN rows[i] ELSE g[i - 1] \o rows[i]
    BY <1>1, <2>1, JoinsValues, Zenon
  <2> DEFINE T == {i \in 1..n : ~RowsJoined(g[i], seq, w, i)}
  <2>5. T = {}
    <3> SUFFICES ASSUME T # {}
                 PROVE  FALSE
      BY Zenon
    <3>1. PICK m \in T : \A k \in T : m <= k
      <4>1. T \subseteq Nat
        BY <1>1
      <4> HIDE DEF T
      <4> QED
        BY <4>1, LeastElement
    <3>2. m \in 1..n /\ ~RowsJoined(g[m], seq, w, m)
      BY <3>1, Zenon
    <3>3. m \in Nat \ {0} /\ seq[m] \in Nat
      BY <1>1, <3>2
    <3>4. CASE m = 1
      <4>1. g[m] = Row(seq, w, m)
        BY <1>4, <2>4, <3>2, <3>4, Zenon
      <4>2. Row(seq, w, m) = <<>> \o Row(seq, w, m)
        BY <3>3, RowIsBits
      <4>3. RowsJoined(<<>>, seq, w, m - 1)
        <5>1. m - 1 = 0
          BY <3>4
        <5> QED
          BY <1>5, <5>1, Zenon
      <4>4. RowsJoined(<<>> \o Row(seq, w, m), seq, w, m)
        BY <3>3, <4>3, RowAdded, Zenon
      <4> QED
        BY <3>2, <4>1, <4>2, <4>4, Zenon
    <3>5. CASE m # 1
      <4>1. m - 1 \in 1..n /\ ~(m <= m - 1)
        BY <1>1, <3>2, <3>5
      <4>2. RowsJoined(g[m - 1], seq, w, m - 1)
        BY <3>1, <4>1, Zenon
      <4>3. RowsJoined(g[m - 1] \o Row(seq, w, m), seq, w, m)
        BY <3>3, <4>2, RowAdded, Zenon
      <4>4. g[m] = g[m - 1] \o Row(seq, w, m)
        BY <1>4, <2>4, <3>2, <3>5, Zenon
      <4> QED
        BY <3>2, <4>3, <4>4, Zenon
    <3> QED
      BY <3>4, <3>5
  <2>6. n \in 1..n
    BY <1>1, <1>7
  <2>7. RowsJoined(g[n], seq, w, n)
    BY <2>5, <2>6, Zenon
  <2> QED
    BY <1>2, <2>3, <2>7, Zenon DEF n
<1> QED
  BY <1>6, <1>7

-----------------------------------------------------------------------------
(* What a call gives *)

\* The number of digits is what base32decode finds the number of bytes from.
LEMMA LengthDecoded ==
    ASSUME NEW n \in Nat, NEW len \in Nat, 5 * len \in (8 * n)..(8 * n + 4)
    PROVE  /\ len = (8 * n + 4) \div 5 /\ len % 8 \in {0, 2, 4, 5, 7}
           /\ (len \div 8) * 5 + Extra(len % 8) = n
<1>1. len = (8 * n + 4) \div 5
  OBVIOUS
<1> DEFINE q == n \div 5
           r == n % 5
<1>2. q \in Nat /\ r \in 0..4 /\ n = 5 * q + r
  OBVIOUS
<1> HIDE DEF q, r
<1>3. CASE r = 0
  <2>1. len = 8 * q
    BY <1>2, <1>3
  <2>2. len % 8 = 0 /\ len \div 8 = q
    BY <1>2, <2>1
  <2>3. Extra(0) = 0
    BY DEF Extra
  <2> QED
    BY <1>1, <1>2, <1>3, <2>2, <2>3
<1>4. CASE r = 1
  <2>1. len = 8 * q + 2
    BY <1>2, <1>4
  <2>2. len % 8 = 2 /\ len \div 8 = q
    BY <1>2, <2>1
  <2> QED
    BY <1>1, <1>2, <1>4, <2>2 DEF Extra
<1>5. CASE r = 2
  <2>1. len = 8 * q + 4
    BY <1>2, <1>5
  <2>2. len % 8 = 4 /\ len \div 8 = q
    BY <1>2, <2>1
  <2> QED
    BY <1>1, <1>2, <1>5, <2>2 DEF Extra
<1>6. CASE r = 3
  <2>1. len = 8 * q + 5
    BY <1>2, <1>6
  <2>2. len % 8 = 5 /\ len \div 8 = q
    BY <1>2, <2>1
  <2> QED
    BY <1>1, <1>2, <1>6, <2>2 DEF Extra
<1>7. CASE r = 4
  <2>1. len = 8 * q + 7
    BY <1>2, <1>7
  <2>2. len % 8 = 7 /\ len \div 8 = q
    BY <1>2, <2>1
  <2> QED
    BY <1>1, <1>2, <1>7, <2>2 DEF Extra
<1> QED
  BY <1>2, <1>3, <1>4, <1>5, <1>6, <1>7

\* base32decode gives back the bytes that digits encode, if there is room.
LEMMA Decoded ==
    ASSUME NEW bytes \in Seq(0..255), NEW digits, Encodes(digits, bytes)
    PROVE  /\ base32decode(digits, Len(bytes)) = bytes
           /\ bytes # <<>> => base32decode(digits, Len(bytes) - 1) = Throws
<1> DEFINE n == Len(bytes)
           len == Len(digits)
           byte(k) == GroupByte(digits, ((k - 1) \div 5) * 8, ((k - 1) % 5) + 1)
<1>1. n \in Nat /\ len \in Nat /\ 5 * len \in (8 * n)..(8 * n + 4)
  BY DEF Encodes
<1>2. len % 8 \in {0, 2, 4, 5, 7} /\ (len \div 8) * 5 + Extra(len % 8) = n
  <2> HIDE DEF n, len
  <2> QED
    BY <1>1, LengthDecoded
<1>3. \A k \in 1..n : byte(k) = bytes[k]
  BY GroupDecodes, Zenon
<1>4. bytes = [k \in 1..n |-> bytes[k]]
  OBVIOUS
<1>5. [k \in 1..n |-> byte(k)] = bytes
  <2> HIDE DEF byte, n
  <2> QED
    BY <1>3, <1>4
<1>6. ~(n < n) /\ n - 1 < n
  BY <1>1
<1>7. base32decode(digits, n) = [k \in 1..n |-> byte(k)]
  BY <1>2, <1>6, Zenon DEF base32decode
<1>8. base32decode(digits, n - 1) = Throws
  BY <1>2, <1>6, Zenon DEF base32decode
<1> QED
  BY <1>5, <1>7, <1>8, Zenon

\* A sequence is one over any larger set.
LEMMA SeqWidens ==
    ASSUME NEW A, NEW B, A \subseteq B, NEW s \in Seq(A)
    PROVE  s \in Seq(B)
OBVIOUS

\* Digits that encode the data have its bits.
LEMMA BitsEncoded ==
    ASSUME NEW bytes \in Seq(0..255), NEW digits, Encodes(digits, bytes)
    PROVE  /\ SubSeq(BitsOf(digits, 5), 1, 8 * Len(bytes)) = BitsOf(bytes, 8)
           /\ \A j \in (8 * Len(bytes) + 1)..Len(BitsOf(digits, 5)) : BitsOf(digits, 5)[j] = 0
<1> DEFINE n == 8 * Len(bytes)
           len == 5 * Len(digits)
           coded == BitsOf(digits, 5)
           bits == BitsOf(bytes, 8)
<1>1. bytes \in Seq(Nat) /\ digits \in Seq(Nat) /\ n \in Nat /\ len \in n..(n + 4)
  <2>1. 0..255 \subseteq Nat /\ 0..31 \subseteq Nat
    OBVIOUS
  <2>2. digits \in Seq(0..31) /\ n \in Nat /\ len \in n..(n + 4)
    BY DEF Encodes
  <2> QED
    BY <2>1, <2>2, SeqWidens, Zenon
<1>2. /\ \A j \in 1..n : BitAt(digits, 5, j) = BitAt(bytes, 8, j)
      /\ \A j \in (n + 1)..len : BitAt(digits, 5, j) = 0
  BY Zenon DEF Encodes
<1>3. RowsJoined(coded, digits, 5, Len(digits)) /\ RowsJoined(bits, bytes, 8, Len(bytes))
  BY <1>1, BitsJoined
<1>4. /\ coded \in Seq({0, 1}) /\ Len(coded) = len /\ bits \in Seq({0, 1}) /\ Len(bits) = n
      /\ \A j \in 1..len : coded[j] = BitAt(digits, 5, j)
      /\ \A j \in 1..n : bits[j] = BitAt(bytes, 8, j)
  BY <1>3 DEF RowsJoined, Upto
<1> HIDE DEF n, len, coded, bits
<1>5. \A j \in 1..n : j \in 1..len
  BY <1>1
<1>6. \A j \in 1..n : coded[j] = bits[j]
  BY <1>2, <1>4, <1>5, Zenon
<1> DEFINE first == SubSeq(coded, 1, n)
<1>7. first = bits
  <2>1. first \in Seq({0, 1}) /\ Len(first) = n /\ \A j \in 1..n : first[j] = coded[j]
    BY <1>1, <1>4
  <2> HIDE DEF first
  <2>2. first = [j \in 1..n |-> first[j]] /\ bits = [j \in 1..n |-> bits[j]]
    BY <1>4, <2>1
  <2>3. \A j \in 1..n : first[j] = bits[j]
    BY <1>6, <2>1, Zenon
  <2> QED
    BY <2>2, <2>3
<1>8. \A j \in (n + 1)..Len(coded) : coded[j] = 0
  <2>1. \A j \in (n + 1)..len : j \in 1..len
    BY <1>1
  <2> QED
    BY <1>2, <1>4, <2>1, Zenon
<1> QED
  BY <1>7, <1>8, Zenon DEF n, coded, bits

-----------------------------------------------------------------------------
(* The specification of a call *)

\* The digits written and the bits in value are those of the bytes taken, or
\* with the remainder those of all of them; outLen and what is written make up
\* the buffer; and base32encode ends with the NUL behind the digits, or throws
\* when they and the NUL would not fit.
SafeNames ==
    /\ data \in Seq(0..255) /\ capacity \in 0..SizeMax /\ taken \in 0..Len(data)
    /\ status \in {"bytes", "end", "done", "throws"}
    /\ status = "bytes" => Tracks(value, validBits, outString, data, 8 * taken)
    /\ status = "end" => Encodes(outString, data)
    /\ status \in {"bytes", "end"} => outLen \in Nat /\ Len(outString) + outLen = capacity
    /\ status = "throws" =>
           Len(outString) <= capacity /\ capacity <= (8 * Len(data) + 4) \div 5
    /\ status = "done" =>
           /\ Len(outString) <= capacity
           /\ \E digits : Encodes(digits, data) /\ outString = Append(digits, Terminator)

\* Nothing is written and nothing counted at first.
LEMMA InitNames == EncodeInit => SafeNames
<1> SUFFICES ASSUME EncodeInit
             PROVE  SafeNames
  OBVIOUS
<1>1. PICK n \in 0..MaxId : data \in [1..n -> IdByte]
  BY DEF EncodeInit
<1>2. MaxId \in Nat /\ IdByte \subseteq 0..255 /\ SizeMax \in Nat
  BY Base32Assumption
<1>3. data \in Seq(0..255)
  <2>1. data \in Seq(IdByte)
    BY <1>1, <1>2
  <2> QED
    BY <1>2, <2>1, SeqWidens, Zenon
<1>4. 0 \in 0..Len(data) /\ 8 * 0 = 0
  BY <1>3
<1>5. Tracks(0, 0, <<>>, data, 0)
  <2>1. Pow(0) = 1
    BY PowersOfTwo DEF Pow
  <2> QED
    BY <2>1 DEF Tracks
<1>6. /\ capacity \in 0..SizeMax /\ outLen = capacity /\ taken = 0 /\ value = 0
      /\ validBits = 0 /\ outString = <<>> /\ status = "bytes"
  BY DEF EncodeInit
<1>7. outLen \in Nat /\ Len(outString) + outLen = capacity
  BY <1>2, <1>6
<1>8. Tracks(value, validBits, outString, data, 8 * taken)
  BY <1>4, <1>5, <1>6, Zenon
<1> QED
  BY <1>3, <1>4, <1>6, <1>7, <1>8 DEF SafeNames

\* A check throws only where the string and its NUL do not fit: the digits
\* written fill the buffer, and there is a digit or the NUL to come.
LEMMA RefusedNames ==
    ASSUME SafeNames, Refuse, status \in {"bytes", "end"}
    PROVE  SafeNames'
<1>1. /\ data \in Seq(0..255) /\ capacity \in 0..SizeMax /\ taken \in 0..Len(data)
      /\ outLen \in Nat /\ Len(outString) + outLen = capacity /\ outLen <= 0
  BY DEF SafeNames, Refuse
<1>2. Len(data) \in Nat
  BY <1>1
<1>3. CASE status = "bytes"
  <2>1. /\ validBits \in 0..12 /\ outString \in Seq(0..31)
        /\ 5 * Len(outString) + validBits = 8 * taken
    BY <1>3 DEF SafeNames, Tracks
  <2>2. Len(outString) \in Nat
    BY <2>1
  <2>3. Len(outString) <= capacity /\ capacity <= (8 * Len(data) + 4) \div 5
    BY <1>1, <1>2, <2>1, <2>2
  <2> QED
    BY <1>1, <2>3 DEF SafeNames, Refuse
<1>4. CASE status = "end"
  <2>1. outString \in Seq(0..31) /\ 5 * Len(outString) \in (8 * Len(data))..(8 * Len(data) + 4)
    BY <1>4 DEF SafeNames, Encodes
  <2>2. Len(outString) \in Nat
    BY <2>1
  <2>3. Len(outString) <= capacity /\ capacity <= (8 * Len(data) + 4) \div 5
    BY <1>1, <1>2, <2>1, <2>2
  <2> QED
    BY <1>1, <2>3 DEF SafeNames, Refuse
<1> QED
  BY <1>3, <1>4

\* A character written where there is room for it is counted.
LEMMA WriteCounted ==
    ASSUME NEW S, outString \in Seq(S), NEW c \in S,
           outLen \in Nat, outLen > 0, Len(outString) + outLen = capacity
    PROVE  /\ Decrement(outLen) \in Nat
           /\ Len(Append(outString, c)) + Decrement(outLen) = capacity
           /\ Len(Append(outString, c)) <= capacity
BY DEF Decrement

\* Each step of base32encode keeps this.
LEMMA NextNames == SafeNames /\ [Encode]_base32Vars => SafeNames'
<1> SUFFICES ASSUME SafeNames, [Encode]_base32Vars
             PROVE  SafeNames'
  OBVIOUS
<1>1. /\ data \in Seq(0..255) /\ capacity \in 0..SizeMax /\ taken \in 0..Len(data)
      /\ Len(data) \in Nat
  BY DEF SafeNames
<1>2. CASE TakeByte
  <2>1. /\ status = "bytes" /\ taken < Len(data) /\ validBits < 5
        /\ taken' = taken + 1 /\ value' = value * 256 + data[taken + 1]
        /\ validBits' = validBits + 8
        /\ UNCHANGED <<data, capacity, outLen, outString, status>>
    BY <1>2 DEF TakeByte
  <2> DEFINE i == taken + 1
             x == data[i]
  <2>2. i \in Nat \ {0} /\ i - 1 = taken /\ i \in 0..Len(data) /\ i \in 1..Len(data)
    BY <1>1, <2>1
  <2>3. x \in 0..255
    <3> DEFINE B == 0..255
    <3>1. data \in Seq(B)
      BY <1>1
    <3> HIDE DEF B, i
    <3>2. x \in B
      BY <2>2, <3>1
    <3> QED
      BY <3>2 DEF B
  <2>4. Tracks(value, validBits, outString, data, 8 * taken)
    BY <2>1 DEF SafeNames
  <2>5. value \in Nat /\ validBits \in 0..4
    BY <2>1, <2>4 DEF Tracks
  <2> HIDE DEF i, x
  <2>6. Tracks(value * 256 + x, validBits + 8, outString, data, 8 * i)
    BY <2>2, <2>3, <2>4, <2>5, ByteTracked, Zenon DEF x
  <2>7. Tracks(value', validBits', outString', data', 8 * taken')
    BY <2>1, <2>6, Zenon DEF i, x
  <2>8. taken' \in 0..Len(data)'
    BY <2>1, <2>2, Zenon DEF i
  <2>9. outLen \in Nat /\ Len(outString) + outLen = capacity
    BY <2>1 DEF SafeNames
  <2> QED
    BY <1>1, <2>1, <2>7, <2>8, <2>9 DEF SafeNames
<1>3. CASE PutDigit
  <2>1. status = "bytes" /\ validBits >= 5
    BY <1>3 DEF PutDigit
  <2>2. CASE Refuse
    BY <2>1, <2>2, RefusedNames
  <2>3. CASE ~Refuse
    <3> DEFINE d == (value \div Pow(validBits - 5)) % 32
    <3>1. /\ outLen > 0 /\ outString' = Append(outString, d) /\ outLen' = Decrement(outLen)
          /\ value' = value % Pow(validBits - 5) /\ validBits' = validBits - 5
          /\ UNCHANGED <<data, capacity, taken, status>>
      BY <1>3, <2>3, Zenon DEF PutDigit, WriteChar, Pow
    <3>2. Tracks(value, validBits, outString, data, 8 * taken) /\ 8 * taken \in Nat
      BY <1>1, <2>1 DEF SafeNames
    <3>3. Tracks(value % Pow(validBits - 5), validBits - 5, Append(outString, d), data, 8 * taken)
      BY <2>1, <3>2, DigitTracked, Zenon
    <3> HIDE DEF d
    <3>4. Tracks(value', validBits', outString', data', 8 * taken')
      BY <3>1, <3>3, Zenon
    <3>5. outLen \in Nat /\ Len(outString) + outLen = capacity /\ outString \in Seq(0..31)
      BY <2>1, <3>2 DEF SafeNames, Tracks
    <3>6. d \in 0..31
      <4>1. value \in Nat /\ validBits - 5 \in 0..12
        BY <2>1, <3>2 DEF Tracks
      <4>2. Pow(validBits - 5) \in Nat \ {0}
        BY <4>1, PowPositive, Zenon
      <4>3. value \div Pow(validBits - 5) \in Nat
        BY <4>1, <4>2, QuotientRemainder, Zenon
      <4> QED
        BY <4>3 DEF d
    <3>7. outLen' \in Nat /\ (Len(outString) + outLen = capacity)'
      BY <3>1, <3>5, <3>6, WriteCounted, Zenon
    <3> QED
      BY <1>1, <2>1, <3>1, <3>4, <3>7 DEF SafeNames
  <2> QED
    BY <2>2, <2>3
<1>4. CASE PutRemainder
  <2>1. status = "bytes" /\ taken = Len(data) /\ validBits \in 1..4
    BY <1>4 DEF PutRemainder
  <2>2. CASE Refuse
    BY <2>1, <2>2, RefusedNames
  <2>3. CASE ~Refuse
    <3> DEFINE d == (value * Pow(5 - validBits)) % 32
    <3>1. /\ outLen > 0 /\ outString' = Append(outString, d) /\ outLen' = Decrement(outLen)
          /\ status' = "end" /\ UNCHANGED <<data, capacity, taken>>
      BY <1>4, <2>3, Zenon DEF PutRemainder, WriteChar, Pow
    <3>2. Tracks(value, validBits, outString, data, 8 * Len(data))
      BY <2>1 DEF SafeNames
    <3>3. Encodes(Append(outString, d), data)
      BY <1>1, <2>1, <3>2, RemainderEncodes, Zenon
    <3>4. value \in Nat /\ outString \in Seq(0..31)
      BY <3>2 DEF Tracks
    <3>5. d \in 0..31
      BY <2>1, <3>4, RemainderFilled, Zenon
    <3> HIDE DEF d
    <3>6. outLen \in Nat /\ Len(outString) + outLen = capacity
      BY <2>1 DEF SafeNames
    <3>7. outLen' \in Nat /\ (Len(outString) + outLen = capacity)'
      BY <3>1, <3>4, <3>5, <3>6, WriteCounted, Zenon
    <3>8. Encodes(outString', data')
      BY <3>1, <3>3, Zenon
    <3> QED
      BY <1>1, <3>1, <3>7, <3>8 DEF SafeNames
  <2> QED
    BY <2>2, <2>3
<1>5. CASE PutEnd
  <2>1. status \in {"bytes", "end"}
    BY <1>5 DEF PutEnd
  <2>2. CASE Refuse
    BY <2>1, <2>2, RefusedNames
  <2>3. CASE ~Refuse
    <3>1. /\ outLen > 0 /\ outString' = Append(outString, Terminator) /\ status' = "done"
          /\ UNCHANGED <<data, capacity, taken>>
      BY <1>5, <2>3, Zenon DEF PutEnd, WriteChar
    <3>2. Encodes(outString, data)
      <4>1. CASE status = "end"
        BY <4>1 DEF SafeNames
      <4>2. CASE status # "end"
        <5>1. status = "bytes" /\ taken = Len(data) /\ validBits = 0
          BY <1>5, <4>2 DEF PutEnd
        <5>2. Tracks(value, 0, outString, data, 8 * Len(data))
          BY <5>1 DEF SafeNames
        <5> QED
          BY <1>1, <5>2, NoRemainder, Zenon
      <4> QED
        BY <4>1, <4>2
    <3>3. outString \in Seq(0..32) /\ Terminator \in 0..32
      <4>1. outString \in Seq(0..31) /\ 0..31 \subseteq 0..32 /\ Terminator \in 0..32
        BY <3>2 DEF Encodes, Terminator
      <4> QED
        BY <4>1, SeqWidens, Zenon
    <3>4. outLen \in Nat /\ Len(outString) + outLen = capacity
      BY <2>1 DEF SafeNames
    <3>5. Len(outString') <= capacity
      BY <3>1, <3>3, <3>4, WriteCounted, Zenon
    <3>6. \E digits : Encodes(digits, data') /\ outString' = Append(digits, Terminator)
      BY <3>1, <3>2, Zenon
    <3> QED
      BY <1>1, <3>1, <3>5, <3>6 DEF SafeNames
  <2> QED
    BY <2>2, <2>3
<1>6. CASE UNCHANGED base32Vars
  BY <1>6 DEF base32Vars, SafeNames
<1> QED
  BY <1>2, <1>3, <1>4, <1>5, <1>6 DEF Encode

\* Throughout the call the digits and what is left in value are the bits of
\* the bytes taken, and outLen is what is left of the buffer.
LEMMA NamesSafe == Base32Spec => []SafeNames
BY InitNames, NextNames, PTL DEF Base32Spec

\* The string at the end is digits that encode the data, and the NUL.
LEMMA NameDone ==
    ASSUME SafeNames, status = "done"
    PROVE  /\ Encodes(Digits, data) /\ Len(Digits) = (8 * Len(data) + 4) \div 5
           /\ outString = Append(Digits, Terminator)
<1>1. PICK digits : Encodes(digits, data) /\ outString = Append(digits, Terminator)
  BY DEF SafeNames
<1>2. /\ digits \in Seq(0..31) /\ Len(digits) \in Nat /\ Len(data) \in Nat
      /\ 5 * Len(digits) \in (8 * Len(data))..(8 * Len(data) + 4)
  BY <1>1 DEF Encodes, SafeNames
<1>3. SubSeq(Append(digits, Terminator), 1, Len(Append(digits, Terminator)) - 1) = digits
  <2> DEFINE s == Append(digits, Terminator)
             p == SubSeq(s, 1, Len(s) - 1)
             n == Len(digits)
  <2>1. digits \in Seq(0..32) /\ Terminator \in 0..32 /\ n \in Nat
    <3>1. 0..31 \subseteq 0..32 /\ Terminator \in 0..32
      BY DEF Terminator
    <3> QED
      BY <1>2, <3>1, SeqWidens, Zenon
  <2> DEFINE B == 0..32
  <2>2. digits \in Seq(B) /\ Terminator \in B
    BY <2>1
  <2> HIDE DEF B
  <2>3. s \in Seq(B) /\ Len(s) = n + 1 /\ \A k \in 1..n : s[k] = digits[k]
    BY <2>1, <2>2
  <2> HIDE DEF s
  <2>4. Len(s) - 1 = n
    BY <2>1, <2>3
  <2>5. p \in Seq(B) /\ Len(p) = n /\ \A k \in 1..n : p[k] = s[k]
    BY <2>1, <2>3, <2>4
  <2> HIDE DEF p
  <2>6. p = [k \in 1..n |-> p[k]] /\ digits = [k \in 1..n |-> digits[k]]
    BY <2>2, <2>5
  <2> HIDE DEF n
  <2>7. p = digits
    BY <2>3, <2>5, <2>6
  <2> QED
    BY <2>7 DEF p, s
<1>4. Digits = digits
  BY <1>1, <1>3, Zenon DEF Digits
<1>5. Len(digits) = (8 * Len(data) + 4) \div 5
  BY <1>2, LengthDecoded, Zenon
<1> QED
  BY <1>1, <1>4, <1>5, Zenon

\* The name of an object is the bits of its id, five to a character, with
\* zeros behind them, for ids of any length: the loop of base32encode that
\* shifts them through value loses and repeats none.
THEOREM NamesAreBits == Base32Spec => []EncodesBits
<1>1. SafeNames => EncodesBits
  <2> SUFFICES ASSUME SafeNames, status = "done"
               PROVE  EncodesBits
    BY DEF EncodesBits
  <2>1. data \in Seq(0..255)
    BY DEF SafeNames
  <2>2. Encodes(Digits, data) /\ Len(Digits) = (8 * Len(data) + 4) \div 5
    BY NameDone, Zenon
  <2> QED
    BY <2>1, <2>2, BitsEncoded, Zenon DEF EncodesBits
<1> QED
  BY <1>1, NamesSafe, PTL

\* base32decode gives back the id that a name was made from, whatever its
\* length, so different ids have different names; and it refuses a buffer
\* that is one byte too small.
THEOREM NamesDecode == Base32Spec => []DecodesBack
<1>1. SafeNames => DecodesBack
  <2> SUFFICES ASSUME SafeNames, status = "done"
               PROVE  DecodesBack
    BY DEF DecodesBack
  <2>1. data \in Seq(0..255)
    BY DEF SafeNames
  <2>2. Encodes(Digits, data)
    BY NameDone, Zenon
  <2> QED
    BY <2>1, <2>2, Decoded, Zenon DEF DecodesBack
<1> QED
  BY <1>1, NamesSafe, PTL

\* None of the writes of base32encode, not of a digit, of the remainder or of
\* the NUL, falls behind the caller's buffer; a throw means that the string
\* and its NUL are longer than the buffer; and the string ends at its only
\* NUL.  For data and buffers of every length.
THEOREM NamesFit == Base32Spec => []BufferRespected
<1>1. SafeNames => BufferRespected
  <2> SUFFICES ASSUME SafeNames
               PROVE  BufferRespected
    OBVIOUS
  <2>1. Len(outString) <= capacity
    <3>1. CASE status \in {"bytes", "end"}
      <4>1. outString \in Seq(0..31)
        BY <3>1 DEF SafeNames, Tracks, Encodes
      <4>2. outLen \in Nat /\ Len(outString) + outLen = capacity /\ Len(outString) \in Nat
        BY <3>1, <4>1 DEF SafeNames
      <4> QED
        BY <4>2
    <3>2. CASE status \in {"done", "throws"}
      BY <3>2 DEF SafeNames
    <3> QED
      BY <3>1, <3>2 DEF SafeNames
  <2>2. status = "throws" => capacity <= (8 * Len(data) + 4) \div 5
    BY DEF SafeNames
  <2>3. ASSUME status = "done", NEW k \in DOMAIN outString
        PROVE  outString[k] = Terminator <=> k = Len(outString)
    <3> DEFINE n == Len(Digits)
    <3>1. outString = Append(Digits, Terminator) /\ Digits \in Seq(0..31)
      BY <2>3, NameDone, Zenon DEF Encodes
    <3> HIDE DEF Digits
    <3>2. n \in Nat /\ \A j \in 1..n : Digits[j] \in 0..31
      <4> DEFINE B == 0..31
      <4>1. Digits \in Seq(B)
        BY <3>1
      <4> HIDE DEF B
      <4>2. n \in Nat /\ \A j \in 1..n : Digits[j] \in B
        BY <4>1
      <4> QED
        BY <4>2 DEF B
    <3>3. /\ DOMAIN outString = 1..(n + 1) /\ Len(outString) = n + 1
          /\ outString[n + 1] = Terminator /\ \A j \in 1..n : outString[j] = Digits[j]
      BY <3>1, <3>2
    <3> HIDE DEF n
    <3>4. CASE k = n + 1
      BY <3>3, <3>4, Zenon
    <3>5. CASE k # n + 1
      <4>1. k \in 1..n
        BY <3>2, <3>3, <3>5
      <4>2. Terminator \notin 0..31
        BY DEF Terminator
      <4> QED
        BY <3>2, <3>3, <3>5, <4>1, <4>2, Zenon
    <3> QED
      BY <3>4, <3>5
  <2> QED
    BY <2>1, <2>2, <2>3, Zenon DEF BufferRespected
<1> QED
  BY <1>1, NamesSafe, PTL

=============================================================================
