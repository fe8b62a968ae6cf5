--------------------------- MODULE SnapshotProofs ---------------------------
(***************************************************************************)
(* The snapshot object keeps what it is given: for all paths, owners and   *)
(* lists of ids, over any sequence of additions, deletions, save() and     *)
(* load().                                                                 *)
(***************************************************************************)
EXTENDS Snapshot, SequenceTheorems, FiniteSetTheorems, TLAPS

-----------------------------------------------------------------------------
(* Induction *)

\* A set of natural numbers that is not empty has a least element.
LEMMA LeastNumber ==
    ASSUME NEW T, T \subseteq Nat, T # {}
    PROVE  \E x \in T : \A y \in T : x <= y
<1> DEFINE R == OpToRel(<, Nat)
<1>1. \E x \in T : \A y \in T : ~ (<<y, x>> \in R)
  BY WFMin, NatLessThanWellFounded
<1>2. R = {ss \in Nat \X Nat : ss[1] < ss[2]}
  BY DEF OpToRel
<1> HIDE DEF R
<1>3. \A x, y \in Nat : y < x => <<y, x>> \in R
  BY <1>2
<1>4. PICK x \in T : \A y \in T : ~ (<<y, x>> \in R)
  BY <1>1
<1>5. \A y \in T : ~(y < x)
  BY <1>3, <1>4, Zenon
<1>6. \A y \in T : x <= y
  BY <1>5
<1> QED
  BY <1>6

\* A bounded one has a greatest.
LEMMA GreatestNumber ==
    ASSUME NEW n \in Nat, NEW T, T \subseteq 0..n, T # {}
    PROVE  \E x \in T : \A y \in T : y <= x
<1> DEFINE U == {n - x : x \in T}
<1>1. U \subseteq Nat /\ U # {}
  <2>1. \A x \in T : n - x \in Nat
    OBVIOUS
  <2>2. \A u \in U : \E x \in T : u = n - x
    OBVIOUS
  <2>3. PICK x : x \in T
    OBVIOUS
  <2>4. n - x \in U
    BY <2>3
  <2> QED
    BY <2>1, <2>2, <2>4
<1>2. PICK u \in U : \A v \in U : u <= v
  BY <1>1, LeastNumber
<1>3. PICK x \in T : u = n - x
  BY <1>2
<1>4. \A y \in T : n - y \in U
  OBVIOUS
<1>5. \A y \in T : n - x <= n - y
  BY <1>2, <1>3, <1>4
<1>6. x \in 0..n /\ \A y \in T : y \in 0..n
  BY <1>3
<1> QED
  BY <1>3, <1>5, <1>6

-----------------------------------------------------------------------------
(* Strings in the buffer *)

\* characters, and what the buffer holds
Letter == 1..255

Code == 0..255

String == Seq(Letter)

Buffer == {b \in Seq(Code) : b # <<>> => b[Len(b)] = NUL}

\* A letter is a code, and not NUL.
LEMMA Letters == Letter \subseteq Code /\ NUL \in Code /\ \A x \in Code : x \in Letter <=> x # NUL
BY DEF Letter, Code, NUL

\* A part of a sequence.
LEMMA PartOf ==
    ASSUME NEW S, NEW s \in Seq(S), NEW m \in Nat, NEW n \in Nat, 1 <= m, m <= n + 1, n <= Len(s)
    PROVE  /\ SubSeq(s, m, n) \in Seq(S)
           /\ Len(SubSeq(s, m, n)) = n - m + 1
           /\ \A i \in 1..(n - m + 1) : SubSeq(s, m, n)[i] = s[m + i - 1]
<1>1. \A i \in m..n : s[i] \in S
  BY ElementOfSeq, LenProperties
<1> QED
  BY <1>1, SubSeqProperties

\* A sequence is a sequence over every set that has its elements.
LEMMA SeqOver ==
    ASSUME NEW S, NEW T, NEW s \in Seq(T), \A i \in 1..Len(s) : s[i] \in S
    PROVE  s \in Seq(S)
<1>1. Len(s) \in Nat /\ s \in [1..Len(s) -> T]
  BY LenProperties
<1>2. s \in [1..Len(s) -> S]
  BY <1>1
<1> QED
  BY <1>1, <1>2, SeqDef

\* indexToString() reads back the string that is there.
LEMMA ReadsBack ==
    ASSUME NEW b \in Buffer, NEW n \in Nat, NEW str \in String, StringAt(b, n, str)
    PROVE  indexToString(b, n) = str
<1> DEFINE E(e) == /\ b[e + 1] = NUL
                   /\ \A i \in n..(e - 1) : b[i + 1] # NUL
           last == n + Len(str)
           end == CHOOSE e \in n..(Len(b) - 1) : E(e)
<1>0. b \in Seq(Code) /\ n \in Nat /\ Len(str) \in Nat /\ Len(b) \in Nat
  BY DEF Buffer, StringAt, String
<1>1. last \in n..(Len(b) - 1)
  BY <1>0 DEF StringAt
<1>2. \A i \in n..(last - 1) : b[i + 1] # NUL
  <2> SUFFICES ASSUME NEW i \in n..(last - 1)
               PROVE  b[i + 1] # NUL
    OBVIOUS
  <2>1. i + 1 - n \in 1..Len(str) /\ n + (i + 1 - n) = i + 1
    BY <1>0
  <2>2. b[i + 1] = str[i + 1 - n]
    BY <2>1 DEF StringAt
  <2>3. str[i + 1 - n] \in Letter
    BY <2>1, ElementOfSeq DEF String
  <2> QED
    BY <2>2, <2>3, Letters
<1>3. E(last)
  BY <1>0, <1>2 DEF StringAt
<1>4. end \in n..(Len(b) - 1) /\ E(end)
  BY <1>1, <1>3
<1>5. indexToString(b, n) = SubSeq(b, n + 1, end)
  BY DEF indexToString
<1> HIDE DEF end
<1>6. ~(end < last)
  <2> SUFFICES ASSUME end < last PROVE FALSE
    OBVIOUS
  <2>1. end \in n..(last - 1)
    BY <1>0, <1>1, <1>4
  <2> QED
    BY <1>2, <1>4, <2>1
<1>7. ~(last < end)
  <2> SUFFICES ASSUME last < end PROVE FALSE
    OBVIOUS
  <2>1. last \in n..(end - 1)
    BY <1>0, <1>1, <1>4
  <2> QED
    BY <1>3, <1>4, <2>1
<1>8. end = last
  BY <1>0, <1>1, <1>4, <1>6, <1>7
<1> DEFINE sub == SubSeq(b, n + 1, last)
<1>9. /\ sub \in Seq(Code) /\ Len(sub) = Len(str)
      /\ \A i \in 1..Len(str) : sub[i] = b[n + i]
  <2>1. last \in Nat /\ n + 1 \in Nat /\ last <= Len(b) /\ last - (n + 1) + 1 = Len(str)
    BY <1>0, <1>1
  <2>2. \A i \in 1..Len(str) : n + 1 + i - 1 = n + i
    BY <1>0
  <2> HIDE DEF last
  <2>3. 1 <= n + 1 /\ n + 1 <= last + 1
    BY <1>0, <1>1
  <2> QED
    BY <1>0, <2>1, <2>2, <2>3, PartOf
<1>10. \A i \in 1..Len(str) : sub[i] = str[i]
  BY <1>9 DEF StringAt
<1>11. str \in Seq(Code)
  BY Letters, SeqMonotonic DEF String
<1> HIDE DEF sub
<1>12. sub = str
  BY <1>9, <1>10, <1>11, SeqEqual
<1> QED
  BY <1>5, <1>8, <1>12 DEF sub

\* Wherever one starts, there is a string, since the buffer ends with a NUL.
LEMMA StringFound ==
    ASSUME NEW b \in Buffer, NEW n \in Nat, n < Len(b)
    PROVE  /\ indexToString(b, n) \in String
           /\ StringAt(b, n, indexToString(b, n))
<1> DEFINE E(e) == /\ b[e + 1] = NUL
                   /\ \A i \in n..(e - 1) : b[i + 1] # NUL
           T == {e \in n..(Len(b) - 1) : b[e + 1] = NUL}
           end == CHOOSE e \in n..(Len(b) - 1) : E(e)
           str == SubSeq(b, n + 1, end)
<1>0. b \in Seq(Code) /\ Len(b) \in Nat /\ b[Len(b)] = NUL
  BY EmptySeq, LenProperties DEF Buffer
<1>1. T \subseteq Nat /\ T # {}
  <2>1. Len(b) - 1 \in n..(Len(b) - 1) /\ Len(b) - 1 + 1 = Len(b)
    BY <1>0
  <2>2. b[(Len(b) - 1) + 1] = NUL
    BY <1>0, <2>1
  <2>3. Len(b) - 1 \in T
    BY <2>1, <2>2
  <2>4. n..(Len(b) - 1) \subseteq Nat
    BY <1>0
  <2> QED
    BY <2>3, <2>4
<1>2. PICK e \in T : \A y \in T : e <= y
  BY <1>1, LeastNumber
<1>3. E(e)
  <2> SUFFICES ASSUME NEW i \in n..(e - 1), b[i + 1] = NUL PROVE FALSE
    BY <1>2
  <2>1. i \in T
    BY <1>0, <1>2
  <2> QED
    BY <1>2, <2>1
<1>4. end \in n..(Len(b) - 1) /\ E(end)
  BY <1>2, <1>3
<1>5. indexToString(b, n) = str
  BY DEF indexToString
<1> HIDE DEF end
<1>6. /\ str \in Seq(Code) /\ Len(str) = end - n
      /\ \A i \in 1..Len(str) : str[i] = b[n + i]
  <2>1. /\ end \in Nat /\ n + 1 \in Nat /\ 1 <= n + 1 /\ n + 1 <= end + 1 /\ end <= Len(b)
        /\ end - (n + 1) + 1 = end - n
    BY <1>0, <1>4
  <2>2. \A i \in 1..(end - n) : n + 1 + i - 1 = n + i
    BY <1>0, <1>4
  <2> QED
    BY <1>0, <2>1, <2>2, PartOf
<1>7. \A i \in 1..Len(str) : str[i] = b[n + i] /\ str[i] \in Letter
  <2> SUFFICES ASSUME NEW i \in 1..Len(str)
               PROVE  str[i] \in Letter
    BY <1>6
  <2>1. str[i] = b[n + i]
    BY <1>6
  <2>2. n + i - 1 \in n..(end - 1) /\ n + i - 1 + 1 = n + i /\ n + i \in 1..Len(b)
    BY <1>0, <1>4, <1>6
  <2>3. b[n + i] # NUL
    BY <1>4, <2>2
  <2>4. b[n + i] \in Code
    BY <1>0, <2>2, ElementOfSeq
  <2> QED
    BY <2>1, <2>3, <2>4, Letters
<1> HIDE DEF str
<1>8. str \in Seq(Letter)
  BY <1>6, <1>7, SeqOver
<1>9. StringAt(b, n, str)
  BY <1>0, <1>4, <1>6, <1>7 DEF StringAt
<1> QED
  BY <1>5, <1>8, <1>9 DEF String

\* A string stays where it is when more is put after it.
LEMMA StringStays ==
    ASSUME NEW b \in Seq(Code), NEW c \in Seq(Code), NEW n \in Nat, NEW str \in String,
           StringAt(b, n, str)
    PROVE  StringAt(b \o c, n, str)
<1>1. /\ Len(b) \in Nat /\ Len(c) \in Nat /\ n \in Nat /\ Len(str) \in Nat
      /\ Len(b \o c) = Len(b) + Len(c)
  BY DEF String, StringAt
<1>2. \A i \in 1..Len(b) : (b \o c)[i] = b[i]
  OBVIOUS
<1> QED
  BY <1>1, <1>2 DEF StringAt

\* What insertStringTable() appends for a string: the string, and NULs.
LEMMA PaddedCodes ==
    ASSUME NEW str \in String
    PROVE  /\ Padded(str) \in Seq(Code)
           /\ Len(Padded(str)) \in Nat /\ Len(Padded(str)) > Len(str)
           /\ \A i \in 1..Len(str) : Padded(str)[i] = str[i]
           /\ \A i \in (Len(str) + 1)..Len(Padded(str)) : Padded(str)[i] = NUL
<1> DEFINE m == Align(Len(str) + 1)
           c == Padded(str)
<1>0. Len(str) \in Nat
  BY DEF String
<1>1. m \in Nat /\ m > Len(str)
  BY <1>0 DEF Align
<1> HIDE DEF m
<1>2. c = [i \in 1..m |-> IF i <= Len(str) THEN str[i] ELSE NUL]
  BY DEF Padded, m
<1>3. \A i \in 1..m : (IF i <= Len(str) THEN str[i] ELSE NUL) \in Code
  BY <1>0, <1>1, Letters, ElementOfSeq DEF String
<1>4. c \in [1..m -> Code]
  BY <1>2, <1>3
<1>5. c \in Seq(Code) /\ Len(c) = m
  BY <1>1, <1>4, SeqDef
<1>6. /\ \A i \in 1..Len(str) : c[i] = str[i]
      /\ \A i \in (Len(str) + 1)..m : c[i] = NUL
  BY <1>0, <1>1, <1>2
<1> QED
  BY <1>1, <1>5, <1>6

\* A string that is put at the end of the buffer is there, and the buffer
\* still ends with a NUL.
LEMMA StringPut ==
    ASSUME NEW b \in Buffer, NEW str \in String
    PROVE  b \o Padded(str) \in Buffer /\ StringAt(b \o Padded(str), Len(b), str)
<1> DEFINE c == Padded(str)
           m == Len(c)
<1>0. b \in Seq(Code) /\ Len(b) \in Nat /\ Len(str) \in Nat
  BY DEF Buffer, String
<1>1. m \in Nat /\ m > Len(str)
  BY PaddedCodes
<1>2. /\ c \in Seq(Code) /\ Len(c) = m
      /\ \A i \in 1..Len(str) : c[i] = str[i]
      /\ \A i \in (Len(str) + 1)..m : c[i] = NUL
  BY PaddedCodes
<1> HIDE DEF c, m
<1>3. b \o c \in Seq(Code) /\ Len(b \o c) = Len(b) + m
  BY <1>0, <1>2, ConcatProperties
<1>4. \A i \in 1..m : (b \o c)[Len(b) + i] = c[i]
  BY <1>0, <1>1, <1>2, ConcatProperties
<1>5. (b \o c)[Len(b \o c)] = NUL
  <2>1. m \in 1..m /\ m \in (Len(str) + 1)..m
    BY <1>0, <1>1
  <2> QED
    BY <1>2, <1>3, <1>4, <2>1
<1>6. StringAt(b \o c, Len(b), str)
  <2>1. \A i \in 1..Len(str) : i \in 1..m
    BY <1>0, <1>1
  <2>2. Len(str) + 1 \in 1..m /\ Len(str) + 1 \in (Len(str) + 1)..m
    BY <1>0, <1>1
  <2>3. (b \o c)[Len(b) + Len(str) + 1] = NUL
    <3>1. Len(b) + (Len(str) + 1) = Len(b) + Len(str) + 1
      BY <1>0
    <3> QED
      BY <1>2, <1>4, <2>2, <3>1
  <2>4. \A i \in 1..Len(str) : (b \o c)[Len(b) + i] = str[i]
    BY <1>2, <1>4, <2>1
  <2> QED
    BY <1>0, <1>1, <1>3, <2>3, <2>4 DEF StringAt
<1> QED
  BY <1>3, <1>5, <1>6 DEF Buffer, c

-----------------------------------------------------------------------------
(* Paths and their order *)

\* The last slash of a path is a place of it, or nowhere.
LEMMA LastSlashPlace ==
    ASSUME NEW p \in String
    PROVE  LastSlash(p) \in 0..Len(p)
<1>0. Len(p) \in Nat /\ DOMAIN p = 1..Len(p)
  BY LenProperties DEF String
<1>1. CASE SlashesOf(p) = {}
  BY <1>0, <1>1 DEF LastSlash
<1>2. CASE SlashesOf(p) # {}
  <2>1. SlashesOf(p) \subseteq 0..Len(p)
    BY <1>0 DEF SlashesOf
  <2>2. \E i \in SlashesOf(p) : \A j \in SlashesOf(p) : j <= i
    BY <1>0, <1>2, <2>1, GreatestNumber
  <2>3. LastSlash(p) = CHOOSE i \in SlashesOf(p) : \A j \in SlashesOf(p) : j <= i
    BY <1>2 DEF LastSlash
  <2>4. LastSlash(p) \in SlashesOf(p)
    BY <2>2, <2>3
  <2> QED
    BY <2>1, <2>4
<1> QED
  BY <1>1, <1>2

\* The parts of a path are strings.
LEMMA PathParts ==
    ASSUME NEW p \in String
    PROVE  Filename(p) \in String /\ ParentPath(p) \in String
<1> DEFINE k == LastSlash(p)
<1>0. p \in Seq(Letter) /\ Len(p) \in Nat /\ k \in 0..Len(p)
  BY LastSlashPlace, LenProperties DEF String
<1> HIDE DEF k
<1>1. SubSeq(p, k + 1, Len(p)) \in Seq(Letter)
  BY <1>0, PartOf
<1>2. SubSeq(p, 1, k - 1) \in Seq(Letter)
  <2>1. CASE k = 0
    BY <2>1, SubSeqEmpty, EmptySeq
  <2>2. CASE k # 0
    BY <1>0, <2>2, PartOf
  <2> QED
    BY <2>1, <2>2
<1> QED
  BY <1>1, <1>2 DEF Filename, ParentPath, String, k

\* the order of strings, place by place
Precedes(p, q) ==
    \/ Len(p) < Len(q) /\ \A j \in 1..Len(p) : q[j] = p[j]
    \/ \E i \in 1..Len(p) : /\ i <= Len(q) /\ p[i] < q[i]
                            /\ \A j \in 1..(i - 1) : p[j] = q[j]

\* Two strings have the same first n letters exactly if they agree place by
\* place.
LEMMA SameStart ==
    ASSUME NEW p \in String, NEW q \in String, NEW n \in Nat, n <= Len(p), n <= Len(q)
    PROVE  SubSeq(p, 1, n) = SubSeq(q, 1, n) <=> \A j \in 1..n : p[j] = q[j]
<1> DEFINE a == SubSeq(p, 1, n)
           b == SubSeq(q, 1, n)
<1>1. /\ a \in Seq(Letter) /\ b \in Seq(Letter) /\ Len(a) = n /\ Len(b) = n
      /\ \A j \in 1..n : a[j] = p[j] /\ b[j] = q[j]
  <2>1. n - 1 + 1 = n /\ \A j \in 1..n : 1 + j - 1 = j
    OBVIOUS
  <2> QED
    BY <2>1, PartOf DEF String
<1> HIDE DEF a, b
<1>2. a = b <=> \A j \in 1..n : p[j] = q[j]
  BY <1>1, SeqEqual
<1> QED
  BY <1>2 DEF a, b

\* The order that the model states with prefixes is the one place by place.
LEMMA BeforePlaces ==
    ASSUME NEW p \in String, NEW q \in String
    PROVE  Before(p, q) <=> Precedes(p, q)
<1>0. /\ Len(p) \in Nat /\ Len(q) \in Nat
      /\ DOMAIN p = 1..Len(p) /\ DOMAIN q = 1..Len(q)
  BY LenProperties DEF String
<1>1. SubSeq(p, 1, Len(p)) = p
  BY SubSeqFull DEF String
<1>2. ASSUME Len(p) < Len(q)
      PROVE  SubSeq(q, 1, Len(p)) = p <=> \A j \in 1..Len(p) : q[j] = p[j]
  <2>1. SubSeq(q, 1, Len(p)) = SubSeq(p, 1, Len(p)) <=> \A j \in 1..Len(p) : q[j] = p[j]
    BY <1>0, <1>2, SameStart
  <2> QED
    BY <1>1, <2>1
<1>3. ASSUME NEW i \in 1..Len(p), i <= Len(q)
      PROVE  SubSeq(p, 1, i - 1) = SubSeq(q, 1, i - 1) <=> \A j \in 1..(i - 1) : p[j] = q[j]
  <2>1. i - 1 \in Nat /\ i - 1 <= Len(p) /\ i - 1 <= Len(q)
    BY <1>0, <1>3
  <2> QED
    BY <2>1, SameStart
<1>4. \A i : i \in DOMAIN p \cap DOMAIN q <=> i \in 1..Len(p) /\ i <= Len(q)
  BY <1>0
<1>5. (\E i \in DOMAIN p \cap DOMAIN q :
          p[i] < q[i] /\ SubSeq(p, 1, i - 1) = SubSeq(q, 1, i - 1))
      <=> \E i \in 1..Len(p) : /\ i <= Len(q) /\ p[i] < q[i]
                               /\ \A j \in 1..(i - 1) : p[j] = q[j]
  BY <1>3, <1>4
<1> QED
  BY <1>2, <1>5 DEF Before, Precedes

\* Letters are numbers.
LEMMA LetterAt ==
    ASSUME NEW p \in String, NEW i \in 1..Len(p)
    PROVE  p[i] \in Nat
<1>1. p[i] \in Letter
  BY ElementOfSeq DEF String
<1>2. Letter \subseteq Nat
  BY DEF Letter
<1> QED
  BY <1>1, <1>2

\* Of two different strings one comes first.
LEMMA OrderTotal ==
    ASSUME NEW p \in String, NEW q \in String, p # q
    PROVE  Before(p, q) \/ Before(q, p)
<1>0. Len(p) \in Nat /\ Len(q) \in Nat
  BY LenProperties DEF String
<1> DEFINE T == {i \in 1..Len(p) : i <= Len(q) /\ p[i] # q[i]}
<1>1. CASE T = {}
  <2>1. \A i \in 1..Len(p) : i <= Len(q) => p[i] = q[i]
    BY <1>1
  <2>2. CASE Len(p) < Len(q)
    <3>1. \A i \in 1..Len(p) : q[i] = p[i]
      BY <1>0, <2>1, <2>2
    <3> QED
      BY <2>2, <3>1, BeforePlaces DEF Precedes
  <2>3. CASE Len(q) < Len(p)
    <3>1. \A i \in 1..Len(q) : p[i] = q[i]
      BY <1>0, <2>1, <2>3
    <3> QED
      BY <2>3, <3>1, BeforePlaces DEF Precedes
  <2>4. CASE Len(p) = Len(q)
    <3>1. \A i \in 1..Len(p) : p[i] = q[i]
      BY <1>0, <2>1, <2>4
    <3> QED
      BY <2>4, <3>1, SeqEqual DEF String
  <2> QED
    BY <1>0, <2>2, <2>3, <2>4
<1>2. CASE T # {}
  <2>1. T \subseteq Nat
    BY <1>0
  <2>2. PICK i \in T : \A j \in T : i <= j
    BY <1>2, <2>1, LeastNumber
  <2>3. i \in 1..Len(p) /\ i \in 1..Len(q) /\ p[i] # q[i]
    BY <1>0, <2>2
  <2>4. \A j \in 1..(i - 1) : p[j] = q[j]
    <3> SUFFICES ASSUME NEW j \in 1..(i - 1), p[j] # q[j] PROVE FALSE
      OBVIOUS
    <3>1. j \in T
      BY <1>0, <2>3
    <3>2. j \in Nat /\ i \in Nat /\ j < i
      BY <2>3
    <3> QED
      BY <2>2, <3>1, <3>2
  <2>5. p[i] \in Nat /\ q[i] \in Nat
    BY <2>3, LetterAt
  <2>6. CASE p[i] < q[i]
    <3>1. Precedes(p, q)
      BY <2>3, <2>4, <2>6 DEF Precedes
    <3> QED
      BY <3>1, BeforePlaces
  <2>7. CASE q[i] < p[i]
    <3>1. Precedes(q, p)
      BY <2>3, <2>4, <2>7 DEF Precedes
    <3> QED
      BY <3>1, BeforePlaces
  <2> QED
    BY <2>3, <2>5, <2>6, <2>7
<1> QED
  BY <1>1, <1>2

\* The order is transitive.
LEMMA OrderTransitive ==
    ASSUME NEW p \in String, NEW q \in String, NEW r \in String, Before(p, q), Before(q, r)
    PROVE  Before(p, r)
<1>0. Len(p) \in Nat /\ Len(q) \in Nat /\ Len(r) \in Nat
  BY LenProperties DEF String
<1> SUFFICES Precedes(p, r)
  BY BeforePlaces
<1>1. Precedes(p, q) /\ Precedes(q, r)
  BY BeforePlaces
<1>2. CASE Len(p) < Len(q) /\ \A j \in 1..Len(p) : q[j] = p[j]
  <2>1. CASE Len(q) < Len(r) /\ \A j \in 1..Len(q) : r[j] = q[j]
    <3>1. Len(p) < Len(r) /\ \A j \in 1..Len(p) : r[j] = p[j]
      BY <1>0, <1>2, <2>1
    <3> QED
      BY <3>1 DEF Precedes
  <2>2. ASSUME NEW i \in 1..Len(q), i <= Len(r), q[i] < r[i], \A j \in 1..(i - 1) : q[j] = r[j]
        PROVE  Precedes(p, r)
    <3>1. CASE i <= Len(p)
      <4>1. i \in 1..Len(p) /\ \A j \in 1..(i - 1) : j \in 1..Len(p)
        BY <1>0, <3>1
      <4>2. p[i] < r[i] /\ \A j \in 1..(i - 1) : p[j] = r[j]
        BY <1>2, <2>2, <4>1
      <4> QED
        BY <2>2, <4>1, <4>2 DEF Precedes
    <3>2. CASE Len(p) < i
      <4>1. Len(p) < Len(r) /\ \A j \in 1..Len(p) : j \in 1..(i - 1)
        BY <1>0, <2>2, <3>2
      <4>2. \A j \in 1..Len(p) : r[j] = p[j]
        BY <1>2, <2>2, <4>1
      <4> QED
        BY <4>1, <4>2 DEF Precedes
    <3> QED
      BY <1>0, <3>1, <3>2
  <2> QED
    BY <1>1, <2>1, <2>2 DEF Precedes
<1>3. ASSUME NEW i \in 1..Len(p), i <= Len(q), p[i] < q[i], \A j \in 1..(i - 1) : p[j] = q[j]
      PROVE  Precedes(p, r)
  <2>0. i \in 1..Len(q) /\ \A j \in 1..(i - 1) : j \in 1..Len(q)
    BY <1>0, <1>3
  <2>1. CASE Len(q) < Len(r) /\ \A j \in 1..Len(q) : r[j] = q[j]
    <3>1. i <= Len(r) /\ p[i] < r[i] /\ \A j \in 1..(i - 1) : p[j] = r[j]
      BY <1>0, <1>3, <2>0, <2>1
    <3> QED
      BY <3>1 DEF Precedes
  <2>2. ASSUME NEW k \in 1..Len(q), k <= Len(r), q[k] < r[k], \A j \in 1..(k - 1) : q[j] = r[j]
        PROVE  Precedes(p, r)
    <3>0. i \in Nat /\ k \in Nat
      BY <1>0
    <3>1. CASE i < k
      <4>1. i \in 1..(k - 1) /\ i <= Len(r) /\ \A j \in 1..(i - 1) : j \in 1..(k - 1)
        BY <1>0, <2>2, <3>1
      <4>2. p[i] < r[i] /\ \A j \in 1..(i - 1) : p[j] = r[j]
        BY <1>3, <2>2, <4>1
      <4> QED
        BY <4>1, <4>2 DEF Precedes
    <3>2. CASE k < i
      <4>1. k \in 1..(i - 1) /\ k \in 1..Len(p) /\ \A j \in 1..(k - 1) : j \in 1..(i - 1)
        BY <1>0, <3>2
      <4>2. p[k] < r[k] /\ \A j \in 1..(k - 1) : p[j] = r[j]
        BY <1>3, <2>2, <4>1
      <4> QED
        BY <2>2, <4>1, <4>2 DEF Precedes
    <3>3. CASE i = k
      <4>1. i \in 1..Len(r)
        BY <1>0, <2>2, <3>3
      <4>2. p[i] \in Nat /\ q[i] \in Nat /\ r[i] \in Nat
        BY <2>0, <4>1, LetterAt
      <4>3. p[i] < r[i] /\ i <= Len(r)
        BY <1>3, <2>2, <3>3, <4>2
      <4>4. \A j \in 1..(i - 1) : p[j] = r[j]
        BY <1>3, <2>2, <3>3
      <4> QED
        BY <4>3, <4>4 DEF Precedes
    <3> QED
      BY <3>0, <3>1, <3>2, <3>3
  <2> QED
    BY <1>1, <2>1, <2>2 DEF Precedes
<1> QED
  BY <1>1, <1>2, <1>3 DEF Precedes

\* Of finitely many strings one comes last.
LEMMA LastOf ==
    ASSUME NEW T, T \subseteq String, IsFiniteSet(T), T # {}
    PROVE  \E p \in T : \A r \in T : r = p \/ Before(r, p)
<1>1. PICK n \in Nat : ExistsSurjection(1..n, T)
  BY FS_NatSurjection
<1>2. PICK f \in [1..n -> T] : \A t \in T : \E i \in 1..n : f[i] = t
  BY <1>1 DEF ExistsSurjection, Surjection
<1> DEFINE L(k) == \E i \in 1..k : \A j \in 1..k : f[j] = f[i] \/ Before(f[j], f[i])
           Bad == {k \in 1..n : ~L(k)}
<1>3. Bad = {}
  <2> SUFFICES ASSUME Bad # {} PROVE FALSE
    OBVIOUS
  <2>1. Bad \subseteq Nat
    OBVIOUS
  <2>2. PICK k \in Bad : \A y \in Bad : k <= y
    BY <2>1, LeastNumber
  <2>3. k \in 1..n /\ ~L(k)
    BY <2>2
  <2>4. CASE k = 1
    <3>1. L(1)
      OBVIOUS
    <3> QED
      BY <2>3, <2>4, <3>1
  <2>5. CASE k # 1
    <3>1. k - 1 \in 1..n /\ k - 1 \in Nat /\ k - 1 < k
      BY <2>3, <2>5
    <3>2. L(k - 1)
      <4>1. k \in Nat /\ ~(k <= k - 1)
        BY <2>3
      <4>2. k - 1 \notin Bad
        BY <2>2, <4>1
      <4> QED
        BY <3>1, <4>2
    <3>3. PICK i \in 1..(k - 1) : \A j \in 1..(k - 1) : f[j] = f[i] \/ Before(f[j], f[i])
      BY <3>2
    <3>4. i \in 1..k /\ k \in 1..k /\ \A j \in 1..k : j = k \/ j \in 1..(k - 1)
      BY <2>3, <3>1
    <3>5. \A j \in 1..k : f[j] \in String
      BY <1>2, <2>3
    <3>6. CASE f[k] = f[i] \/ Before(f[k], f[i])
      <4>1. \A j \in 1..k : f[j] = f[i] \/ Before(f[j], f[i])
        BY <3>3, <3>4, <3>6
      <4> QED
        BY <2>3, <3>4, <4>1
    <3>7. CASE f[k] # f[i] /\ ~Before(f[k], f[i])
      <4>1. Before(f[i], f[k])
        BY <3>4, <3>5, <3>7, OrderTotal
      <4>2. \A j \in 1..(k - 1) : Before(f[j], f[k])
        <5> SUFFICES ASSUME NEW j \in 1..(k - 1)
                     PROVE  Before(f[j], f[k])
          OBVIOUS
        <5>1. j \in 1..k
          BY <2>3
        <5> QED
          BY <3>3, <3>4, <3>5, <4>1, <5>1, OrderTransitive
      <4>3. \A j \in 1..k : f[j] = f[k] \/ Before(f[j], f[k])
        BY <3>4, <4>2
      <4> QED
        BY <2>3, <3>4, <4>3
    <3> QED
      BY <3>6, <3>7
  <2> QED
    BY <2>4, <2>5
<1>4. n # 0
  <2> SUFFICES ASSUME n = 0 PROVE FALSE
    OBVIOUS
  <2>1. 1..n = {}
    OBVIOUS
  <2> QED
    BY <1>2, <2>1
<1>5. n \in 1..n
  BY <1>4
<1>6. L(n)
  BY <1>3, <1>5
<1>7. PICK i \in 1..n : \A j \in 1..n : f[j] = f[i] \/ Before(f[j], f[i])
  BY <1>6
<1>8. f[i] \in T
  BY <1>2
<1>9. \A r \in T : r = f[i] \/ Before(r, f[i])
  BY <1>2, <1>7
<1> QED
  BY <1>8, <1>9

-----------------------------------------------------------------------------
(* Adding entries *)

\* The string table of s is right about its buffer.
SafeTable(s) ==
    /\ DOMAIN s = {"files", "table", "buffer", "objects"}
    /\ s.buffer \in Buffer
    /\ DOMAIN s.table \subseteq String
    /\ \A t \in DOMAIN s.table : StringAt(s.buffer, s.table[t], t)

\* Every string of the buffer b is at the same place in c.
Keeps(b, c) ==
    \A n \in Nat, str \in String : StringAt(b, n, str) => StringAt(c, n, str)

\* insertStringTable() puts the string where the table says, and moves none.
LEMMA InsertSafe ==
    ASSUME NEW s, SafeTable(s), NEW str \in String, NEW r, r = insertStringTable(s, str)
    PROVE  /\ SafeTable(r)
           /\ str \in DOMAIN r.table
           /\ StringAt(r.buffer, r.table[str], str)
           /\ Keeps(s.buffer, r.buffer)
           /\ r.files = s.files /\ r.objects = s.objects
<1>1. CASE str \in DOMAIN s.table
  <2>1. r = s
    BY <1>1 DEF insertStringTable
  <2> QED
    BY <1>1, <2>1 DEF SafeTable, Keeps
<1>2. CASE str \notin DOMAIN s.table
  <2> DEFINE b == s.buffer
             c == b \o Padded(str)
  <2>0. b \in Buffer
    BY DEF SafeTable
  <2>1. /\ DOMAIN r = {"files", "table", "buffer", "objects"}
        /\ r.files = s.files /\ r.objects = s.objects
        /\ r.buffer = c
        /\ r.table = [t \in DOMAIN s.table \cup {str} |->
                          IF t = str THEN Len(b) ELSE s.table[t]]
    BY <1>2 DEF insertStringTable, SafeTable
  <2>2. c \in Buffer /\ StringAt(c, Len(b), str)
    BY <2>0, StringPut
  <2>3. Keeps(b, c)
    <3>1. b \in Seq(Code) /\ Padded(str) \in Seq(Code)
      BY <2>0, PaddedCodes DEF Buffer
    <3> QED
      BY <3>1, StringStays DEF Keeps
  <2> HIDE DEF b, c
  <2>4. DOMAIN r.table = DOMAIN s.table \cup {str} /\ r.table[str] = Len(b)
        /\ \A t \in DOMAIN s.table : r.table[t] = s.table[t]
    BY <1>2, <2>1
  <2>5. \A t \in DOMAIN s.table : StringAt(c, s.table[t], t)
    <3> SUFFICES ASSUME NEW t \in DOMAIN s.table
                 PROVE  StringAt(c, s.table[t], t)
      OBVIOUS
    <3>1. StringAt(b, s.table[t], t) /\ t \in String
      BY DEF SafeTable, b
    <3>2. s.table[t] \in Nat
      BY <3>1 DEF StringAt
    <3> QED
      BY <2>3, <3>1, <3>2 DEF Keeps
  <2>6. SafeTable(r)
    BY <2>1, <2>2, <2>4, <2>5 DEF SafeTable
  <2> QED
    BY <2>1, <2>2, <2>3, <2>4, <2>6 DEF b
<1> QED
  BY <1>1, <1>2

\* What is kept twice is kept.
LEMMA KeepsTransitive ==
    ASSUME NEW a, NEW b, NEW c, Keeps(a, b), Keeps(b, c)
    PROVE  Keeps(a, c)
BY DEF Keeps

\* A string that is kept is there.
LEMMA Kept ==
    ASSUME NEW b, NEW c, Keeps(b, c), NEW n, NEW str \in String, StringAt(b, n, str)
    PROVE  StringAt(c, n, str)
<1>1. n \in Nat
  BY DEF StringAt
<1> QED
  BY <1>1 DEF Keeps

\* The strings and the ids of an argument.
LEMMA ArgumentParts ==
    ASSUME NEW a \in Argument
    PROVE  /\ a.path \in String /\ a.user \in String /\ a.group \in String
           /\ Filename(a.path) \in String /\ ParentPath(a.path) \in String
           /\ a.ids \in Seq(ObjectId) /\ Len(a.ids) \in Nat
<1>1. a.path \in Path /\ a.user \in Owner /\ a.group \in Owner /\ a.ids \in Ids
  BY DEF Argument
<1>2. Path \subseteq String /\ Owner \subseteq String /\ Ids \subseteq Seq(ObjectId)
  BY SnapshotAssumption DEF String, Letter
<1>3. a.path \in String /\ a.user \in String /\ a.group \in String /\ a.ids \in Seq(ObjectId)
  BY <1>1, <1>2
<1> QED
  BY <1>3, PathParts, LenProperties

\* An entry keeps its meaning when strings and ids are added.
LEMMA EntryStays ==
    ASSUME NEW fe, NEW b, NEW c, Keeps(b, c), NEW o \in Seq(ObjectId), NEW ids \in Seq(ObjectId),
           SafeEntry(fe, b, o)
    PROVE  SafeEntry(fe, c, o \o ids)
<1>1. /\ Filename(fe.given.path) \in String /\ ParentPath(fe.given.path) \in String
      /\ fe.given.user \in String /\ fe.given.group \in String /\ Len(fe.given.ids) \in Nat
  BY ArgumentParts DEF SafeEntry
<1>2. /\ StringAt(c, fe.name, Filename(fe.given.path))
      /\ StringAt(c, fe.path, ParentPath(fe.given.path))
      /\ StringAt(c, fe.user, fe.given.user)
      /\ StringAt(c, fe.group, fe.given.group)
  BY <1>1, Kept DEF SafeEntry
<1>3. /\ Len(o \o ids) = Len(o) + Len(ids) /\ Len(o) \in Nat /\ Len(ids) \in Nat
      /\ \A i \in 1..Len(o) : (o \o ids)[i] = o[i]
  BY ConcatProperties, LenProperties
<1> DEFINE k == fe.objectIdIndex
           n == fe.objectCount
<1>4. /\ k \in Nat /\ n \in Nat /\ k + n <= Len(o)
      /\ \A i \in 1..n : o[k + i] = fe.given.ids[i]
  BY <1>1 DEF SafeEntry
<1> HIDE DEF k, n
<1>5. /\ k + n <= Len(o \o ids)
      /\ \A i \in 1..n : (o \o ids)[k + i] = fe.given.ids[i]
  BY <1>3, <1>4
<1> QED
  BY <1>2, <1>5 DEF SafeEntry, k, n

\* addFileEntry() records what it is given, or keeps the entry it has, and
\* disturbs no other.
LEMMA AddSafe ==
    ASSUME NEW s, SafeTable(s), SafeImage(s), NEW a \in Argument,
           NEW r, r = addFileEntry(s, a)
    PROVE  SafeTable(r) /\ SafeImage(r)
<1> DEFINE s1 == insertStringTable(s, Filename(a.path))
           s2 == insertStringTable(s1, ParentPath(a.path))
           s3 == insertStringTable(s2, a.user)
           s4 == insertStringTable(s3, a.group)
           fe == [name |-> s1.table[Filename(a.path)], path |-> s2.table[ParentPath(a.path)],
                  user |-> s3.table[a.user], group |-> s4.table[a.group],
                  objectCount |-> Len(a.ids), objectIdIndex |-> Len(s.objects), given |-> a]
<1>0. r = [s4 EXCEPT !.objects = @ \o a.ids,
                     !.files = [p \in DOMAIN @ \cup {a.path} |->
                                    IF p \in DOMAIN @ THEN @[p] ELSE fe]]
  BY DEF addFileEntry
<1> HIDE DEF s1, s2, s3, s4
<1>a. /\ a.path \in String /\ a.user \in String /\ a.group \in String
      /\ Filename(a.path) \in String /\ ParentPath(a.path) \in String
      /\ a.ids \in Seq(ObjectId) /\ Len(a.ids) \in Nat
  BY ArgumentParts
<1>1. /\ SafeTable(s1) /\ Keeps(s.buffer, s1.buffer)
      /\ StringAt(s1.buffer, s1.table[Filename(a.path)], Filename(a.path))
      /\ s1.files = s.files /\ s1.objects = s.objects
  BY <1>a, InsertSafe DEF s1
<1>2. /\ SafeTable(s2) /\ Keeps(s1.buffer, s2.buffer)
      /\ StringAt(s2.buffer, s2.table[ParentPath(a.path)], ParentPath(a.path))
      /\ s2.files = s.files /\ s2.objects = s.objects
  BY <1>a, <1>1, InsertSafe DEF s2
<1>3. /\ SafeTable(s3) /\ Keeps(s2.buffer, s3.buffer)
      /\ StringAt(s3.buffer, s3.table[a.user], a.user)
      /\ s3.files = s.files /\ s3.objects = s.objects
  <2> DEFINE str == a.user
  <2>1. s3 = insertStringTable(s2, str) /\ str \in String
    BY <1>a DEF s3
  <2> HIDE DEF str
  <2>2. /\ SafeTable(s3) /\ Keeps(s2.buffer, s3.buffer)
        /\ StringAt(s3.buffer, s3.table[str], str)
        /\ s3.files = s2.files /\ s3.objects = s2.objects
    BY <1>2, <2>1, InsertSafe
  <2> QED
    BY <1>2, <2>2 DEF str
<1>4. /\ SafeTable(s4) /\ Keeps(s3.buffer, s4.buffer)
      /\ StringAt(s4.buffer, s4.table[a.group], a.group)
      /\ s4.files = s.files /\ s4.objects = s.objects
  <2> DEFINE str == a.group
  <2>1. s4 = insertStringTable(s3, str) /\ str \in String
    BY <1>a DEF s4
  <2> HIDE DEF str
  <2>2. /\ SafeTable(s4) /\ Keeps(s3.buffer, s4.buffer)
        /\ StringAt(s4.buffer, s4.table[str], str)
        /\ s4.files = s3.files /\ s4.objects = s3.objects
    BY <1>3, <2>1, InsertSafe
  <2> QED
    BY <1>3, <2>2 DEF str
<1>5. Keeps(s2.buffer, s4.buffer) /\ Keeps(s1.buffer, s4.buffer) /\ Keeps(s.buffer, s4.buffer)
  BY <1>1, <1>2, <1>3, <1>4, KeepsTransitive
<1> DEFINE o == s.objects
           b == s4.buffer
<1>6. o \in Seq(ObjectId) /\ Len(o) \in Nat
  BY LenProperties DEF SafeImage
<1>7. /\ o \o a.ids \in Seq(ObjectId)
      /\ Len(o \o a.ids) = Len(o) + Len(a.ids)
      /\ \A i \in 1..Len(a.ids) : (o \o a.ids)[Len(o) + i] = a.ids[i]
  <2>1. /\ o \o a.ids \in Seq(ObjectId)
        /\ Len(o \o a.ids) = Len(o) + Len(a.ids)
        /\ \A j \in 1..(Len(o) + Len(a.ids)) :
              (o \o a.ids)[j] = IF j <= Len(o) THEN o[j] ELSE a.ids[j - Len(o)]
    BY <1>a, <1>6, ConcatProperties
  <2>2. \A k, n \in Nat : \A i \in 1..n :
            k + i \in 1..(k + n) /\ ~(k + i <= k) /\ (k + i) - k = i
    OBVIOUS
  <2> HIDE DEF o
  <2> QED
    BY <1>a, <1>6, <2>1, <2>2
<1>8. /\ DOMAIN r = {"files", "table", "buffer", "objects"}
      /\ r.table = s4.table /\ r.buffer = b /\ r.objects = o \o a.ids
      /\ r.files = [p \in DOMAIN s.files \cup {a.path} |->
                        IF p \in DOMAIN s.files THEN s.files[p] ELSE fe]
  BY <1>0, <1>4 DEF SafeTable
<1>9. SafeTable(r)
  BY <1>4, <1>8 DEF SafeTable
<1>10. SafeEntry(fe, b, o \o a.ids)
  <2>1. /\ StringAt(b, fe.name, Filename(a.path))
        /\ StringAt(b, fe.path, ParentPath(a.path))
        /\ StringAt(b, fe.user, a.user)
        /\ StringAt(b, fe.group, a.group)
    BY <1>a, <1>1, <1>2, <1>3, <1>4, <1>5, Kept
  <2>2. /\ DOMAIN fe = {"name", "path", "user", "group", "objectCount", "objectIdIndex", "given"}
        /\ fe.given = a /\ fe.objectCount = Len(a.ids) /\ fe.objectIdIndex = Len(o)
    OBVIOUS
  <2> HIDE DEF fe, o, b
  <2> QED
    BY <1>a, <1>6, <1>7, <2>1, <2>2 DEF SafeEntry
<1>11. \A p \in DOMAIN s.files : SafeEntry(s.files[p], b, o \o a.ids)
  BY <1>a, <1>5, <1>6, EntryStays DEF SafeImage
<1> HIDE DEF fe, o, b
<1>12. \A p \in DOMAIN r.files : SafeEntry(r.files[p], r.buffer, r.objects)
  BY <1>8, <1>10, <1>11
<1>13. IsFiniteSet(DOMAIN r.files) /\ DOMAIN r.files \subseteq String
  BY <1>a, <1>8, FS_AddElement DEF SafeImage, String, Letter
<1> QED
  BY <1>7, <1>8, <1>9, <1>12, <1>13 DEF SafeImage, SafeTable, Buffer, Code, String, Letter

-----------------------------------------------------------------------------
(* Reading entries, and loading *)

\* Of an image that is safe: its buffer, its ids, its keys.
LEMMA ImageParts ==
    ASSUME NEW s, SafeImage(s)
    PROVE  /\ s.buffer \in Buffer
           /\ s.objects \in Seq(ObjectId)
           /\ IsFiniteSet(DOMAIN s.files) /\ DOMAIN s.files \subseteq String
BY DEF SafeImage, Buffer, Code, String, Letter

\* The strings of an entry are those it was given.
LEMMA EntryReads ==
    ASSUME NEW fe, NEW b \in Buffer, NEW o \in Seq(ObjectId), SafeEntry(fe, b, o)
    PROVE  /\ indexToString(b, fe.name) = Filename(fe.given.path)
           /\ indexToString(b, fe.path) = ParentPath(fe.given.path)
           /\ indexToString(b, fe.user) = fe.given.user
           /\ indexToString(b, fe.group) = fe.given.group
<1>1. /\ Filename(fe.given.path) \in String /\ ParentPath(fe.given.path) \in String
      /\ fe.given.user \in String /\ fe.given.group \in String
  BY ArgumentParts DEF SafeEntry
<1>2. fe.name \in Nat /\ fe.path \in Nat /\ fe.user \in Nat /\ fe.group \in Nat
  BY DEF SafeEntry, StringAt
<1> QED
  BY <1>1, <1>2, ReadsBack DEF SafeEntry

\* So are its ids.
LEMMA EntryIds ==
    ASSUME NEW fe, NEW b, NEW o \in Seq(ObjectId), SafeEntry(fe, b, o)
    PROVE  SubSeq(o, fe.objectIdIndex + 1, fe.objectIdIndex + fe.objectCount) = fe.given.ids
<1> DEFINE k == fe.objectIdIndex
           n == fe.objectCount
           ids == fe.given.ids
           part == SubSeq(o, k + 1, k + n)
<1>1. ids \in Seq(ObjectId) /\ Len(ids) \in Nat /\ Len(ids) = n
  BY ArgumentParts DEF SafeEntry
<1>2. /\ k \in Nat /\ n \in Nat /\ k + n <= Len(o) /\ Len(o) \in Nat
      /\ \A i \in 1..n : o[k + i] = ids[i]
  BY <1>1, LenProperties DEF SafeEntry
<1> HIDE DEF k, n, ids
<1>3. /\ k + 1 \in Nat /\ k + n \in Nat /\ 1 <= k + 1 /\ k + 1 <= k + n + 1
      /\ k + n - (k + 1) + 1 = n
      /\ \A i \in 1..n : k + 1 + i - 1 = k + i
  BY <1>2
<1>4. /\ part \in Seq(ObjectId) /\ Len(part) = n
      /\ \A i \in 1..n : part[i] = o[k + i]
  BY <1>2, <1>3, PartOf
<1> HIDE DEF part
<1>5. part = ids
  BY <1>1, <1>2, <1>4, SeqEqual
<1> QED
  BY <1>5 DEF part, k, n, ids

\* The path that is put together for an entry is a string.
LEMMA PathReads ==
    ASSUME NEW fe, NEW b \in Buffer, NEW o \in Seq(ObjectId), SafeEntry(fe, b, o)
    PROVE  PathOf(b, fe) \in String
<1>1. /\ Filename(fe.given.path) \in String /\ ParentPath(fe.given.path) \in String
  BY ArgumentParts DEF SafeEntry
<1>2. PathOf(b, fe) = ParentPath(fe.given.path) \o <<SLASH>> \o Filename(fe.given.path)
  BY EntryReads DEF PathOf
<1>3. <<SLASH>> \in Seq(Letter)
  <2>1. SLASH \in Letter
    BY DEF SLASH, Letter
  <2> QED
    BY <2>1
<1> QED
  BY <1>1, <1>2, <1>3, ConcatProperties DEF String

\* The table that load() builds from the NULs of a buffer is right about it.
LEMMA TableSafe ==
    ASSUME NEW b \in Buffer
    PROVE  /\ DOMAIN StringTable(b) \subseteq String
           /\ \A t \in DOMAIN StringTable(b) : StringAt(b, StringTable(b)[t], t)
<1> DEFINE Starts == StringStarts(b)
           D == {indexToString(b, i) : i \in Starts}
           Right(i, t) == /\ indexToString(b, i) = t
                          /\ \A j \in Starts : indexToString(b, j) = t => j <= i
<1>0. Len(b) \in Nat
  BY DEF Buffer
<1>1. \A i \in Starts : i \in Nat /\ i < Len(b)
  BY <1>0 DEF StringStarts
<1>2. \A i \in Starts : indexToString(b, i) \in String /\ StringAt(b, i, indexToString(b, i))
  BY <1>1, StringFound
<1>3. DOMAIN StringTable(b) = D /\ \A t \in D : StringTable(b)[t] = CHOOSE i \in Starts : Right(i, t)
  BY DEF StringTable
<1> HIDE DEF Starts
<1>4. ASSUME NEW t \in D
      PROVE  t \in String /\ StringAt(b, StringTable(b)[t], t)
  <2> DEFINE T == {i \in Starts : indexToString(b, i) = t}
  <2>1. T # {} /\ T \subseteq 0..Len(b)
    BY <1>0, <1>1
  <2>2. PICK i \in T : \A j \in T : j <= i
    BY <1>0, <2>1, GreatestNumber
  <2>3. i \in Starts /\ Right(i, t)
    BY <2>2
  <2>4. \E k \in Starts : Right(k, t)
    BY <2>3
  <2> DEFINE n == CHOOSE k \in Starts : Right(k, t)
  <2>5. n \in Starts /\ Right(n, t)
    BY <2>4
  <2> HIDE DEF n
  <2>6. t \in String /\ StringAt(b, n, t)
    BY <1>2, <2>5
  <2> QED
    BY <1>3, <2>6 DEF n
<1> QED
  BY <1>3, <1>4

\* Loading a safe image gives a safe snapshot: each entry is one of the image,
\* under the path its strings spell, and no path is missing.
LEMMA LoadSafe ==
    ASSUME NEW img, SafeImage(img), NEW s, s = load(img)
    PROVE  /\ SafeTable(s) /\ SafeImage(s)
           /\ s.buffer = img.buffer
           /\ DOMAIN s.files = {PathOf(img.buffer, img.files[p]) : p \in DOMAIN img.files}
           /\ \A q \in DOMAIN s.files : /\ PathOf(s.buffer, s.files[q]) = q
                                        /\ s.files[q] \in Range(img.files)
<1> DEFINE key(p) == PathOf(img.buffer, img.files[p])
           D == DOMAIN img.files
           K == {key(p) : p \in D}
           Wins(p, q) == /\ key(p) = q
                         /\ \A r \in D : key(r) = q => r = p \/ Before(r, p)
           b == img.buffer
           o == img.objects
<1>0. b \in Buffer /\ o \in Seq(ObjectId) /\ IsFiniteSet(D) /\ D \subseteq String
  BY ImageParts
<1>1. /\ DOMAIN s = {"files", "table", "buffer", "objects"}
      /\ s.buffer = b /\ s.objects = o /\ s.table = StringTable(b)
      /\ DOMAIN s.files = K
      /\ \A q \in K : s.files[q] = img.files[CHOOSE p \in D : Wins(p, q)]
  BY DEF load
<1>2. \A p \in D : SafeEntry(img.files[p], b, o)
  BY DEF SafeImage
<1>3. \A p \in D : key(p) \in String
  BY <1>0, <1>2, PathReads
<1>4. ASSUME NEW q \in K
      PROVE  \E p \in D : s.files[q] = img.files[p] /\ key(p) = q
  <2> DEFINE T == {p \in D : key(p) = q}
  <2> HIDE DEF key
  <2>1. T # {} /\ T \subseteq String /\ T \in SUBSET D
    BY <1>0
  <2>2. IsFiniteSet(T)
    BY <1>0, <2>1, FS_Subset
  <2>3. PICK p \in T : \A r \in T : r = p \/ Before(r, p)
    BY <2>1, <2>2, LastOf
  <2>4. p \in D /\ Wins(p, q)
    BY <2>3
  <2> DEFINE c == CHOOSE r \in D : Wins(r, q)
  <2>5. c \in D /\ Wins(c, q)
    BY <2>4
  <2>6. s.files[q] = img.files[c]
    BY <1>1
  <2> QED
    BY <2>5, <2>6
<1>5. IsFiniteSet(K)
  <2> DEFINE f == [p \in D |-> key(p)]
  <2>1. f \in Surjection(D, K)
    BY DEF Surjection
  <2> QED
    BY <1>0, <2>1, FS_Surjection
<1>6. K \subseteq String
  BY <1>3
<1>7. \A q \in K : /\ SafeEntry(s.files[q], b, o)
                   /\ PathOf(b, s.files[q]) = q
                   /\ s.files[q] \in Range(img.files)
  BY <1>2, <1>4 DEF Range
<1>8. SafeTable(s)
  BY <1>0, <1>1, TableSafe DEF SafeTable
<1>9. SafeImage(s)
  BY <1>0, <1>1, <1>5, <1>6, <1>7 DEF SafeImage, Buffer, Code, String, Letter
<1> QED
  BY <1>1, <1>7, <1>8, <1>9

-----------------------------------------------------------------------------
(* The inductive invariant *)

\* SafeSnapshot in the words of the lemmas.
LEMMA SafeParts ==
    SafeSnapshot <=>
        /\ SafeTable(snap) /\ SafeImage(snap)
        /\ \A img \in image : SafeImage(img)
        /\ fresh => \A p \in DOMAIN snap.files : PathOf(snap.buffer, snap.files[p]) = p
BY ImageParts DEF SafeSnapshot, SafeTable, String, Letter

\* An empty snapshot is safe.
LEMMA InitSafe == SnapInit => SafeSnapshot
<1> SUFFICES ASSUME SnapInit PROVE SafeSnapshot
  OBVIOUS
<1>1. /\ DOMAIN snap = {"files", "table", "buffer", "objects"}
      /\ snap.files = <<>> /\ snap.table = <<>> /\ snap.buffer = <<>> /\ snap.objects = <<>>
      /\ image = {} /\ fresh = FALSE
  BY DEF SnapInit, EmptySnapshot
<1>2. DOMAIN snap.files = {} /\ DOMAIN snap.table = {}
  BY <1>1
<1>3. <<>> \in Seq(0..255) /\ <<>> \in Seq(ObjectId)
  OBVIOUS
<1>4. SafeImage(snap)
  BY <1>1, <1>2, <1>3, FS_EmptySet DEF SafeImage
<1> QED
  BY <1>1, <1>2, <1>4 DEF SafeSnapshot

\* Every operation keeps it.
LEMMA NextSafe == SafeSnapshot /\ [SnapNext]_snapVars => SafeSnapshot'
<1> SUFFICES ASSUME SafeSnapshot, [SnapNext]_snapVars PROVE SafeSnapshot'
  OBVIOUS
<1>0. /\ SafeTable(snap) /\ SafeImage(snap)
      /\ \A img \in image : SafeImage(img)
  BY SafeParts
<1>p. SafeSnapshot' <=>
        /\ SafeTable(snap') /\ SafeImage(snap')
        /\ \A img \in image' : SafeImage(img)
        /\ fresh' => \A p \in DOMAIN snap'.files : PathOf(snap'.buffer, snap'.files[p]) = p
  BY ImageParts DEF SafeSnapshot, SafeTable, String, Letter
<1>1. ASSUME NEW a \in Argument, AddFileEntry(a)
      PROVE  SafeSnapshot'
  <2>1. snap' = addFileEntry(snap, a) /\ fresh' = FALSE /\ image' = image
    BY <1>1 DEF AddFileEntry
  <2>2. SafeTable(snap') /\ SafeImage(snap')
    BY <1>0, <2>1, AddSafe
  <2> QED
    BY <1>0, <1>p, <2>1, <2>2
<1>2. ASSUME NEW p \in DOMAIN snap.files, DeleteFileEntry(p)
      PROVE  SafeSnapshot'
  <2>1. snap' = deleteFileEntry(snap, p) /\ fresh' = FALSE /\ image' = image
    BY <1>2 DEF DeleteFileEntry
  <2>2. /\ DOMAIN snap' = {"files", "table", "buffer", "objects"}
        /\ snap'.buffer = snap.buffer /\ snap'.table = snap.table /\ snap'.objects = snap.objects
        /\ snap'.files = [q \in DOMAIN snap.files \ {p} |-> snap.files[q]]
    BY <1>0, <2>1 DEF deleteFileEntry, SafeTable
  <2>3. SafeTable(snap')
    BY <1>0, <2>2 DEF SafeTable
  <2>4. IsFiniteSet(DOMAIN snap.files \ {p})
    BY <1>0, FS_RemoveElement DEF SafeImage
  <2>5. SafeImage(snap')
    BY <1>0, <2>2, <2>4 DEF SafeImage
  <2> QED
    BY <1>0, <1>p, <2>1, <2>3, <2>5
<1>3. ASSUME Save
      PROVE  SafeSnapshot'
  <2>1. image' = {save(snap)} /\ UNCHANGED <<snap, fresh>>
    BY <1>3 DEF Save
  <2>2. SafeImage(save(snap))
    BY <1>0 DEF SafeImage, save
  <2> QED
    BY <1>0, <1>p, <2>1, <2>2, SafeParts
<1>4. ASSUME Load
      PROVE  SafeSnapshot'
  <2>1. PICK img \in image : snap' = load(img)
    BY <1>4 DEF Load
  <2>2. image' = image
    BY <1>4 DEF Load
  <2>3. /\ SafeTable(snap') /\ SafeImage(snap')
        /\ \A q \in DOMAIN snap'.files : PathOf(snap'.buffer, snap'.files[q]) = q
    BY <1>0, <2>1, LoadSafe
  <2> QED
    BY <1>0, <1>p, <2>2, <2>3
<1>5. ASSUME UNCHANGED snapVars
      PROVE  SafeSnapshot'
  BY <1>5, <1>p, SafeParts DEF snapVars
<1> QED
  BY <1>1, <1>2, <1>3, <1>4, <1>5 DEF SnapNext

\* Every string of the table and every entry, in memory and in the image, is
\* what it was when it was added, over any sequence of operations.
THEOREM SnapshotSafe == SnapSpec => []SafeSnapshot
BY InitSafe, NextSafe, PTL DEF SnapSpec

\* The offsets and the indexes of all entries keep their meaning while entries
\* come and go, and over save() and load().
THEOREM EntriesAlwaysResolve == SnapSpec => []EntriesResolve
<1>1. SafeSnapshot => EntriesResolve
  <2> SUFFICES ASSUME SafeSnapshot, NEW p \in DOMAIN snap.files
               PROVE  LET fe == snap.files[p]
                          str(n) == indexToString(snap.buffer, n)
                      IN  /\ str(fe.name) = Filename(fe.given.path)
                          /\ str(fe.path) = ParentPath(fe.given.path)
                          /\ str(fe.user) = fe.given.user
                          /\ str(fe.group) = fe.given.group
                          /\ SubSeq(snap.objects, fe.objectIdIndex + 1,
                                    fe.objectIdIndex + fe.objectCount) = fe.given.ids
    BY DEF EntriesResolve
  <2>1. snap.buffer \in Buffer /\ snap.objects \in Seq(ObjectId)
    BY SafeParts, ImageParts
  <2>2. SafeEntry(snap.files[p], snap.buffer, snap.objects)
    BY SafeParts DEF SafeImage
  <2> QED
    BY <2>1, <2>2, EntryReads, EntryIds
<1> QED
  BY <1>1, SnapshotSafe, PTL

\* A snapshot that is saved and loaded lists the same paths and has no entry
\* that was not saved.
THEOREM AlwaysRoundTrips == SnapSpec => []RoundTrip
<1>1. SafeSnapshot => RoundTrip
  <2> SUFFICES ASSUME SafeSnapshot PROVE RoundTrip
    OBVIOUS
  <2> DEFINE img == save(snap)
             again == load(img)
             listed(s) == {PathOf(s.buffer, s.files[p]) : p \in DOMAIN s.files}
  <2>1. SafeImage(img) /\ img.buffer = snap.buffer /\ img.files = snap.files
    BY SafeParts DEF SafeImage, save
  <2> HIDE DEF img
  <2>2. /\ again.buffer = img.buffer
        /\ DOMAIN again.files = {PathOf(img.buffer, img.files[p]) : p \in DOMAIN img.files}
        /\ \A q \in DOMAIN again.files : /\ PathOf(again.buffer, again.files[q]) = q
                                         /\ again.files[q] \in Range(img.files)
    BY <2>1, LoadSafe
  <2> HIDE DEF again
  <2>3. listed(again) = DOMAIN again.files
    BY <2>2
  <2>4. DOMAIN again.files = listed(snap)
    BY <2>1, <2>2
  <2>5. Range(again.files) \subseteq Range(snap.files)
    BY <2>1, <2>2 DEF Range
  <2> QED
    BY <2>3, <2>4, <2>5 DEF RoundTrip, again, img
<1> QED
  BY <1>1, SnapshotSafe, PTL

\* The restore of a whole snapshot that was loaded visits every entry and
\* downloads each.
THEOREM RestoreFindsAll == SnapSpec => []RestoreFinds
<1>1. SafeSnapshot => RestoreFinds
  <2> SUFFICES ASSUME SafeSnapshot, fresh
               PROVE  downloadFiles(snap, {}) = Range(snap.files)
    BY DEF RestoreFinds
  <2> DEFINE D == DOMAIN snap.files
             path(p) == PathOf(snap.buffer, snap.files[p])
  <2>1. D \subseteq String /\ \A p \in D : path(p) = p
    BY SafeParts, ImageParts
  <2>2. \A p \in D : p = <<>> \/ Before(<<>>, p)
    <3> SUFFICES ASSUME NEW p \in D, p # <<>>
                 PROVE  Before(<<>>, p)
      OBVIOUS
    <3>1. p \in Seq(Letter)
      BY <2>1 DEF String
    <3>2. Len(<<>>) = 0 /\ Len(p) > 0
      BY <3>1, EmptySeq
    <3>3. SubSeq(p, 1, 0) = <<>>
      BY SubSeqEmpty
    <3> QED
      BY <3>2, <3>3 DEF Before
  <2>3. \A p \in D : Below(path(p), <<>>)
    <3> SUFFICES ASSUME NEW p \in D
                 PROVE  Below(p, <<>>)
      BY <2>1
    <3>1. p \in Seq(Letter) /\ Len(p) \in Nat
      BY <2>1, LenProperties DEF String
    <3>2. SubSeq(p, 1, 0) = <<>> /\ Len(<<>>) = 0
      BY SubSeqEmpty
    <3> QED
      BY <3>1, <3>2 DEF Below
  <2>4. forEachFileEntry(snap, <<>>) = D
    BY <2>2, <2>3 DEF forEachFileEntry
  <2>5. \A p \in D : getFileEntry(snap, path(p)) = {snap.files[p]}
    BY <2>1 DEF getFileEntry
  <2>6. downloadFiles(snap, {}) = UNION {getFileEntry(snap, path(p)) : p \in D}
    BY <2>4 DEF downloadFiles
  <2> QED
    BY <2>5, <2>6 DEF Range
<1> QED
  BY <1>1, SnapshotSafe, PTL

=============================================================================
