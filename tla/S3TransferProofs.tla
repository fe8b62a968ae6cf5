-------------------------- MODULE S3TransferProofs --------------------------
(***************************************************************************)
(* The threads, stream buffers and new attempts of AwsS3DataStore::put and *)
(* get carry every object over whole, for any number of clients, objects   *)
(* of any length and buffers of any size: SafeTransfers is inductive, and  *)
(* what the other modules take a put() to be follows from it.              *)
(***************************************************************************)
EXTENDS S3Transfer, TLAPS

-----------------------------------------------------------------------------
(* Seals and stream buffers *)

\* What compressEncryptHMAC makes of a payload begins as seals do.
LEMMA SealIsSeal ==
    ASSUME NEW by \in Client \X Nat, NEW pay \in Payload
    PROVE  IsSeal(compressEncryptHMAC(by, pay))
<1> DEFINE n == SealLength(pay)
           cells == compressEncryptHMAC(by, pay)
<1>1. n \in Nat \ {0}
  BY PayloadAssumption
<1>2. cells = [k \in 1..n |-> [by |-> by, pay |-> pay, part |-> k]]
  BY DEF compressEncryptHMAC
<1> HIDE DEF n, cells
<1>3. \A k \in 1..n : [by |-> by, pay |-> pay, part |-> k] \in Cell
  BY <1>1 DEF Cell
<1>4. cells \in Seq(Cell) /\ Len(cells) = n /\ cells[1].part = 1
  BY <1>1, <1>2, <1>3
<1> QED
  BY <1>1, <1>4 DEF IsSeal, cells

\* A new get area holds the cells of the stream after its position.
LEMMA AreaFilled ==
    ASSUME NEW data \in Seq(Cell), NEW pos \in Nat, NEW m \in Nat, pos + m <= Len(data)
    PROVE  /\ SubSeq(data, pos + 1, pos + m) \in Seq(Cell)
           /\ Len(SubSeq(data, pos + 1, pos + m)) = m
           /\ \A i \in 1..m : SubSeq(data, pos + 1, pos + m)[i] = data[pos + i]
<1> DEFINE area == SubSeq(data, pos + 1, pos + m)
<1>1. area = [i \in 1..m |-> data[pos + i]]
  OBVIOUS
<1>2. \A i \in 1..m : data[pos + i] \in Cell
  OBVIOUS
<1> HIDE DEF area
<1>3. area \in Seq(Cell) /\ Len(area) = m /\ \A i \in 1..m : area[i] = data[pos + i]
  BY <1>1, <1>2
<1> QED
  BY <1>3 DEF area

\* underflow() leaves the place in the stream as it is, and finds a cell there
\* unless all were taken.
LEMMA UnderflowKeepsPlace ==
    ASSUME NEW b \in InputBuf, NEW n \in Nat, BufAt(b, n), n < Len(b.data)
    PROVE  /\ underflow(b) \in InputBuf /\ underflow(b).data = b.data
           /\ BufAt(underflow(b), n) /\ underflow(b).area # <<>>
<1>1. CASE b.area # <<>>
  BY <1>1 DEF underflow
<1>2. CASE b.area = <<>>
  <2> DEFINE data == b.data
             pos == b.pos
             m == Least(BufferSize, Len(data) - pos)
             area == SubSeq(data, pos + 1, pos + m)
             to == pos + m
             next == b.offset + m
             u == [b EXCEPT !.pos = to, !.offset = next, !.area = area]
  <2>1. data \in Seq(Cell) /\ pos \in Nat /\ b.offset = pos /\ n + 0 = pos /\ n < Len(data)
    BY <1>2 DEF InputBuf, BufAt
  <2>2. underflow(b) = u
    BY <1>2 DEF underflow
  <2> HIDE DEF data, pos
  <2>3. m \in Nat /\ m # 0 /\ pos + m <= Len(data)
    BY <2>1, S3Assumption DEF Least
  <2> HIDE DEF m
  <2>4. area \in Seq(Cell) /\ Len(area) = m /\ \A i \in 1..m : area[i] = data[pos + i]
    BY <2>1, <2>3, AreaFilled
  <2> HIDE DEF area
  <2>5. n = pos /\ next = to /\ to \in Nat /\ n + Len(area) = to /\ area # <<>> /\ to <= Len(data)
    BY <2>1, <2>3, <2>4
  <2> HIDE DEF to, next
  <2>6. u \in InputBuf /\ u.data = data /\ u.pos = to /\ u.offset = to /\ u.area = area
    BY <2>4, <2>5 DEF data, InputBuf
  <2> HIDE DEF u
  <2>7. BufAt(u, n)
    BY <2>4, <2>5, <2>6 DEF BufAt
  <2> QED
    BY <2>2, <2>5, <2>6, <2>7 DEF data
<1> QED
  BY <1>1, <1>2

\* A cell taken from the get area is the next one of the stream.
LEMMA TakeNext ==
    ASSUME NEW b \in InputBuf, NEW n \in Nat, BufAt(b, n), b.area # <<>>
    PROVE  /\ [b EXCEPT !.area = Tail(@)] \in InputBuf
           /\ [b EXCEPT !.area = Tail(@)].data = b.data
           /\ BufAt([b EXCEPT !.area = Tail(@)], n + 1)
           /\ Head(b.area) \in Cell /\ Head(b.area) = b.data[n + 1]
           /\ n + 1 <= Len(b.data)
<1> DEFINE data == b.data
           area == b.area
           pos == b.pos
           rest == Tail(area)
           u == [b EXCEPT !.area = rest]
<1>1. /\ data \in Seq(Cell) /\ area \in Seq(Cell) /\ pos \in Nat /\ area # <<>>
      /\ b.offset = pos /\ n + Len(area) = pos /\ pos <= Len(data)
      /\ \A i \in 1..Len(area) : area[i] = data[n + i]
  BY DEF InputBuf, BufAt
<1>2. [b EXCEPT !.area = Tail(@)] = u
  OBVIOUS
<1> HIDE DEF data, area, pos
<1>3. /\ rest \in Seq(Cell) /\ Len(rest) = Len(area) - 1
      /\ \A i \in 1..(Len(area) - 1) : rest[i] = area[i + 1]
      /\ Head(area) = area[1] /\ Head(area) \in Cell /\ Len(area) \in Nat \ {0}
  BY <1>1
<1> HIDE DEF rest
<1>4. ASSUME NEW i \in 1..Len(rest)
      PROVE  rest[i] = data[n + 1 + i]
  <2>1. i + 1 \in 1..Len(area) /\ i \in 1..(Len(area) - 1) /\ n + (i + 1) = n + 1 + i
    BY <1>3
  <2> QED
    BY <1>1, <1>3, <2>1
<1>5. /\ area[1] = data[n + 1] /\ n + 1 <= Len(data)
      /\ n + 1 + Len(rest) = pos
  BY <1>1, <1>3
<1>6. u \in InputBuf /\ u.data = data /\ u.pos = pos /\ u.offset = pos /\ u.area = rest
  BY <1>1, <1>3 DEF data, pos, InputBuf
<1> HIDE DEF u
<1>7. BufAt(u, n + 1)
  BY <1>1, <1>4, <1>5, <1>6 DEF BufAt
<1> QED
  BY <1>2, <1>3, <1>5, <1>6, <1>7 DEF data, area

\* The seeks of the SDK, to the end for the length and back for an attempt,
\* leave the stream at its beginning.
LEMMA Rewound ==
    ASSUME NEW b \in InputBuf
    PROVE  /\ seekBeg(b) \in InputBuf /\ BufAt(seekBeg(b), 0) /\ seekBeg(b).data = b.data
           /\ seekEnd(b) \in InputBuf /\ seekEnd(b).data = b.data
           /\ tell(seekEnd(b)) = Len(b.data)
<1> DEFINE data == b.data
           size == Len(data)
           beg == seekBeg(b)
           end == seekEnd(b)
<1>1. data \in Seq(Cell)
  BY DEF InputBuf
<1>2. size \in Nat /\ <<>> \in Seq(Cell) /\ Len(<<>>) = 0 /\ 0 \in Nat
  BY <1>1
<1> HIDE DEF size
<1>3. size - 0 = size /\ 0 + 0 = 0 /\ 0 <= size
  BY <1>2
<1>4. beg \in InputBuf /\ beg.data = data /\ beg.pos = 0 /\ beg.offset = 0 /\ beg.area = <<>>
  BY <1>2 DEF seekBeg, InputBuf
<1>5. end \in InputBuf /\ end.data = data /\ end.offset = size /\ end.area = <<>>
  BY <1>2 DEF seekEnd, size, InputBuf
<1> HIDE DEF beg, end, data
<1>6. BufAt(beg, 0)
  BY <1>2, <1>3, <1>4 DEF BufAt, size
<1>7. tell(end) = size
  BY <1>2, <1>3, <1>5 DEF tell
<1> QED
  BY <1>4, <1>5, <1>6, <1>7 DEF beg, end, data, size

\* sync() leaves nothing in the put area.
LEMMA SyncWritesAll ==
    ASSUME NEW b \in OutputBuf
    PROVE  /\ sync(b) \in OutputBuf /\ sync(b).area = <<>> /\ sync(b).out = Got(b)
           /\ Got(b) \in Seq(Cell)
<1> DEFINE area == b.area
           out == b.out
           all == out \o area
<1>1. area \in Seq(Cell) /\ out \in Seq(Cell)
  BY DEF OutputBuf
<1>2. sync(b) = [b EXCEPT !.out = all, !.area = <<>>] /\ Got(b) = all
  BY DEF sync, Got
<1> HIDE DEF area, out
<1>3. all \in Seq(Cell) /\ <<>> \in Seq(Cell)
  BY <1>1
<1> HIDE DEF all
<1> QED
  BY <1>2, <1>3 DEF OutputBuf

\* overflow() writes the cell after the others, and loses none when the put
\* area is full.
LEMMA OverflowAppends ==
    ASSUME NEW b \in OutputBuf, NEW cell \in Cell
    PROVE  /\ overflow(b, cell) \in OutputBuf
           /\ Got(overflow(b, cell)) = Append(Got(b), cell)
<1> DEFINE room == IF Len(b.area) = BufferSize THEN sync(b) ELSE b
           area == room.area
           out == room.out
           more == Append(area, cell)
           o == [room EXCEPT !.area = more]
<1>1. room \in OutputBuf /\ area \in Seq(Cell) /\ out \in Seq(Cell)
  BY SyncWritesAll DEF OutputBuf
<1>2. Got(b) = out \o area
  <2>1. CASE Len(b.area) = BufferSize
    <3>1. area = <<>> /\ out = Got(b) /\ Got(b) \in Seq(Cell)
      BY <2>1, SyncWritesAll
    <3> HIDE DEF area, out
    <3> QED
      BY <3>1
  <2>2. CASE Len(b.area) # BufferSize
    BY <2>2 DEF Got
  <2> QED
    BY <2>1, <2>2
<1>3. overflow(b, cell) = o
  BY DEF overflow
<1> HIDE DEF room
<1>4. more \in Seq(Cell) /\ out \o more = Append(out \o area, cell)
  <2> HIDE DEF area, out
  <2> QED
    BY <1>1
<1> HIDE DEF more
<1>5. o \in OutputBuf /\ o.out = out /\ o.area = more
  BY <1>1, <1>4 DEF OutputBuf
<1> HIDE DEF o, area, out
<1> QED
  BY <1>2, <1>3, <1>4, <1>5 DEF Got

\* The next cell of the object keeps what was written the beginning of it.
LEMMA EndsWithNext ==
    ASSUME NEW got \in Seq(Cell), NEW src \in Seq(Cell), NEW n \in Nat, NEW again,
           EndsWith(got, src, n, again), n < Len(src)
    PROVE  EndsWith(Append(got, src[n + 1]), src, n + 1, again)
<1> DEFINE more == Append(got, src[n + 1])
<1>1. /\ n <= Len(got) /\ (~again => Len(got) = n)
      /\ \A i \in 1..n : got[Len(got) - n + i] = src[i]
  BY DEF EndsWith
<1>2. src[n + 1] \in Cell
  OBVIOUS
<1>3. /\ Len(more) = Len(got) + 1 /\ more[Len(got) + 1] = src[n + 1]
      /\ \A j \in 1..Len(got) : more[j] = got[j]
  BY <1>2
<1> HIDE DEF more
<1>4. ASSUME NEW i \in 1..(n + 1)
      PROVE  more[Len(more) - (n + 1) + i] = src[i]
  <2>1. Len(more) - (n + 1) + i = Len(got) - n + i
    BY <1>3
  <2>2. CASE i = n + 1
    <3>1. Len(got) - n + i = Len(got) + 1
      BY <2>2
    <3> QED
      BY <1>3, <2>1, <2>2, <3>1
  <2>3. CASE i # n + 1
    <3>1. i \in 1..n /\ Len(got) - n + i \in 1..Len(got)
      BY <1>1, <2>3
    <3> QED
      BY <1>1, <1>3, <2>1, <3>1
  <2> QED
    BY <2>2, <2>3
<1>5. n + 1 <= Len(more) /\ (~again => Len(more) = n + 1)
  BY <1>1, <1>3
<1> QED
  BY <1>4, <1>5 DEF EndsWith, more

-----------------------------------------------------------------------------
(* What the steps of either thread make of one call *)

\* What is safe about an upload, in terms of the call.
LEMMA PutParts ==
    ASSUME NEW k
    PROVE  SafePut(k) <=>
               /\ k \in PutCalls
               /\ IsSeal(k.buf.data)
               /\ k.length = Len(k.buf.data)
               /\ Len(k.body) <= k.length
               /\ \A i \in 1..Len(k.body) : k.body[i] = k.buf.data[i]
               /\ k.due \/ k.stored
               /\ k.status = "COMPLETED" => ~k.due
               /\ k.status = "running" => BufAt(k.buf, Len(k.body))
<1> DEFINE r == Request(k)
<1>1. r.path = k.path /\ r.data = k.buf.data /\ r.length = k.length /\ r.body = k.body
  BY DEF Request
<1>2. k \in PutCalls => r \in Requests
  BY DEF Request, Requests, PutCalls, InputBuf
<1> HIDE DEF r
<1>3. SafePut(k) <=> /\ k \in PutCalls
                     /\ SafeRequest(r)
                     /\ k.due \/ k.stored
                     /\ k.status = "COMPLETED" => ~k.due
                     /\ k.status = "running" => BufAt(k.buf, Len(k.body))
  BY DEF SafePut, r
<1> QED
  BY <1>1, <1>2, <1>3 DEF SafeRequest

\* put() begins with the whole seal to send, and its length.
LEMMA PutBegins ==
    ASSUME NEW by \in Client \X Nat, NEW pay \in Payload, NEW path \in Path
    PROVE  LET buf == IOStreamInputBuf(compressEncryptHMAC(by, pay))
               k == PutCall(path, seekBeg(seekEnd(buf)))
           IN  SafePut(k) /\ k.buf.data = compressEncryptHMAC(by, pay) /\ k.path = path
<1> DEFINE seal == compressEncryptHMAC(by, pay)
           buf == IOStreamInputBuf(seal)
           b == seekBeg(seekEnd(buf))
           k == PutCall(path, b)
           size == tell(seekEnd(b))
<1>1. IsSeal(seal)
  BY SealIsSeal
<1> HIDE DEF seal
<1>2. buf \in InputBuf /\ buf.data = seal
  BY <1>1 DEF IOStreamInputBuf, InputBuf, IsSeal
<1> HIDE DEF buf
<1>3. b \in InputBuf /\ BufAt(b, 0) /\ b.data = seal
  BY <1>2, Rewound
<1> HIDE DEF b
<1>4. size = Len(seal)
  BY <1>3, Rewound
<1>5. Len(seal) \in Nat
  BY <1>1 DEF IsSeal
<1>6. k = [op |-> "put", path |-> path, buf |-> b, length |-> size,
           body |-> <<>>, stored |-> FALSE, due |-> TRUE, handle |-> FALSE, cancel |-> FALSE,
           status |-> "running"]
  BY DEF PutCall
<1> HIDE DEF k, size
<1>7. /\ k \in PutCalls /\ k.buf = b /\ k.body = <<>> /\ k.status = "running"
      /\ k.length = size /\ k.due = TRUE
  BY <1>3, <1>4, <1>5, <1>6 DEF PutCalls, Status
<1>8. Len(k.body) = 0 /\ 0 <= Len(seal)
  BY <1>5, <1>7
<1>9. SafePut(k)
  BY <1>1, <1>3, <1>4, <1>7, <1>8, PutParts
<1> QED
  BY <1>3, <1>6, <1>9 DEF k, b, buf, seal

\* get() begins with nothing.
LEMMA GetBegins ==
    ASSUME NEW path \in Path
    PROVE  SafeGet(GetCall(path))
<1> DEFINE k == GetCall(path)
<1>1. /\ k \in GetCalls /\ ~k.asked /\ k.src = <<>> /\ k.again = FALSE /\ k.pos = 0
      /\ k.status = "running" /\ k.buf.out = <<>> /\ k.buf.area = <<>>
  BY DEF GetCall, IOStreamOutputBuf, GetCalls, OutputBuf, Status
<1> HIDE DEF k
<1>2. Got(k.buf) = <<>>
  BY <1>1 DEF Got
<1>3. EndsWith(<<>>, <<>>, 0, FALSE) /\ 0 <= Len(<<>>)
  BY DEF EndsWith
<1>4. EndsWith(Got(k.buf), k.src, k.pos, k.again) /\ k.pos <= Len(k.src)
  BY <1>1, <1>2, <1>3, Zenon
<1>5. SafeGet(k)
  BY <1>1, <1>2, <1>4 DEF SafeGet
<1> QED
  BY <1>5 DEF k

\* A put() and a get() are told apart by their op.
LEMMA PutOrGet ==
    ASSUME NEW k
    PROVE  /\ SafePut(k) => k.op = "put" /\ k.status \in Status
           /\ SafeGet(k) => k.op = "get" /\ k.status \in Status
BY DEF SafePut, SafeGet, PutCalls, GetCalls

\* The handle, a cancellation and the end of an upload leave what was sent.
LEMMA PutKept ==
    ASSUME NEW k, SafePut(k)
    PROVE  /\ SafePut([k EXCEPT !.handle = TRUE])
           /\ SafePut([k EXCEPT !.cancel = TRUE])
           /\ SafePut([k EXCEPT !.status = "FAILED"])
           /\ SafePut([k EXCEPT !.status = "CANCELED"])
           /\ SafePut([k EXCEPT !.stored = TRUE, !.due = FALSE])
           /\ ~k.due => SafePut([k EXCEPT !.status = "COMPLETED"])
<1> DEFINE Same(t) == t.buf = k.buf /\ t.length = k.length /\ t.body = k.body
           Like(t) == /\ t \in PutCalls /\ Same(t)
                      /\ t.due \/ t.stored
                      /\ t.status = "COMPLETED" => ~t.due
                      /\ t.status = "running" => k.status = "running"
<1>1. ASSUME NEW t, Like(t)
      PROVE  SafePut(t)
  BY <1>1, PutParts
<1>2. k \in PutCalls /\ (k.due \/ k.stored) /\ (k.status = "COMPLETED" => ~k.due)
  BY PutParts
<1>3. Like([k EXCEPT !.handle = TRUE]) /\ Like([k EXCEPT !.cancel = TRUE])
  BY <1>2 DEF PutCalls
<1>4. Like([k EXCEPT !.status = "FAILED"]) /\ Like([k EXCEPT !.status = "CANCELED"])
  BY <1>2 DEF PutCalls, Status
<1>5. Like([k EXCEPT !.stored = TRUE, !.due = FALSE])
  BY <1>2 DEF PutCalls
<1>6. ~k.due => Like([k EXCEPT !.status = "COMPLETED"])
  BY <1>2 DEF PutCalls, Status
<1> QED
  BY <1>1, <1>3, <1>4, <1>5, <1>6

\* A request that has sent as many cells as its length has sent all of them.
LEMMA AllSent ==
    ASSUME NEW r, SafeRequest(r), Len(r.body) = r.length
    PROVE  r.body = r.data
<1> DEFINE body == r.body
           data == r.data
<1>1. /\ body \in Seq(Cell) /\ data \in Seq(Cell) /\ Len(body) = Len(data)
      /\ \A i \in 1..Len(body) : body[i] = data[i]
  BY DEF SafeRequest, Requests
<1> HIDE DEF body, data
<1>2. body = data
  BY <1>1
<1> QED
  BY <1>2 DEF body, data

\* The worker sends the next cell: there is one in the buffer.
LEMMA SendsNext ==
    ASSUME NEW k, SafePut(k), k.status = "running", Len(k.body) < k.length
    PROVE  LET b == underflow(k.buf)
           IN  /\ b.area # <<>>
               /\ SafePut([k EXCEPT !.buf = [b EXCEPT !.area = Tail(@)],
                                    !.body = Append(@, Head(b.area))])
<1> DEFINE b == underflow(k.buf)
           u == [b EXCEPT !.area = Tail(@)]
           data == k.buf.data
           body == k.body
           n == Len(body)
           more == Append(body, Head(b.area))
           t == [k EXCEPT !.buf = u, !.body = more]
<1>1. /\ k \in PutCalls /\ k.buf \in InputBuf /\ IsSeal(data) /\ k.length = Len(data)
      /\ body \in Seq(Cell) /\ BufAt(k.buf, n) /\ data \in Seq(Cell)
      /\ n < Len(data) /\ \A i \in 1..n : body[i] = data[i]
  BY PutParts DEF PutCalls, InputBuf
<1> HIDE DEF body
<1>2. n \in Nat
  BY <1>1
<1> HIDE DEF n
<1>3. b \in InputBuf /\ b.data = data /\ BufAt(b, n) /\ b.area # <<>>
  BY <1>1, <1>2, UnderflowKeepsPlace
<1> HIDE DEF b
<1>4. /\ u \in InputBuf /\ u.data = data /\ BufAt(u, n + 1) /\ Head(b.area) \in Cell
      /\ Head(b.area) = data[n + 1] /\ n + 1 <= Len(data)
  BY <1>2, <1>3, TakeNext
<1> HIDE DEF u, data
<1>5. /\ more \in Seq(Cell) /\ Len(more) = n + 1
      /\ \A i \in 1..(n + 1) : more[i] = data[i]
  <2>1. /\ more \in Seq(Cell) /\ Len(more) = n + 1 /\ more[n + 1] = Head(b.area)
        /\ \A i \in 1..n : more[i] = body[i]
    BY <1>1, <1>4 DEF n
  <2> HIDE DEF more
  <2>2. \A i \in 1..(n + 1) : i = n + 1 \/ i \in 1..n
    BY <1>2
  <2> QED
    BY <1>1, <1>4, <2>1, <2>2
<1> HIDE DEF more
<1>6. /\ t \in PutCalls /\ t.buf = u /\ t.body = more /\ t.length = k.length
      /\ t.status = k.status /\ t.stored = k.stored /\ t.due = k.due
  BY <1>1, <1>4, <1>5 DEF PutCalls
<1> HIDE DEF t
<1>7. SafePut(t)
  BY <1>1, <1>4, <1>5, <1>6, PutParts
<1> QED
  BY <1>3, <1>7 DEF t, u, more, b, body

\* A new attempt to upload begins with the first cell.
LEMMA SendsAgain ==
    ASSUME NEW k, SafePut(k)
    PROVE  k.status = "running" => SafePut([k EXCEPT !.buf = seekBeg(@), !.body = <<>>, !.due = TRUE])
<1> DEFINE b == seekBeg(k.buf)
           t == [k EXCEPT !.buf = b, !.body = <<>>, !.due = TRUE]
<1>1. k \in PutCalls /\ k.buf \in InputBuf
  BY DEF SafePut, PutCalls
<1>2. b \in InputBuf /\ BufAt(b, 0) /\ b.data = k.buf.data
  BY <1>1, Rewound
<1>3. Len(<<>>) = 0 /\ <<>> \in Seq(Cell) /\ 0 <= k.length
  BY DEF SafePut, PutCalls
<1> HIDE DEF b
<1>4. /\ t \in PutCalls /\ t.buf = b /\ t.body = <<>> /\ t.length = k.length
      /\ t.status = k.status /\ t.due = TRUE
  BY <1>1, <1>2, <1>3 DEF PutCalls
<1> HIDE DEF t
<1>5. k.status = "running" => SafePut(t)
  BY <1>2, <1>3, <1>4, PutParts
<1> QED
  BY <1>5 DEF t, b

\* The handle, a cancellation and a failed download leave what was received.
LEMMA GetKept ==
    ASSUME NEW k, SafeGet(k)
    PROVE  /\ SafeGet([k EXCEPT !.handle = TRUE])
           /\ SafeGet([k EXCEPT !.cancel = TRUE])
           /\ SafeGet([k EXCEPT !.status = "FAILED"])
           /\ SafeGet([k EXCEPT !.status = "CANCELED"])
<1> DEFINE Same(t) == /\ t.buf = k.buf /\ t.src = k.src /\ t.pos = k.pos
                      /\ t.asked = k.asked /\ t.again = k.again
           Like(t) == /\ t \in GetCalls /\ Same(t)
                      /\ t.status = k.status \/ t.status \in {"FAILED", "CANCELED"}
<1>1. ASSUME NEW t, Like(t)
      PROVE  SafeGet(t)
  BY <1>1 DEF SafeGet
<1>2. k \in GetCalls
  BY DEF SafeGet
<1>3. Like([k EXCEPT !.handle = TRUE]) /\ Like([k EXCEPT !.cancel = TRUE])
  BY <1>2 DEF GetCalls
<1>4. Like([k EXCEPT !.status = "FAILED"]) /\ Like([k EXCEPT !.status = "CANCELED"])
  BY <1>2 DEF GetCalls, Status
<1> QED
  BY <1>1, <1>3, <1>4

\* A new attempt to download an object that is a seal has received none of it.
LEMMA Attempts ==
    ASSUME NEW k, SafeGet(k), k.status = "running",
           \A p \in DOMAIN files : IsSeal(files[p])
    PROVE  /\ ~k.asked => SafeGet(Attempt(k))
           /\ SafeGet([Attempt(k) EXCEPT !.again = TRUE]) \/ ~k.asked
<1>1. k \in GetCalls /\ Got(k.buf) \in Seq(Cell)
  BY SyncWritesAll DEF SafeGet, GetCalls
<1>2. CASE k.path \notin DOMAIN files
  <2>1. Attempt(k) = [k EXCEPT !.status = "FAILED"]
    BY <1>2 DEF Attempt
  <2>2. SafeGet(Attempt(k))
    BY <2>1, GetKept
  <2> DEFINE f == Attempt(k)
             t == [f EXCEPT !.again = TRUE]
  <2>3. /\ f \in GetCalls /\ f.status = "FAILED"
        /\ f.asked => IsSeal(f.src)
        /\ f.asked = k.asked /\ f.pos <= Len(f.src)
    BY <1>1, <2>1, <2>2 DEF SafeGet, GetCalls
  <2> HIDE DEF f
  <2>4. /\ t \in GetCalls /\ t.status = "FAILED" /\ t.asked = f.asked /\ t.src = f.src
        /\ t.pos = f.pos
    BY <2>3 DEF GetCalls
  <2> HIDE DEF t
  <2>5. k.asked => SafeGet(t)
    BY <2>3, <2>4 DEF SafeGet
  <2> QED
    BY <2>2, <2>5 DEF t, f
<1>3. CASE k.path \in DOMAIN files
  <2> DEFINE src == files[k.path]
             f == [k EXCEPT !.src = src, !.pos = 0, !.asked = TRUE]
             t == [f EXCEPT !.again = TRUE]
             got == Got(k.buf)
  <2>1. IsSeal(src) /\ src \in Seq(Cell) /\ Attempt(k) = f
    BY <1>3 DEF Attempt, IsSeal
  <2> HIDE DEF src
  <2>2. /\ f \in GetCalls /\ f.src = src /\ f.pos = 0 /\ f.asked = TRUE
        /\ f.again = k.again /\ f.status = "running" /\ f.buf = k.buf
    BY <1>1, <2>1 DEF GetCalls
  <2> HIDE DEF f
  <2>3. /\ t \in GetCalls /\ t.src = src /\ t.pos = 0 /\ t.asked = TRUE
        /\ t.again = TRUE /\ t.status = "running" /\ t.buf = k.buf
    BY <2>2 DEF GetCalls
  <2> HIDE DEF t
  <2>4. 0 <= Len(src) /\ 0 <= Len(got)
    <3> HIDE DEF got
    <3> QED
      BY <1>1, <2>1 DEF got
  <2>5. EndsWith(got, src, 0, TRUE)
    BY <2>4 DEF EndsWith
  <2>6. SafeGet(t)
    BY <2>1, <2>3, <2>4, <2>5 DEF SafeGet
  <2>7. ASSUME ~k.asked
        PROVE  SafeGet(f)
    <3>1. k.again = FALSE /\ got = <<>>
      BY <1>1, <2>7 DEF SafeGet, GetCalls
    <3>2. EndsWith(<<>>, src, 0, FALSE)
      BY DEF EndsWith
    <3> QED
      BY <2>1, <2>2, <2>4, <3>1, <3>2 DEF SafeGet
  <2> QED
    BY <2>1, <2>6, <2>7 DEF t
<1> QED
  BY <1>2, <1>3

\* The worker writes the next cell of the object.
LEMMA ReceivesNext ==
    ASSUME NEW k, SafeGet(k), k.status = "running", k.asked, k.pos < Len(k.src)
    PROVE  SafeGet([k EXCEPT !.pos = @ + 1, !.buf = overflow(@, k.src[k.pos + 1])])
<1> DEFINE src == k.src
           pos == k.pos
           next == pos + 1
           got == Got(k.buf)
           b == overflow(k.buf, src[next])
           t == [k EXCEPT !.pos = next, !.buf = b]
<1>1. /\ k \in GetCalls /\ k.buf \in OutputBuf /\ IsSeal(src) /\ src \in Seq(Cell)
      /\ pos \in Nat /\ pos < Len(src) /\ EndsWith(got, src, pos, k.again)
  BY DEF SafeGet, GetCalls
<1>2. got \in Seq(Cell)
  BY <1>1, SyncWritesAll
<1> HIDE DEF src, pos
<1>3. src[next] \in Cell /\ next \in Nat /\ next <= Len(src)
  BY <1>1
<1>4. b \in OutputBuf /\ Got(b) = Append(got, src[next])
  BY <1>1, <1>3, OverflowAppends
<1> HIDE DEF got
<1>5. EndsWith(Append(got, src[next]), src, next, k.again)
  BY <1>1, <1>2, EndsWithNext
<1> HIDE DEF next, b
<1>6. /\ t \in GetCalls /\ t.pos = next /\ t.buf = b /\ t.src = src /\ t.asked = k.asked
      /\ t.again = k.again /\ t.status = "running"
  BY <1>1, <1>3, <1>4 DEF GetCalls, src
<1> HIDE DEF t
<1>7. SafeGet(t)
  BY <1>1, <1>3, <1>4, <1>5, <1>6 DEF SafeGet
<1> QED
  BY <1>7 DEF t, b, next, src, pos

\* A download that received the whole object has written it.
LEMMA Delivers ==
    ASSUME NEW k, SafeGet(k), k.status = "running", k.asked, k.pos = Len(k.src)
    PROVE  SafeGet([k EXCEPT !.buf = sync(@), !.status = "COMPLETED"])
<1> DEFINE b == sync(k.buf)
           t == [k EXCEPT !.buf = b, !.status = "COMPLETED"]
<1>1. /\ k \in GetCalls /\ k.buf \in OutputBuf /\ IsSeal(k.src)
      /\ EndsWith(Got(k.buf), k.src, k.pos, k.again) /\ k.pos <= Len(k.src)
  BY DEF SafeGet, GetCalls
<1>2. b \in OutputBuf /\ b.out = Got(k.buf)
  BY <1>1, SyncWritesAll
<1> HIDE DEF b
<1>3. /\ t \in GetCalls /\ t.buf = b /\ t.src = k.src /\ t.pos = k.pos
      /\ t.asked = k.asked /\ t.again = k.again /\ t.status = "COMPLETED"
  BY <1>1, <1>2 DEF GetCalls, Status
<1> HIDE DEF t
<1>4. SafeGet(t)
  BY <1>1, <1>2, <1>3 DEF SafeGet
<1> QED
  BY <1>4 DEF t, b

-----------------------------------------------------------------------------
(* The invariant *)

\* Nothing is transferred at first.
LEMMA InitTransfers == Init => SafeTransfers
BY DEF Init, SafeTransfers

\* A step of one call that leaves it safe, and the bucket with seals, leaves
\* everything safe.
LEMMA CallUpdated ==
    ASSUME SafeTransfers, NEW c \in DOMAIN call, NEW k, Update(c, k),
           SafePut(k) \/ SafeGet(k), \A p \in DOMAIN files' : IsSeal(files'[p])
    PROVE  SafeTransfers'
<1>1. /\ DOMAIN call' = DOMAIN call /\ call'[c] = k
      /\ \A d \in DOMAIN call : d # c => call'[d] = call[d]
      /\ late' = late /\ calls' = calls
  BY DEF Update, SetCall
<1>2. \A d \in DOMAIN call' : SafePut(call'[d]) \/ SafeGet(call'[d])
  BY <1>1 DEF SafeTransfers
<1> QED
  BY <1>1, <1>2 DEF SafeTransfers

\* A call that begins.
LEMMA CallBegun ==
    ASSUME SafeTransfers, NEW c, NEW k, Begin(c, k), SafePut(k) \/ SafeGet(k)
    PROVE  SafeTransfers'
<1>1. /\ \A d \in DOMAIN call' : d # c => d \in DOMAIN call /\ call'[d] = call[d]
      /\ call'[c] = k /\ late' = late /\ files' = files /\ calls' = calls + 1
  BY DEF Begin, With
<1>2. \A d \in DOMAIN call' : SafePut(call'[d]) \/ SafeGet(call'[d])
  BY <1>1 DEF SafeTransfers
<1>3. calls' \in Nat
  BY <1>1 DEF SafeTransfers
<1> QED
  BY <1>1, <1>2, <1>3 DEF SafeTransfers

\* A call that ends, whose upload may still be stored.
LEMMA CallLeft ==
    ASSUME SafeTransfers, NEW c \in DOMAIN call, Leave(c)
    PROVE  SafeTransfers'
<1>1. /\ \A d \in DOMAIN call' : d \in DOMAIN call /\ call'[d] = call[d]
      /\ files' = files /\ calls' = calls
      /\ \A r \in late' : r \in late \/ (r = Request(call[c]) /\ call[c].op = "put")
  BY DEF Leave, Without
<1>2. \A r \in late' : SafeRequest(r)
  BY <1>1, PutOrGet DEF SafeTransfers, SafePut
<1> QED
  BY <1>1, <1>2 DEF SafeTransfers

\* An object that is stored whole is a seal.
LEMMA SealStored ==
    ASSUME SafeTransfers, NEW r, SafeRequest(r), Len(r.body) = r.length,
           files' = With(files, r.path, r.body)
    PROVE  \A p \in DOMAIN files' : IsSeal(files'[p])
<1>1. IsSeal(r.body)
  BY AllSent DEF SafeRequest
<1> QED
  BY <1>1 DEF SafeTransfers, With

\* A running call is a put() or a get(), as its op says.
LEMMA RunningCall ==
    ASSUME SafeTransfers, NEW c \in DOMAIN call
    PROVE  /\ call[c].op = "put" <=> SafePut(call[c])
           /\ call[c].op = "get" <=> SafeGet(call[c])
BY PutOrGet DEF SafeTransfers

\* Every step of the callers, of the workers and of S3 keeps SafeTransfers.
LEMMA NextTransfers == SafeTransfers /\ [Next]_s3Vars => SafeTransfers'
<1> SUFFICES ASSUME SafeTransfers, [Next]_s3Vars
             PROVE  SafeTransfers'
  OBVIOUS
<1>1. ASSUME UNCHANGED s3Vars
      PROVE  SafeTransfers'
  BY <1>1 DEF SafeTransfers, s3Vars
<1>s. \A p \in DOMAIN files : IsSeal(files[p])
  BY DEF SafeTransfers
<1>2. ASSUME NEW c \in Client, NEW path \in Path, NEW pay \in Payload, Put(c, path, pay)
      PROVE  SafeTransfers'
  <2>1. <<c, calls>> \in Client \X Nat
    BY DEF SafeTransfers
  <2> DEFINE by == <<c, calls>>
             k == PutCall(path, seekBeg(seekEnd(
                             IOStreamInputBuf(compressEncryptHMAC(by, pay)))))
  <2>2. Begin(c, k)
    BY <1>2 DEF Put
  <2> HIDE DEF by
  <2>3. SafePut(k)
    BY <2>1, PutBegins DEF by
  <2> HIDE DEF k
  <2> QED
    BY <2>2, <2>3, CallBegun
<1>3. ASSUME NEW c \in Client, NEW path \in Path, Get(c, path)
      PROVE  SafeTransfers'
  BY <1>3, GetBegins, CallBegun DEF Get
<1>4. ASSUME NEW c, AssignHandle(c)
      PROVE  SafeTransfers'
  <2>1. SafePut([call[c] EXCEPT !.handle = TRUE]) \/ SafeGet([call[c] EXCEPT !.handle = TRUE])
    BY <1>4, PutKept, GetKept DEF SafeTransfers, AssignHandle
  <2> QED
    BY <1>4, <1>s, <2>1, CallUpdated DEF AssignHandle
<1>5. ASSUME NEW c, Return(c)
      PROVE  SafeTransfers'
  BY <1>5, CallLeft DEF Return
<1>6. ASSUME NEW c, Send(c)
      PROVE  SafeTransfers'
  <2> DEFINE b == underflow(call[c].buf)
             k == [call[c] EXCEPT !.buf = [b EXCEPT !.area = Tail(@)],
                                  !.body = Append(@, Head(b.area))]
  <2>1. /\ c \in DOMAIN call /\ SafePut(call[c]) /\ call[c].status = "running"
        /\ Len(call[c].body) < call[c].length
    BY <1>6, RunningCall DEF Send, Running
  <2>2. b.area # <<>> /\ SafePut(k)
    BY <2>1, SendsNext
  <2>3. Update(c, k) /\ files' = files
    BY <1>6, <2>2 DEF Send
  <2> HIDE DEF k
  <2> QED
    BY <1>s, <2>1, <2>2, <2>3, CallUpdated
<1>7. ASSUME NEW c, Resend(c)
      PROVE  SafeTransfers'
  <2> DEFINE k == [call[c] EXCEPT !.buf = seekBeg(@), !.body = <<>>, !.due = TRUE]
  <2>1. /\ c \in DOMAIN call /\ SafePut(call[c]) /\ call[c].status = "running"
        /\ call' = [call EXCEPT ![c] = k] /\ files' = files /\ calls' = calls
        /\ \A r \in late' : r \in late \/ r = Request(call[c])
    BY <1>7, RunningCall DEF Resend, Running, SetCall
  <2>2. SafePut(k)
    BY <2>1, SendsAgain
  <2> HIDE DEF k
  <2>3. \A d \in DOMAIN call' : SafePut(call'[d]) \/ SafeGet(call'[d])
    BY <2>1, <2>2 DEF SafeTransfers
  <2>4. \A r \in late' : SafeRequest(r)
    BY <2>1 DEF SafeTransfers, SafePut
  <2> QED
    BY <1>s, <2>1, <2>3, <2>4 DEF SafeTransfers
<1>8. ASSUME NEW c, Stored(c)
      PROVE  SafeTransfers'
  <2>1. /\ c \in DOMAIN call /\ SafePut(call[c]) /\ Len(call[c].body) = call[c].length
        /\ files' = With(files, call[c].path, call[c].body)
        /\ Update(c, [call[c] EXCEPT !.stored = TRUE, !.due = FALSE])
    BY <1>8, RunningCall DEF Stored, Sent
  <2>2. SafePut([call[c] EXCEPT !.stored = TRUE, !.due = FALSE])
    BY <2>1, PutKept
  <2> DEFINE r == Request(call[c])
  <2>4. SafeRequest(r) /\ r.path = call[c].path /\ r.body = call[c].body /\ r.length = call[c].length
    BY <2>1 DEF SafePut, Request
  <2> HIDE DEF r
  <2>3. \A p \in DOMAIN files' : IsSeal(files'[p])
    BY <2>1, <2>4, SealStored
  <2> QED
    BY <2>1, <2>2, <2>3, CallUpdated
<1>9. ASSUME NEW t \in late, StoredLate(t)
      PROVE  SafeTransfers'
  <2>1. \A p \in DOMAIN files' : IsSeal(files'[p])
    BY <1>9, SealStored DEF StoredLate, SafeTransfers
  <2>2. call' = call /\ calls' = calls /\ late' \subseteq late
    BY <1>9 DEF StoredLate
  <2> QED
    BY <2>1, <2>2 DEF SafeTransfers
<1>10. ASSUME NEW c, Uploaded(c)
       PROVE  SafeTransfers'
  <2>1. /\ c \in DOMAIN call /\ SafePut(call[c]) /\ ~call[c].due /\ files' = files
        /\ Update(c, [call[c] EXCEPT !.status = "COMPLETED"])
    BY <1>10, RunningCall DEF Uploaded, Running
  <2>2. SafePut([call[c] EXCEPT !.status = "COMPLETED"])
    BY <2>1, PutKept
  <2> QED
    BY <1>s, <2>1, <2>2, CallUpdated
<1>11. ASSUME NEW c, Ask(c)
       PROVE  SafeTransfers'
  <2>1. /\ c \in DOMAIN call /\ SafeGet(call[c]) /\ call[c].status = "running"
        /\ ~call[c].asked /\ files' = files /\ Update(c, Attempt(call[c]))
    BY <1>11, RunningCall DEF Ask, Running
  <2>2. SafeGet(Attempt(call[c]))
    BY <1>s, <2>1, Attempts
  <2> QED
    BY <1>s, <2>1, <2>2, CallUpdated
<1>12. ASSUME NEW c, AskAgain(c)
       PROVE  SafeTransfers'
  <2>1. /\ c \in DOMAIN call /\ SafeGet(call[c]) /\ call[c].status = "running"
        /\ call[c].asked /\ files' = files
        /\ Update(c, [Attempt(call[c]) EXCEPT !.again = TRUE])
    BY <1>12, RunningCall DEF AskAgain, Running
  <2>2. SafeGet([Attempt(call[c]) EXCEPT !.again = TRUE])
    BY <1>s, <2>1, Attempts
  <2> QED
    BY <1>s, <2>1, <2>2, CallUpdated
<1>13. ASSUME NEW c, Receive(c)
       PROVE  SafeTransfers'
  <2> DEFINE k == [call[c] EXCEPT !.pos = @ + 1,
                                  !.buf = overflow(@, call[c].src[call[c].pos + 1])]
  <2>1. /\ c \in DOMAIN call /\ SafeGet(call[c]) /\ call[c].status = "running"
        /\ call[c].asked /\ call[c].pos < Len(call[c].src) /\ files' = files /\ Update(c, k)
    BY <1>13, RunningCall DEF Receive, Running
  <2>2. SafeGet(k)
    BY <2>1, ReceivesNext
  <2> HIDE DEF k
  <2> QED
    BY <1>s, <2>1, <2>2, CallUpdated
<1>14. ASSUME NEW c, Downloaded(c)
       PROVE  SafeTransfers'
  <2> DEFINE k == [call[c] EXCEPT !.buf = sync(@), !.status = "COMPLETED"]
  <2>1. /\ c \in DOMAIN call /\ SafeGet(call[c]) /\ call[c].status = "running"
        /\ call[c].asked /\ call[c].pos = Len(call[c].src) /\ files' = files /\ Update(c, k)
    BY <1>14, RunningCall DEF Downloaded, Running
  <2>2. SafeGet(k)
    BY <2>1, Delivers
  <2> HIDE DEF k
  <2> QED
    BY <1>s, <2>1, <2>2, CallUpdated
<1>15. ASSUME NEW c, Fail(c)
       PROVE  SafeTransfers'
  <2>1. /\ SafePut([call[c] EXCEPT !.status = "FAILED"])
              \/ SafeGet([call[c] EXCEPT !.status = "FAILED"])
        /\ c \in DOMAIN call /\ files' = files
    BY <1>15, PutKept, GetKept DEF SafeTransfers, Fail, Transferring
  <2> QED
    BY <1>15, <1>s, <2>1, CallUpdated DEF Fail
<1>16. ASSUME NEW c, ProgressSaysNo(c)
       PROVE  SafeTransfers'
  <2>1. /\ SafePut([call[c] EXCEPT !.cancel = TRUE])
              \/ SafeGet([call[c] EXCEPT !.cancel = TRUE])
        /\ c \in DOMAIN call
    BY <1>16, PutKept, GetKept DEF SafeTransfers, ProgressSaysNo, Transferring
  <2>2. CASE Update(c, [call[c] EXCEPT !.cancel = TRUE]) /\ UNCHANGED files
    BY <1>s, <2>1, <2>2, CallUpdated
  <2>3. CASE Leave(c)
    BY <2>1, <2>3, CallLeft
  <2> QED
    BY <1>16, <2>2, <2>3 DEF ProgressSaysNo
<1>17. ASSUME NEW c, Cancelled(c)
       PROVE  SafeTransfers'
  <2>1. /\ SafePut([call[c] EXCEPT !.status = "CANCELED"])
              \/ SafeGet([call[c] EXCEPT !.status = "CANCELED"])
        /\ c \in DOMAIN call /\ files' = files
    BY <1>17, PutKept, GetKept DEF SafeTransfers, Cancelled, Transferring
  <2> QED
    BY <1>17, <1>s, <2>1, CallUpdated DEF Cancelled
<1> QED
  BY <1>1, <1>2, <1>3, <1>4, <1>5, <1>6, <1>7, <1>8, <1>9, <1>10, <1>11, <1>12, <1>13,
     <1>14, <1>15, <1>16, <1>17
  DEF Next, Caller, Worker

\* SafeTransfers always holds: S3 never holds part of a seal, and no stream
\* buffer, seek or new attempt of the SDK loses, repeats or reorders a cell.
THEOREM TransfersSafe == Spec => []SafeTransfers
BY InitTransfers, NextTransfers, PTL DEF Spec

-----------------------------------------------------------------------------
(* What follows from it *)

\* The position that the SDK is told is that of the next cell to send.
LEMMA PositionOfPut ==
    ASSUME NEW k, SafePut(k), k.status = "running"
    PROVE  /\ k.length = Len(k.buf.data) /\ tell(k.buf) = Len(k.body)
           /\ k.body = SubSeq(k.buf.data, 1, Len(k.body))
<1> DEFINE body == k.body
           data == k.buf.data
           area == k.buf.area
           pos == k.buf.pos
<1>1. /\ body \in Seq(Cell) /\ data \in Seq(Cell) /\ area \in Seq(Cell) /\ pos \in Nat
      /\ k.length = Len(data) /\ Len(body) <= Len(data) /\ k.buf.offset = pos
      /\ Len(body) + Len(area) = pos /\ \A i \in 1..Len(body) : body[i] = data[i]
  BY PutParts DEF PutCalls, InputBuf, BufAt
<1>2. tell(k.buf) = k.buf.offset - Len(area)
  BY DEF tell
<1> HIDE DEF body, data, area, pos
<1>3. tell(k.buf) = Len(body)
  BY <1>1, <1>2
<1>4. /\ SubSeq(data, 1, Len(body)) \in Seq(Cell)
      /\ Len(SubSeq(data, 1, Len(body))) = Len(body)
      /\ \A i \in 1..Len(body) : SubSeq(data, 1, Len(body))[i] = data[i]
  BY <1>1
<1>5. body = SubSeq(data, 1, Len(body))
  BY <1>1, <1>4
<1> QED
  BY <1>1, <1>3, <1>5 DEF body, data

\* PositionsAgree always holds: the seek for the length and the new attempts
\* leave IOStreamInputBuf where the SDK takes it to be.
THEOREM PositionsAlwaysAgree == Spec => []PositionsAgree
<1>1. SafeTransfers => PositionsAgree
  BY RunningCall, PositionOfPut DEF PositionsAgree
<1> QED
  BY <1>1, TransfersSafe, PTL

\* What ends with a seal and verifies is the seal: its cells are numbered, and
\* only the first is 1.
LEMMA VerifiedIsLast ==
    ASSUME NEW out \in Seq(Cell), NEW src, NEW again, IsSeal(src),
           EndsWith(out, src, Len(src), again), VerifiesHMAC(out)
    PROVE  Len(out) = Len(src)
<1> DEFINE by == out[1].by
           pay == out[1].pay
           n == SealLength(pay)
           first == Len(out) - Len(src) + 1
<1>1. src \in Seq(Cell) /\ Len(src) \in Nat \ {0} /\ src[1].part = 1
  BY DEF IsSeal
<1>2. out = [i \in 1..n |-> [by |-> by, pay |-> pay, part |-> i]]
  BY DEF VerifiesHMAC, compressEncryptHMAC
<1> HIDE DEF n, by, pay
<1>3. Len(src) <= Len(out) /\ out[Len(out) - Len(src) + 1] = src[1]
  BY <1>1 DEF EndsWith
<1>4. first \in 1..Len(out)
  BY <1>1, <1>3
<1>5. DOMAIN out = 1..n /\ DOMAIN out = 1..Len(out)
  <2>1. DOMAIN out = 1..n
    BY <1>2, Zenon
  <2>2. DOMAIN out = 1..Len(out)
    OBVIOUS
  <2> QED
    BY <2>1, <2>2
<1> HIDE DEF first
<1>6. out[first].part = first
  <2> DEFINE cell(i) == [by |-> by, pay |-> pay, part |-> i]
  <2>1. \A i \in 1..n : out[i] = cell(i)
    BY <1>2
  <2>2. \A i : cell(i).part = i
    OBVIOUS
  <2> HIDE DEF cell
  <2> QED
    BY <1>4, <1>5, <2>1, <2>2
<1>7. out[first] = src[1]
  BY <1>3 DEF first
<1>8. first = 1
  BY <1>1, <1>6, <1>7
<1> QED
  BY <1>1, <1>3, <1>8 DEF first

\* GetDelivers always holds: a get() that succeeds has the whole object, or
\* something that the HMAC rejects.
THEOREM GetsDeliver == Spec => []GetDelivers
<1>1. ASSUME SafeTransfers, NEW c \in DOMAIN call, call[c].op = "get",
             call[c].status = "COMPLETED"
      PROVE  LET out == call[c].buf.out
             IN  IF call[c].again THEN VerifiesHMAC(out) => out = call[c].src
                                  ELSE out = call[c].src
  <2> DEFINE out == call[c].buf.out
             src == call[c].src
             again == call[c].again
  <2>1. SafeGet(call[c])
    BY <1>1, RunningCall
  <2>2. /\ out \in Seq(Cell) /\ src \in Seq(Cell) /\ EndsWith(out, src, Len(src), again)
        /\ again \in BOOLEAN
    BY <1>1, <2>1 DEF SafeGet, GetCalls, OutputBuf
  <2>3. again => IsSeal(src)
    BY <1>1, <2>1 DEF SafeGet
  <2> HIDE DEF out, src, again
  <2>4. ASSUME Len(out) = Len(src)
        PROVE  out = src
    <3>1. Len(src) \in Nat /\ \A i \in 1..Len(src) : Len(out) - Len(src) + i = i
      BY <2>2, <2>4
    <3>2. \A i \in 1..Len(src) : out[i] = src[i]
      BY <2>2, <3>1 DEF EndsWith
    <3> QED
      BY <2>2, <2>4, <3>2
  <2>5. ~again => Len(out) = Len(src)
    BY <2>2 DEF EndsWith
  <2>6. again /\ VerifiesHMAC(out) => Len(out) = Len(src)
    BY <2>2, <2>3, VerifiedIsLast
  <2>7. IF again THEN VerifiesHMAC(out) => out = src ELSE out = src
    BY <2>4, <2>5, <2>6
  <2> QED
    BY <2>7 DEF out, src, again
<1>2. SafeTransfers => GetDelivers
  BY <1>1 DEF GetDelivers
<1> QED
  BY <1>2, TransfersSafe, PTL

-----------------------------------------------------------------------------
(* The refinement *)

\* what DataStore has of an upload: the put() and its request
UploadOf(k) == Upload(Request(k), IF k.stored THEN "yes" ELSE "no")

AskedOf(k) == Upload(Request(k), "no")

\* its object is stored, and asked for again
IsAgain(k) == k.op = "put" /\ k.stored /\ k.due

\* Where the uploads of DataStore are, and which.
LEMMA UploadsAre ==
    /\ \A c : c \in DOMAIN Uploads <=> c \in DOMAIN call /\ call[c].op = "put"
    /\ \A c \in DOMAIN Uploads : Uploads[c] = UploadOf(call[c])
    /\ \A u : u \in LateUploads <=> \/ \E r \in late : u = Upload(r, "no")
                                   \/ \E c \in DOMAIN call : IsAgain(call[c]) /\ u = AskedOf(call[c])
BY DEF Uploads, LateUploads, Putting, Again, UploadOf, AskedOf, IsAgain

\* The same after a step.
LEMMA UploadsAreNext ==
    /\ \A c : c \in DOMAIN Uploads' <=> c \in DOMAIN call' /\ call'[c].op = "put"
    /\ \A c \in DOMAIN Uploads' : Uploads'[c] = UploadOf(call'[c])
    /\ \A u : u \in LateUploads' <=> \/ \E r \in late' : u = Upload(r, "no")
                                    \/ \E c \in DOMAIN call' : IsAgain(call'[c]) /\ u = AskedOf(call'[c])
BY DEF Uploads, LateUploads, Putting, Again, UploadOf, AskedOf, IsAgain

\* The uploads are the same function if they are the same everywhere.
LEMMA UploadsEqual ==
    ASSUME NEW f, DOMAIN Uploads' = DOMAIN f, f = [x \in DOMAIN f |-> f[x]],
           \A c \in DOMAIN f : Uploads'[c] = f[c]
    PROVE  Uploads' = f
<1>1. Uploads' = [c \in DOMAIN Uploads' |-> Uploads'[c]]
  BY DEF Uploads
<1> QED
  BY <1>1

\* nothing that others can see of an upload differs
SameUpload(t, k) ==
    /\ UploadOf(t) = UploadOf(k)
    /\ AskedOf(t) = AskedOf(k)
    /\ IsAgain(t) <=> IsAgain(k)

\* A step of a call that changes neither its data nor whether it is stored is
\* not seen by others.
LEMMA UploadsKept ==
    ASSUME NEW c \in DOMAIN call, NEW k, Update(c, k), k.op = call[c].op,
           k.op = "put" => SameUpload(k, call[c])
    PROVE  Uploads' = Uploads /\ LateUploads' = LateUploads
<1>1. /\ DOMAIN call' = DOMAIN call /\ call'[c] = k
      /\ \A d \in DOMAIN call : d # c => call'[d] = call[d]
      /\ late' = late
  BY DEF Update, SetCall
<1>2. DOMAIN Uploads' = DOMAIN Uploads
  BY <1>1, UploadsAre, UploadsAreNext
<1>3. \A d \in DOMAIN Uploads : Uploads'[d] = Uploads[d]
  BY <1>1, <1>2, UploadsAre, UploadsAreNext DEF SameUpload
<1>4. Uploads = [d \in DOMAIN Uploads |-> Uploads[d]]
  BY DEF Uploads
<1>5. Uploads' = Uploads
  BY <1>2, <1>3, <1>4, UploadsEqual
<1>6. /\ IsAgain(k) <=> IsAgain(call[c])
      /\ IsAgain(k) => AskedOf(k) = AskedOf(call[c])
  BY DEF SameUpload, IsAgain
<1>7. ASSUME NEW u
      PROVE  u \in LateUploads' <=> u \in LateUploads
  BY <1>1, <1>6, UploadsAre, UploadsAreNext
<1> QED
  BY <1>5, <1>7

\* The parts of an upload as DataStore has it.
LEMMA UploadParts ==
    ASSUME NEW k \in PutCalls
    PROVE  /\ UploadOf(k).path = k.path /\ UploadOf(k).data = k.buf.data
           /\ UploadOf(k).open = "yes" <=> k.stored
           /\ UploadOf(k).open = "no" <=> ~k.stored
           /\ ~k.stored => UploadOf(k) = Store!Transfer(k.path, k.buf.data)
           /\ AskedOf(k) = [UploadOf(k) EXCEPT !.open = "no"]
           /\ ~k.stored => AskedOf(k) = UploadOf(k)
           /\ AskedOf(k).path = k.path /\ AskedOf(k).data = k.buf.data
BY DEF UploadOf, AskedOf, Upload, Request, Store!Transfer, PutCalls

\* The object of an upload is stored.
LEMMA UploadStored ==
    ASSUME NEW k \in PutCalls
    PROVE  LET t == [k EXCEPT !.stored = TRUE, !.due = FALSE]
           IN  /\ t.op = k.op /\ ~IsAgain(t) /\ AskedOf(t) = AskedOf(k)
               /\ UploadOf(t) = [UploadOf(k) EXCEPT !.open = "yes"]
               /\ k.stored => UploadOf(t) = UploadOf(k)
<1> DEFINE t == [k EXCEPT !.stored = TRUE, !.due = FALSE]
<1>1. /\ t.op = k.op /\ t.stored = TRUE /\ t.due = FALSE /\ t.path = k.path /\ t.buf = k.buf
      /\ t.body = k.body /\ t.length = k.length
  BY DEF PutCalls
<1> HIDE DEF t
<1>2. Request(t) = Request(k)
  BY <1>1 DEF Request
<1>3. /\ UploadOf(t) = Upload(Request(k), "yes") /\ AskedOf(t) = AskedOf(k)
      /\ k.stored => UploadOf(t) = UploadOf(k)
  BY <1>1, <1>2 DEF UploadOf, AskedOf
<1>4. Upload(Request(k), "yes") = [UploadOf(k) EXCEPT !.open = "yes"]
  BY DEF UploadOf, Upload
<1>5. ~IsAgain(t)
  BY <1>1 DEF IsAgain
<1> QED
  BY <1>1, <1>3, <1>4, <1>5 DEF t

\* A new put() is a new transfer of its seal.
LEMMA PutIsStart ==
    ASSUME SafeTransfers, NEW c \in Client, NEW path \in Path, NEW pay \in Payload,
           Put(c, path, pay)
    PROVE  Store!PutStart(c, path, compressEncryptHMAC(<<c, calls>>, pay))
<1> DEFINE by == <<c, calls>>
           seal == compressEncryptHMAC(by, pay)
           k == PutCall(path, seekBeg(seekEnd(IOStreamInputBuf(seal))))
           f == Store!With(Uploads, c, Store!Transfer(path, seal))
<1>1. Begin(c, k)
  BY DEF Put
<1>2. by \in Client \X Nat
  BY DEF SafeTransfers
<1> HIDE DEF by
<1>3. SafePut(k) /\ k.buf.data = seal /\ k.path = path
  BY <1>2, PutBegins
<1>4. k.op = "put" /\ k.stored = FALSE
  BY DEF PutCall
<1> HIDE DEF k, seal
<1>5. UploadOf(k) = Store!Transfer(path, seal) /\ ~IsAgain(k)
  BY <1>3, <1>4, UploadParts DEF SafePut, IsAgain
<1>6. /\ c \notin DOMAIN call /\ DOMAIN call' = DOMAIN call \cup {c} /\ call'[c] = k
      /\ \A d \in DOMAIN call : call'[d] = call[d]
      /\ late' = late /\ files' = files
  BY <1>1 DEF Begin, With
<1>7. /\ DOMAIN f = DOMAIN Uploads \cup {c} /\ f = [d \in DOMAIN f |-> f[d]]
      /\ f[c] = Store!Transfer(path, seal)
      /\ \A d \in DOMAIN Uploads : d # c => f[d] = Uploads[d]
  BY DEF Store!With
<1> HIDE DEF f
<1>8. c \notin DOMAIN Uploads
  BY <1>6, UploadsAre
<1>9. DOMAIN Uploads' = DOMAIN f
  BY <1>4, <1>6, <1>7, UploadsAre, UploadsAreNext
<1>10. \A d \in DOMAIN f : Uploads'[d] = f[d]
  BY <1>5, <1>6, <1>7, <1>8, <1>9, UploadsAre, UploadsAreNext
<1>11. Uploads' = f
  BY <1>7, <1>9, <1>10, UploadsEqual
<1>12. ASSUME NEW u
       PROVE  u \in LateUploads' <=> u \in LateUploads
  BY <1>5, <1>6, UploadsAre, UploadsAreNext
<1> QED
  BY <1>6, <1>8, <1>11, <1>12 DEF Store!PutStart, f, seal, by

\* What S3 is asked for again.
LEMMA LateAfter ==
    ASSUME SafeTransfers, NEW c \in DOMAIN call, call[c].op = "put", NEW k,
           DOMAIN call' = DOMAIN call, call'[c] = k,
           \A d \in DOMAIN call : d # c => call'[d] = call[d]
    PROVE  \A u : u \in LateUploads' <=>
                      \/ \E r \in late' : u = Upload(r, "no")
                      \/ \E d \in DOMAIN call : d # c /\ IsAgain(call[d]) /\ u = AskedOf(call[d])
                      \/ IsAgain(k) /\ u = AskedOf(k)
BY UploadsAreNext

\* S3 has all of what was sent, which is all of the data, for the first time or
\* because it was asked again.
LEMMA StoredIsStored ==
    ASSUME SafeTransfers, NEW c, Stored(c)
    PROVE  Store!PutStored(c) \/ \E u \in LateUploads : Store!PutLate(u)
<1> DEFINE k == call[c]
           t == [k EXCEPT !.stored = TRUE, !.due = FALSE]
           f == [Uploads EXCEPT ![c].open = "yes"]
<1>1. /\ c \in DOMAIN call /\ k.op = "put" /\ k.due /\ Len(k.body) = k.length
      /\ files' = With(files, k.path, k.body) /\ Update(c, t)
  BY DEF Stored, Sent
<1>2. SafePut(k) /\ k \in PutCalls
  BY <1>1, RunningCall DEF SafePut
<1>3. k.body = k.buf.data
  <2> DEFINE r == Request(k)
  <2>1. SafeRequest(r) /\ r.body = k.body /\ r.length = k.length /\ r.data = k.buf.data
    BY <1>2 DEF SafePut, Request
  <2> HIDE DEF r
  <2> QED
    BY <1>1, <2>1, AllSent
<1>4. /\ c \in DOMAIN Uploads /\ Uploads[c] = UploadOf(k)
      /\ UploadOf(k).open = "no" <=> ~k.stored
      /\ UploadOf(k).path = k.path /\ UploadOf(k).data = k.buf.data
      /\ AskedOf(k).path = k.path /\ AskedOf(k).data = k.buf.data
  BY <1>1, <1>2, UploadsAre, UploadParts
<1>5. /\ DOMAIN call' = DOMAIN call /\ call'[c] = t
      /\ \A d \in DOMAIN call : d # c => call'[d] = call[d]
      /\ late' = late
  BY <1>1 DEF Update, SetCall
<1>6. /\ t.op = "put" /\ UploadOf(t) = [UploadOf(k) EXCEPT !.open = "yes"]
      /\ k.stored => UploadOf(t) = UploadOf(k)
      /\ ~IsAgain(t)
  BY <1>1, <1>2, UploadStored
<1> HIDE DEF t
<1>7. \A u : u \in LateUploads' <=>
                \/ \E r \in late : u = Upload(r, "no")
                \/ \E d \in DOMAIN call : d # c /\ IsAgain(call[d]) /\ u = AskedOf(call[d])
  BY <1>1, <1>5, <1>6, LateAfter
<1>8. IsAgain(k) <=> k.stored
  BY <1>1 DEF IsAgain
<1>9. CASE ~k.stored
  <2> HIDE DEF k
  <2>1. /\ DOMAIN f = DOMAIN Uploads /\ f = [d \in DOMAIN f |-> f[d]]
        /\ f[c] = [UploadOf(k) EXCEPT !.open = "yes"]
        /\ \A d \in DOMAIN Uploads : d # c => f[d] = Uploads[d]
    BY <1>4
  <2> HIDE DEF f
  <2>2. DOMAIN Uploads' = DOMAIN f
    <3>1. ASSUME NEW d
          PROVE  d \in DOMAIN Uploads' <=> d \in DOMAIN Uploads
      BY <1>4, <1>5, <1>6, UploadsAre, UploadsAreNext
    <3> QED
      BY <2>1, <3>1
  <2>3. \A d \in DOMAIN f : Uploads'[d] = f[d]
    BY <1>4, <1>5, <1>6, <2>1, <2>2, UploadsAre, UploadsAreNext
  <2>4. Uploads' = f
    BY <2>1, <2>2, <2>3, UploadsEqual
  <2>5. ASSUME NEW u
        PROVE  u \in LateUploads' <=> u \in LateUploads
    BY <1>7, <1>8, <1>9, UploadsAre DEF k
  <2>6. files' = Store!With(files, Uploads[c].path, Uploads[c].data)
    BY <1>1, <1>3, <1>4 DEF With, Store!With
  <2>7. Store!PutStored(c)
    BY <1>4, <1>9, <2>4, <2>5, <2>6 DEF Store!PutStored, Store!NoFault, f
  <2> QED
    BY <2>7
<1>10. CASE k.stored
  <2> DEFINE a == AskedOf(k)
  <2>1. a \in LateUploads
    BY <1>1, <1>8, <1>10, UploadsAre
  <2>2. ASSUME NEW u
        PROVE  /\ u \in LateUploads' => u \in LateUploads
               /\ u \in LateUploads => u \in LateUploads' \/ u = a
    BY <1>7, UploadsAre
  <2> HIDE DEF k, a
  <2>3. LateUploads' \in {LateUploads, LateUploads \ {a}}
    <3>1. CASE a \in LateUploads'
      BY <2>2, <3>1
    <3>2. CASE a \notin LateUploads'
      BY <2>2, <3>2
    <3> QED
      BY <3>1, <3>2
  <2>4. Uploads' = Uploads
    <3>1. DOMAIN Uploads' = DOMAIN Uploads
      BY <1>4, <1>5, <1>6, UploadsAre, UploadsAreNext
    <3>2. \A d \in DOMAIN Uploads : Uploads'[d] = Uploads[d]
      BY <1>4, <1>5, <1>6, <1>10, <3>1, UploadsAre, UploadsAreNext
    <3>3. Uploads = [d \in DOMAIN Uploads |-> Uploads[d]]
      BY DEF Uploads
    <3> QED
      BY <3>1, <3>2, <3>3, UploadsEqual
  <2>5. files' = Store!With(files, a.path, a.data)
    BY <1>1, <1>3, <1>4 DEF With, Store!With, a
  <2>6. Store!PutLate(a)
    BY <2>1, <2>3, <2>4, <2>5 DEF Store!PutLate
  <2> QED
    BY <2>1, <2>6
<1> QED
  BY <1>9, <1>10

\* A new attempt is a request more if the last one was sent or carried out,
\* and not seen by others otherwise.
LEMMA ResendIsRetry ==
    ASSUME SafeTransfers, NEW c, Resend(c)
    PROVE  Store!PutRetry(c) \/ UNCHANGED <<files, Uploads, LateUploads>>
<1> DEFINE k == call[c]
           b == seekBeg(k.buf)
           t == [k EXCEPT !.buf = b, !.body = <<>>, !.due = TRUE]
           a == AskedOf(k)
<1>1. /\ c \in DOMAIN call /\ k.op = "put" /\ SafePut(k) /\ files' = files
      /\ call' = [call EXCEPT ![c] = t]
      /\ late' = IF Sent(k) THEN late \cup {Request(k)} ELSE late
  BY RunningCall DEF Resend, Running, SetCall
<1>2. k \in PutCalls /\ (k.due \/ k.stored)
  BY <1>1, PutParts
<1>3. b.data = k.buf.data
  BY <1>2, Rewound DEF PutCalls
<1> HIDE DEF b
<1>4. /\ t.op = "put" /\ t.stored = k.stored /\ t.due = TRUE
      /\ t.path = k.path /\ t.buf = b
  BY <1>1, <1>2 DEF PutCalls
<1>5. DOMAIN call' = DOMAIN call /\ call'[c] = t /\ \A d \in DOMAIN call : d # c => call'[d] = call[d]
  BY <1>1
<1> HIDE DEF t
<1>6. UploadOf(t) = UploadOf(k) /\ AskedOf(t) = a
  BY <1>3, <1>4 DEF UploadOf, AskedOf, Upload, Request
<1>7. IsAgain(t) <=> k.stored
  BY <1>4 DEF IsAgain
<1>8. Uploads' = Uploads
  <2> HIDE DEF k
  <2>1. DOMAIN Uploads' = DOMAIN Uploads
    BY <1>1, <1>4, <1>5, UploadsAre, UploadsAreNext DEF k
  <2>2. \A d \in DOMAIN Uploads : Uploads'[d] = Uploads[d]
    BY <1>1, <1>4, <1>5, <1>6, <2>1, UploadsAre, UploadsAreNext DEF k
  <2>3. Uploads = [d \in DOMAIN Uploads |-> Uploads[d]]
    BY DEF Uploads
  <2> QED
    BY <2>1, <2>2, <2>3, UploadsEqual
<1>9. \A r : r \in late' => r \in late \/ r = Request(k)
  BY <1>1
<1>10. \A r : r \in late => r \in late'
  BY <1>1
<1>11. \A u : u \in LateUploads' <=>
                 \/ \E r \in late' : u = Upload(r, "no")
                 \/ \E d \in DOMAIN call : d # c /\ IsAgain(call[d]) /\ u = AskedOf(call[d])
                 \/ IsAgain(t) /\ u = a
  BY <1>1, <1>5, <1>6, LateAfter
<1>12. Upload(Request(k), "no") = a
  BY DEF AskedOf
<1>13. IsAgain(k) => k.stored
  BY DEF IsAgain
<1>14. ASSUME NEW u
       PROVE  /\ u \in LateUploads => u \in LateUploads'
              /\ u \in LateUploads' => u \in LateUploads \/ u = a
  <2> HIDE DEF a
  <2>1. ASSUME u \in LateUploads
        PROVE  u \in LateUploads'
    <3>1. CASE \E r \in late : u = Upload(r, "no")
      BY <1>10, <1>11, <3>1
    <3>2. CASE \E d \in DOMAIN call : IsAgain(call[d]) /\ u = AskedOf(call[d])
      <4>1. PICK d \in DOMAIN call : IsAgain(call[d]) /\ u = AskedOf(call[d])
        BY <3>2
      <4>2. CASE d = c
        BY <1>7, <1>11, <1>13, <4>1, <4>2 DEF a
      <4> QED
        BY <1>11, <4>1, <4>2
    <3> QED
      BY <2>1, <3>1, <3>2, UploadsAre
  <2>2. ASSUME u \in LateUploads', u # a
        PROVE  u \in LateUploads
    BY <1>9, <1>11, <1>12, <2>2, UploadsAre
  <2> QED
    BY <2>1, <2>2
<1>15. CASE a \in LateUploads'
  <2>1. LateUploads' = LateUploads \cup {a}
    BY <1>14, <1>15
  <2>2. a = [Uploads[c] EXCEPT !.open = "no"] /\ c \in DOMAIN Uploads
    BY <1>1, <1>2, UploadsAre, UploadParts
  <2> HIDE DEF a
  <2>3. Store!PutRetry(c)
    BY <1>1, <1>8, <2>1, <2>2 DEF Store!PutRetry
  <2> QED
    BY <2>3
<1>16. CASE a \notin LateUploads'
  <2>1. LateUploads' = LateUploads
    BY <1>14, <1>16
  <2> QED
    BY <1>1, <1>8, <2>1
<1> QED
  BY <1>15, <1>16

\* A call that ends.  If it is an upload, it returns, having been stored, or is
\* given up.
LEMMA LeaveIsEnd ==
    ASSUME SafeTransfers, NEW c \in DOMAIN call, Leave(c)
    PROVE  /\ call[c].op = "put" =>
                 \/ Store!PutReturn(c) /\ ~Throws(call[c].status)
                 \/ Store!PutCancel(c) /\ Throws(call[c].status)
           /\ call[c].op # "put" => UNCHANGED <<files, Uploads, LateUploads>>
<1> DEFINE k == call[c]
           f == Store!Without(Uploads, c)
<1>1. /\ DOMAIN call' = DOMAIN call \ {c} /\ files' = files
      /\ \A d \in DOMAIN call' : call'[d] = call[d]
      /\ late' = IF k.op = "put" /\ k.due THEN late \cup {Request(k)} ELSE late
  BY DEF Leave, Without
<1>2. /\ DOMAIN f = DOMAIN Uploads \ {c} /\ f = [d \in DOMAIN f |-> f[d]]
      /\ \A d \in DOMAIN f : f[d] = Uploads[d]
  BY DEF Store!Without
<1> HIDE DEF f
<1>3. DOMAIN Uploads' = DOMAIN f
  <2>1. ASSUME NEW d
        PROVE  d \in DOMAIN Uploads' <=> d \in DOMAIN Uploads \ {c}
    BY <1>1, UploadsAre, UploadsAreNext
  <2> QED
    BY <1>2, <2>1
<1>4. \A d \in DOMAIN f : Uploads'[d] = f[d]
  BY <1>1, <1>2, <1>3, UploadsAre, UploadsAreNext
<1>5. Uploads' = f
  BY <1>2, <1>3, <1>4, UploadsEqual
<1>6. ASSUME k.op = "put"
      PROVE  \/ Store!PutReturn(c) /\ ~Throws(k.status)
             \/ Store!PutCancel(c) /\ Throws(k.status)
  <2>1. SafePut(k) /\ k \in PutCalls /\ (k.due \/ k.stored)
    BY <1>6, RunningCall, PutParts
  <2>2. /\ c \in DOMAIN Uploads /\ Uploads[c] = UploadOf(k)
        /\ UploadOf(k).open = "yes" <=> k.stored
        /\ UploadOf(k).open = "no" <=> ~k.stored
        /\ ~k.stored => AskedOf(k) = UploadOf(k)
    BY <1>6, <2>1, UploadsAre, UploadParts
  <2>6. /\ Upload(Request(k), "no") = AskedOf(k)
        /\ IsAgain(k) <=> k.stored /\ k.due
    BY <1>6 DEF AskedOf, IsAgain
  <2>7. /\ \A r : r \in late' <=> r \in late \/ (k.due /\ r = Request(k))
        /\ \A d : d \in DOMAIN call' <=> d \in DOMAIN call /\ d # c
        /\ \A d : d \in DOMAIN call' => call'[d] = call[d]
    BY <1>1, <1>6
  <2>8. ASSUME NEW u
        PROVE  u \in LateUploads' <=> u \in LateUploads \/ (k.due /\ u = AskedOf(k))
    <3>1. ASSUME u \in LateUploads'
          PROVE  u \in LateUploads \/ (k.due /\ u = AskedOf(k))
      <4>1. CASE \E r \in late' : u = Upload(r, "no")
        BY <2>6, <2>7, <4>1, UploadsAre
      <4>2. CASE \E d \in DOMAIN call' : IsAgain(call'[d]) /\ u = AskedOf(call'[d])
        BY <2>7, <4>2, UploadsAre
      <4> QED
        BY <3>1, <4>1, <4>2, UploadsAreNext
    <3>2. ASSUME u \in LateUploads
          PROVE  u \in LateUploads'
      <4>1. CASE \E r \in late : u = Upload(r, "no")
        BY <2>7, <4>1, UploadsAreNext
      <4>2. CASE \E d \in DOMAIN call : IsAgain(call[d]) /\ u = AskedOf(call[d])
        <5>1. PICK d \in DOMAIN call : IsAgain(call[d]) /\ u = AskedOf(call[d])
          BY <4>2
        <5>2. CASE d = c
          BY <2>6, <2>7, <5>1, <5>2, UploadsAreNext
        <5>3. CASE d # c
          BY <2>7, <5>1, <5>3, UploadsAreNext
        <5> QED
          BY <5>2, <5>3
      <4> QED
        BY <3>2, <4>1, <4>2, UploadsAre
    <3>3. ASSUME k.due, u = AskedOf(k)
          PROVE  u \in LateUploads'
      BY <2>6, <2>7, <3>3, UploadsAreNext
    <3> QED
      BY <3>1, <3>2, <3>3
  <2>9. k.stored /\ k.due => AskedOf(k) \in LateUploads
    BY <2>6, UploadsAre
  <2>3. /\ ~k.stored => LateUploads' = LateUploads \cup {Uploads[c]}
        /\ k.stored => LateUploads' = LateUploads
    <3>1. CASE ~k.stored
      BY <2>1, <2>2, <2>8, <3>1
    <3>2. CASE k.stored
      BY <2>8, <2>9, <3>2
    <3> QED
      BY <3>1, <3>2
  <2>4. CASE Throws(k.status)
    <3>1. Store!PutAbandon(c)
      BY <1>1, <1>5, <2>2, <2>3 DEF Store!PutAbandon, f
    <3> QED
      BY <2>4, <3>1 DEF Store!PutCancel, Store!NoFault
  <2>5. CASE ~Throws(k.status)
    <3>1. k.stored
      BY <2>1, <2>5, PutParts DEF Throws
    <3>2. Store!PutReturn(c)
      BY <1>1, <1>5, <2>2, <2>3, <3>1 DEF Store!PutReturn, Store!NoFault, f
    <3> QED
      BY <2>5, <3>2
  <2> QED
    BY <2>4, <2>5
<1>7. ASSUME k.op # "put"
      PROVE  UNCHANGED <<files, Uploads, LateUploads>>
  <2>1. c \notin DOMAIN Uploads /\ late' = late
    BY <1>1, <1>7, UploadsAre
  <2>2. Uploads = [d \in DOMAIN Uploads |-> Uploads[d]]
    BY DEF Uploads
  <2>3. DOMAIN f = DOMAIN Uploads
    BY <1>2, <2>1
  <2>4. Uploads' = Uploads
    BY <1>2, <1>5, <2>2, <2>3
  <2>5. ~IsAgain(k)
    BY <1>7 DEF IsAgain
  <2>6. ASSUME NEW u
        PROVE  u \in LateUploads' <=> u \in LateUploads
    BY <1>1, <2>1, <2>5, UploadsAre, UploadsAreNext
  <2> QED
    BY <1>1, <2>4, <2>6
<1> QED
  BY <1>6, <1>7

\* A request that nobody waits for is carried out after all.
LEMMA StoredLateIsLate ==
    ASSUME SafeTransfers, NEW t \in late, StoredLate(t)
    PROVE  \E u \in LateUploads : Store!PutLate(u)
<1> DEFINE u == Upload(t, "no")
<1>1. SafeRequest(t)
  BY DEF SafeTransfers
<1>2. t.body = t.data /\ u.path = t.path /\ u.data = t.data
  BY <1>1, AllSent DEF StoredLate, Upload
<1>3. u \in LateUploads
  BY UploadsAre
<1>4. late' = late \ {t} /\ call' = call /\ files' = With(files, t.path, t.body)
  BY DEF StoredLate
<1>5. \A v : /\ v \in LateUploads' => v \in LateUploads
             /\ v \in LateUploads => v \in LateUploads' \/ v = u
  BY <1>4, UploadsAre, UploadsAreNext
<1>6. Uploads' = Uploads
  BY <1>4 DEF Uploads, Putting
<1>7. files' = Store!With(files, u.path, u.data)
  BY <1>2, <1>4 DEF With, Store!With
<1> HIDE DEF u
<1>8. LateUploads' \in {LateUploads, LateUploads \ {u}}
  <2>1. CASE u \in LateUploads'
    BY <1>5, <2>1
  <2>2. CASE u \notin LateUploads'
    BY <1>5, <2>2
  <2> QED
    BY <2>1, <2>2
<1> QED
  BY <1>3, <1>6, <1>7, <1>8 DEF Store!PutLate

\* What a step of the worker or of the caller on a running call leaves of it.
LEMMA CallParts ==
    ASSUME NEW k
    PROVE  /\ SafePut(k) =>
                \A t \in {[k EXCEPT !.handle = TRUE], [k EXCEPT !.cancel = TRUE],
                          [k EXCEPT !.status = "FAILED"], [k EXCEPT !.status = "CANCELED"],
                          [k EXCEPT !.status = "COMPLETED"]} :
                   t.op = k.op /\ SameUpload(t, k)
           /\ SafeGet(k) =>
                \A t \in {[k EXCEPT !.handle = TRUE], [k EXCEPT !.cancel = TRUE],
                          [k EXCEPT !.status = "FAILED"], [k EXCEPT !.status = "CANCELED"],
                          [k EXCEPT !.buf = sync(@), !.status = "COMPLETED"],
                          [k EXCEPT !.pos = @ + 1, !.buf = overflow(@, k.src[k.pos + 1])],
                          Attempt(k), [Attempt(k) EXCEPT !.again = TRUE]} :
                   t.op = k.op
<1>1. ASSUME SafePut(k)
      PROVE  \A t \in {[k EXCEPT !.handle = TRUE], [k EXCEPT !.cancel = TRUE],
                       [k EXCEPT !.status = "FAILED"], [k EXCEPT !.status = "CANCELED"],
                       [k EXCEPT !.status = "COMPLETED"]} :
                t.op = k.op /\ SameUpload(t, k)
  BY <1>1 DEF SafePut, PutCalls, SameUpload, UploadOf, AskedOf, IsAgain, Upload, Request
<1>4. ASSUME SafeGet(k), NEW src, NEW pos, NEW b
      PROVE  /\ \A t \in {[k EXCEPT !.handle = TRUE], [k EXCEPT !.cancel = TRUE],
                          [k EXCEPT !.status = "FAILED"], [k EXCEPT !.status = "CANCELED"]} :
                   t.op = k.op
             /\ [k EXCEPT !.buf = b, !.status = "COMPLETED"].op = k.op
             /\ [k EXCEPT !.pos = pos, !.buf = b].op = k.op
             /\ [k EXCEPT !.src = src, !.pos = pos, !.asked = TRUE].op = k.op
             /\ [[k EXCEPT !.src = src, !.pos = pos, !.asked = TRUE] EXCEPT !.again = TRUE].op
                   = k.op
             /\ [[k EXCEPT !.status = "FAILED"] EXCEPT !.again = TRUE].op = k.op
  BY <1>4 DEF SafeGet, GetCalls
<1>5. ASSUME SafeGet(k)
      PROVE  Attempt(k).op = k.op /\ [Attempt(k) EXCEPT !.again = TRUE].op = k.op
  BY <1>4, <1>5 DEF Attempt
<1>7. ASSUME SafeGet(k)
      PROVE  /\ [k EXCEPT !.buf = sync(@), !.status = "COMPLETED"].op = k.op
             /\ [k EXCEPT !.pos = @ + 1, !.buf = overflow(@, k.src[k.pos + 1])].op = k.op
  BY <1>4, <1>7
<1> QED
  BY <1>1, <1>4, <1>5, <1>7, Zenon

\* Sending a cell is not seen by others.
LEMMA SendHidden ==
    ASSUME SafeTransfers, NEW c, Send(c)
    PROVE  UNCHANGED <<files, Uploads, LateUploads>>
<1> DEFINE k == call[c]
           b == underflow(k.buf)
           u == [b EXCEPT !.area = Tail(@)]
           body == Append(k.body, Head(b.area))
           t == [k EXCEPT !.buf = u, !.body = body]
<1>1. /\ c \in DOMAIN call /\ SafePut(k) /\ k.status = "running"
      /\ Len(k.body) < k.length /\ files' = files
  BY RunningCall DEF Send, Running
<1>2. b.area # <<>>
  BY <1>1, SendsNext
<1>3. Update(c, t)
  BY <1>2 DEF Send
<1>4. k.buf \in InputBuf /\ BufAt(k.buf, Len(k.body)) /\ Len(k.body) \in Nat
      /\ Len(k.body) < Len(k.buf.data) /\ k \in PutCalls
  BY <1>1, PutParts DEF PutCalls
<1>5. b \in InputBuf /\ b.data = k.buf.data /\ BufAt(b, Len(k.body))
  BY <1>4, UnderflowKeepsPlace
<1> HIDE DEF b
<1>6. u.data = k.buf.data
  BY <1>2, <1>4, <1>5, TakeNext
<1> HIDE DEF u, body
<1>7. t.op = k.op /\ t.path = k.path /\ t.buf = u /\ t.stored = k.stored /\ t.due = k.due
  BY <1>4 DEF PutCalls
<1> HIDE DEF t
<1>8. SameUpload(t, k)
  BY <1>6, <1>7 DEF SameUpload, UploadOf, AskedOf, IsAgain, Upload, Request
<1>9. Uploads' = Uploads /\ LateUploads' = LateUploads
  BY <1>1, <1>3, <1>7, <1>8, UploadsKept
<1> QED
  BY <1>1, <1>9

\* Every step of the callers, of the workers and of S3 is a step of the put()
\* of DataStore, or is not seen by others.
LEMMA StepIsPutStep ==
    SafeTransfers /\ [Next]_s3Vars => [PutStep]_<<files, Uploads, LateUploads>>
<1> DEFINE seen == <<files, Uploads, LateUploads>>
<1> SUFFICES ASSUME SafeTransfers, [Next]_s3Vars
             PROVE  PutStep \/ UNCHANGED seen
  OBVIOUS
<1>k. ASSUME NEW c \in DOMAIN call, NEW k, Update(c, k), UNCHANGED files,
             k.op = call[c].op, k.op = "put" => SameUpload(k, call[c])
      PROVE  UNCHANGED seen
  BY <1>k, UploadsKept
<1>p. \A c \in DOMAIN call : SafePut(call[c]) \/ (SafeGet(call[c]) /\ call[c].op # "put")
  BY PutOrGet DEF SafeTransfers
<1>1. ASSUME UNCHANGED s3Vars
      PROVE  UNCHANGED seen
  BY <1>1 DEF s3Vars, Uploads, LateUploads, Putting, Again
<1>2. ASSUME NEW c \in Client, NEW path \in Path, NEW pay \in Payload, Put(c, path, pay)
      PROVE  PutStep
  BY <1>2, PutIsStart DEF PutStep
<1>3. ASSUME NEW c \in Client, NEW path \in Path, Get(c, path)
      PROVE  UNCHANGED seen
  <2>1. /\ c \notin DOMAIN call /\ DOMAIN call' = DOMAIN call \cup {c}
        /\ call'[c].op = "get" /\ \A d \in DOMAIN call : call'[d] = call[d]
        /\ late' = late /\ files' = files
    BY <1>3 DEF Get, Begin, With, GetCall
  <2>2. DOMAIN Uploads' = DOMAIN Uploads
    <3>1. ASSUME NEW d
          PROVE  d \in DOMAIN Uploads' <=> d \in DOMAIN Uploads
      BY <2>1, UploadsAre, UploadsAreNext
    <3> QED
      BY <3>1
  <2>3. \A d \in DOMAIN Uploads : Uploads'[d] = Uploads[d]
    BY <2>1, <2>2, UploadsAre, UploadsAreNext
  <2>4. Uploads = [d \in DOMAIN Uploads |-> Uploads[d]]
    BY DEF Uploads
  <2>5. Uploads' = Uploads
    BY <2>2, <2>3, <2>4, UploadsEqual
  <2>6. ~IsAgain(call'[c])
    BY <2>1 DEF IsAgain
  <2>7. ASSUME NEW u
        PROVE  u \in LateUploads' <=> u \in LateUploads
    BY <2>1, <2>6, UploadsAre, UploadsAreNext
  <2> QED
    BY <2>1, <2>5, <2>7
<1>4. ASSUME NEW c \in Client, AssignHandle(c)
      PROVE  UNCHANGED seen
  BY <1>4, <1>k, <1>p, CallParts DEF AssignHandle
<1>5. ASSUME NEW c \in Client, Return(c)
      PROVE  PutStep \/ UNCHANGED seen
  BY <1>5, LeaveIsEnd DEF Return, PutStep
<1>6. ASSUME NEW c \in Client, Send(c)
      PROVE  UNCHANGED seen
  BY <1>6, SendHidden
<1>7. ASSUME NEW c \in Client, Resend(c)
      PROVE  PutStep \/ UNCHANGED seen
  BY <1>7, ResendIsRetry DEF PutStep
<1>8. ASSUME NEW c \in Client, Stored(c)
      PROVE  PutStep
  BY <1>8, StoredIsStored DEF PutStep
<1>9. ASSUME NEW t \in late, StoredLate(t)
      PROVE  PutStep
  BY <1>9, StoredLateIsLate DEF PutStep
<1>10. ASSUME NEW c \in Client, Uploaded(c)
       PROVE  UNCHANGED seen
  <2>1. c \in DOMAIN call /\ SafePut(call[c])
    BY <1>10, RunningCall DEF Uploaded, Running
  <2> QED
    BY <1>10, <1>k, <2>1, CallParts DEF Uploaded
<1>11. ASSUME NEW c \in Client, Ask(c) \/ AskAgain(c) \/ Receive(c) \/ Downloaded(c)
       PROVE  UNCHANGED seen
  <2>1. c \in DOMAIN call /\ SafeGet(call[c]) /\ call[c].op # "put" /\ files' = files
    BY <1>11, RunningCall DEF Ask, AskAgain, Receive, Downloaded, Running
  <2>2. CASE Ask(c)
    BY <1>k, <2>1, <2>2, CallParts DEF Ask
  <2>3. CASE AskAgain(c)
    BY <1>k, <2>1, <2>3, CallParts DEF AskAgain
  <2>4. CASE Receive(c)
    BY <1>k, <2>1, <2>4, CallParts DEF Receive
  <2>5. CASE Downloaded(c)
    BY <1>k, <2>1, <2>5, CallParts DEF Downloaded
  <2> QED
    BY <1>11, <2>2, <2>3, <2>4, <2>5
<1>12. ASSUME NEW c \in Client, Fail(c)
       PROVE  UNCHANGED seen
  BY <1>12, <1>k, <1>p, CallParts DEF Fail, Transferring
<1>13. ASSUME NEW c \in Client, ProgressSaysNo(c)
       PROVE  PutStep \/ UNCHANGED seen
  <2>1. c \in DOMAIN call /\ call[c].status = "running"
    BY <1>13 DEF ProgressSaysNo, Transferring
  <2>2. CASE Update(c, [call[c] EXCEPT !.cancel = TRUE]) /\ UNCHANGED files
    BY <1>k, <1>p, <2>1, <2>2, CallParts
  <2>3. CASE Leave(c)
    BY <2>1, <2>3, LeaveIsEnd DEF PutStep
  <2> QED
    BY <1>13, <2>2, <2>3 DEF ProgressSaysNo
<1>14. ASSUME NEW c \in Client, Cancelled(c)
       PROVE  UNCHANGED seen
  BY <1>14, <1>k, <1>p, CallParts DEF Cancelled, Transferring
<1> HIDE DEF seen
<1> QED
  BY <1>1, <1>2, <1>3, <1>4, <1>5, <1>6, <1>7, <1>8, <1>9, <1>10, <1>11, <1>12, <1>13, <1>14
  DEF Next, Caller, Worker

\* AwsS3DataStore::put, with its threads, callbacks, buffers and retries,
\* implements the put() of DataStore, on which the theorems about backups rest.
THEOREM ImplementsStore == Spec => RefinesStore
<1>1. Init => Store!StoreInit
  BY DEF Init, Store!StoreInit, Store!EmptyFcn, Uploads, LateUploads, Putting, Again
<1> QED
  BY <1>1, TransfersSafe, StepIsPutStep, PTL DEF Spec, RefinesStore

=============================================================================
