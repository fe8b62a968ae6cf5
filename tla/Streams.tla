------------------------------ MODULE Streams ------------------------------
(***************************************************************************)
(* The way of a block through libnebula's streams, byte by byte: what      *)
(* StreamUtils idealises as sealing and opening.                           *)
(*                                                                         *)
(*   uploading   copyTo, or LZMAUtils::compress for a block that is to be  *)
(*               compressed -> EncryptedOutputStream -> TempFileStream,    *)
(*               then the HMAC and a MultiInputStream, several of them     *)
(*               joined by another one into a pack, copied to the store;   *)
(*   restoring   TempFileStream -> InputRangeStream -> HMAC check and      *)
(*               rewind -> DecryptedInputStream -> LZMAInputStream, if it  *)
(*               was compressed -> the file.                               *)
(*                                                                         *)
(* Every read and write may be of any size: the callers use buffers of     *)
(* their own sizes, and LZMA asks for what it likes.  The block cipher and *)
(* the compression are idealised, their buffering is not.                  *)
(***************************************************************************)
EXTENDS Integers, Sequences, SequencesExt

CONSTANTS
    MaxData,       \* bound on the length of the block
    Neighbour,     \* length of the block before it in the pack
    Sizes,         \* how many bytes a read or write may ask for
    BlockLength,   \* of the cipher, 16 in the code
    Piece,         \* 4096: what the encrypting and decrypting streams take at once
    TempSize,      \* TEMP_BUFFER_SIZE
    LzmaBuffer     \* INPUT_BUFFER_SIZE

ASSUME StreamsAssumption ==
    /\ {MaxData, Neighbour} \subseteq Nat
    /\ Sizes \subseteq Nat \ {0}
    /\ {BlockLength, Piece, TempSize, LzmaBuffer} \subseteq Nat \ {0}

VARIABLES
    phase,         \* "seal", "store", "restore", "done" or "failed"
    plain,         \* the block
    lzma,          \* whether it is compressed: CompressionType::LZMA2
    copied,        \* how much was written to the encrypting stream
    enc,           \* EncryptedOutputStream: the bytes the cipher holds back
    temp,          \* TempFileStream
    source,        \* the stream being read, while storing or restoring
    packed,        \* offset and packLength, as finalizePack computes them
    stored,        \* the object in the store
    restored       \* what was written to the restored file

streamVars == <<phase, plain, lzma, copied, enc, temp, source, packed, stored, restored>>

Least(a, b) == IF a < b THEN a ELSE b

-----------------------------------------------------------------------------
(***************************************************************************)
(* The cipher, as EVP uses it: whole blocks in, whole blocks out, the last *)
(* one padded.  A cell of ciphertext is of no use without the others of    *)
(* its block.                                                              *)
(***************************************************************************)
Encrypt(bytes) ==
    FlattenSeq([b \in 1..(Len(bytes) \div BlockLength) |->
        LET block == SubSeq(bytes, (b - 1) * BlockLength + 1, b * BlockLength)
        IN  [i \in 1..BlockLength |-> <<"cipher", block, i>>]])

Pad(bytes) ==
    LET n == BlockLength - (Len(bytes) % BlockLength)
    IN  bytes \o [i \in 1..n |-> n]

Garbled == [i \in 1..BlockLength |-> -1]

Decrypt(cells) ==
    FlattenSeq([b \in 1..(Len(cells) \div BlockLength) |->
        LET block == SubSeq(cells, (b - 1) * BlockLength + 1, b * BlockLength)
        IN  IF block[1][1] = "cipher" /\ block = Encrypt(block[1][2])
            THEN block[1][2] ELSE Garbled])

Unpad(bytes) ==
    IF bytes = <<>> \/ Last(bytes) \notin 1..BlockLength THEN Garbled
    ELSE SubSeq(bytes, 1, Len(bytes) - Last(bytes))

IV == [i \in 1..BlockLength |-> <<"iv", i>>]

HMAC(cells) == << <<"hmac", cells>> >>

(***************************************************************************)
(* LZMA2: a byte of properties, the data, two bytes in one, and an end     *)
(* mark.  The decoder stops when the output is full, with decoded bytes in *)
(* its dictionary that it still has to put out (pending), when it has used *)
(* up its input, or after the end mark.                                    *)
(***************************************************************************)
LzmaProp == 24

LzmaEnd == 0

Compress(bytes) ==
    [i \in 1..((Len(bytes) + 1) \div 2) |->
        IF 2 * i <= Len(bytes) THEN 1000 * bytes[2 * i - 1] + bytes[2 * i] ELSE bytes[2 * i - 1]]

Expand(code) == IF code >= 1000 THEN <<code \div 1000, code % 1000>> ELSE <<code>>

RECURSIVE Lzma2Dec_DecodeToBuf(_, _, _, _)

Lzma2Dec_DecodeToBuf(pending, room, in, out) ==
    LET put == SubSeq(pending, 1, Least(room, Len(pending)))
        left == SubSeq(pending, Len(put) + 1, Len(pending))
        stop == [out |-> out \o put, in |-> in, pending |-> left, finished |-> FALSE]
    IN  IF Len(put) = room \/ in = <<>> THEN stop
        ELSE IF Head(in) = LzmaEnd THEN [stop EXCEPT !.in = Tail(in), !.finished = TRUE]
        ELSE Lzma2Dec_DecodeToBuf(Expand(Head(in)), room - Len(put), Tail(in), stop.out)

-----------------------------------------------------------------------------
(* Plausible mistakes, part of no specification *)

\* read() returns at the end of one of the streams
MultiStepShort(s, n, out, r) ==
    IF r.out = <<>>
    THEN [more |-> out = <<>> /\ s.cur < Len(s.parts), out |-> out,
          stream |-> [s EXCEPT !.cur = @ + 1]]
    ELSE [more |-> FALSE, out |-> out \o r.out,
          stream |-> [s EXCEPT !.parts[s.cur] = r.stream]]

\* the size of the encrypted data, without the HMAC before it
sizeNoHMAC(s) == Len(Last(s.parts).data)

\* rewind() goes to the start of the object, not of the range
RangeRewindToStart(s) ==
    [s EXCEPT !.stream.pos = 0, !.pos = s.offset]

-----------------------------------------------------------------------------
(***************************************************************************)
(* Output streams                                                          *)
(***************************************************************************)
\* The data moves to a file when it no longer fits into memory.
TempWrite(t, cells) ==
    IF t.file = <<>> /\ Len(t.mem) + Len(cells) <= TempSize
    THEN [t EXCEPT !.mem = @ \o cells]
    ELSE [mem |-> <<>>, file |-> t.mem \o t.file \o cells]

\* EVP_EncryptUpdate puts out the whole blocks it has.
EncryptUpdate(held, bytes) ==
    LET all == held \o bytes
        whole == Len(all) - (Len(all) % BlockLength)
    IN  [out |-> Encrypt(SubSeq(all, 1, whole)), held |-> SubSeq(all, whole + 1, Len(all))]

\* EncryptedOutputStream::write, piece by piece
EncryptedWrite(held, t, bytes) ==
    LET pieces == (Len(bytes) + Piece - 1) \div Piece
        after[p \in 0..pieces] ==
            IF p = 0 THEN [held |-> held, temp |-> t]
            ELSE LET piece == SubSeq(bytes, (p - 1) * Piece + 1, Least(p * Piece, Len(bytes)))
                     u == EncryptUpdate(after[p - 1].held, piece)
                 IN  [held |-> u.held, temp |-> TempWrite(after[p - 1].temp, u.out)]
    IN  after[pieces]

-----------------------------------------------------------------------------
(***************************************************************************)
(* Input streams.  A stream is a record, and read(s, n) gives the bytes    *)
(* and the stream that is left.                                            *)
(***************************************************************************)
\* MemoryInputStream, and FileStream opened to read
Bytes(data) == [kind |-> "bytes", data |-> data, pos |-> 0]

MultiInputStream(parts) == [kind |-> "multi", parts |-> parts, cur |-> 1]

RECURSIVE read(_, _)

readBytes(s, n) ==
    LET end == Least(s.pos + n, Len(s.data))
    IN  [out |-> SubSeq(s.data, s.pos + 1, end), stream |-> [s EXCEPT !.pos = end]]

\* One turn of MultiInputStream's loop: r is what the current stream gave.
MultiStep(s, n, out, r) ==
    IF r.out = <<>>
    THEN [more |-> s.cur < Len(s.parts), out |-> out,
          stream |-> [s EXCEPT !.cur = @ + 1]]
    ELSE [more |-> Len(out) + Len(r.out) < n, out |-> out \o r.out,
          stream |-> [s EXCEPT !.parts[s.cur] = r.stream]]

RECURSIVE readMulti(_, _, _)

readMulti(s, n, out) ==
    IF s.cur > Len(s.parts) THEN [out |-> out, stream |-> s]
    ELSE LET next == MultiStep(s, n, out, read(s.parts[s.cur], n - Len(out)))
         IN  IF next.more THEN readMulti(next.stream, n, next.out)
             ELSE [out |-> next.out, stream |-> next.stream]

readRange(s, n) ==
    LET want == IF s.pos + n >= s.end THEN s.end - s.pos ELSE n
        r == read(s.stream, want)
    IN  IF want = 0 THEN [out |-> <<>>, stream |-> s]
        ELSE [out |-> r.out, stream |-> [s EXCEPT !.stream = r.stream, !.pos = @ + Len(r.out)]]

\* EVP_DecryptUpdate keeps the last whole block back: it may be the padded one.
DecryptUpdate(held, cells) ==
    LET all == held \o cells
        whole == Len(all) - (IF Len(all) % BlockLength = 0 THEN BlockLength
                                                         ELSE Len(all) % BlockLength)
    IN  [out |-> Decrypt(SubSeq(all, 1, whole)), held |-> SubSeq(all, whole + 1, Len(all))]

RECURSIVE readDecrypted(_, _, _)

readDecrypted(s, n, out) ==
    IF n <= Len(s.buffer)
    THEN [out |-> out \o SubSeq(s.buffer, 1, n),
          stream |-> [s EXCEPT !.buffer = SubSeq(@, n + 1, Len(@))]]
    ELSE LET r == read(s.stream, Piece)
             u == DecryptUpdate(s.held, r.out)
             left == n - Len(s.buffer)
             got == out \o s.buffer
         IN  IF r.out # <<>>
             THEN readDecrypted([s EXCEPT !.stream = r.stream, !.held = u.held,
                                          !.buffer = u.out], left, got)
             ELSE IF ~s.done
             THEN readDecrypted([s EXCEPT !.stream = r.stream, !.done = TRUE, !.held = <<>>,
                                          !.buffer = Unpad(Decrypt(s.held))], left, got)
             ELSE [out |-> got, stream |-> [s EXCEPT !.buffer = <<>>]]

\* LZMAInputStream::read.  The decoder is fed once more only when it has used
\* up its input.
RECURSIVE readLzma(_, _, _)

readLzma(s, n, out) ==
    LET r == read(s.stream, LzmaBuffer)
        fed == IF s.buffer = <<>> THEN [s EXCEPT !.stream = r.stream, !.buffer = r.out] ELSE s
        d == Lzma2Dec_DecodeToBuf(fed.pending, n - Len(out), fed.buffer, out)
        next == [fed EXCEPT !.buffer = d.in, !.pending = d.pending]
    IN  IF Len(out) = n THEN [out |-> out, stream |-> s]
        ELSE IF fed.buffer = <<>> THEN [out |-> out, stream |-> fed]
        ELSE IF d.finished THEN [out |-> d.out, stream |-> next]
        ELSE readLzma(next, n, d.out)

read(s, n) ==
    CASE s.kind = "bytes" -> readBytes(s, n)
      [] s.kind = "multi" -> readMulti(s, n, <<>>)
      [] s.kind = "range" -> readRange(s, n)
      [] s.kind = "decrypted" -> readDecrypted(s, n, <<>>)
      [] s.kind = "lzma" -> readLzma(s, n, <<>>)

RECURSIVE size(_)

size(s) ==
    CASE s.kind = "bytes" -> Len(s.data)
      [] s.kind = "multi" ->
            FoldLeft(LAMBDA sum, part : sum + size(part), 0, s.parts)
      [] s.kind = "range" -> s.end - s.offset

\* The range reads from a file or from memory, which can skip and rewind.
InputRangeStream(s, offset, length) ==
    [kind |-> "range", stream |-> [s EXCEPT !.pos = Least(@ + offset, Len(s.data))],
     offset |-> offset, end |-> offset + length, pos |-> offset]

RangeRewind(s) ==
    [s EXCEPT !.stream.pos = Least(s.offset, Len(s.stream.data)), !.pos = s.offset]

DecryptedInputStream(s) ==
    [kind |-> "decrypted", stream |-> read(s, BlockLength).stream,
     held |-> <<>>, buffer |-> <<>>, done |-> FALSE]

\* The constructor takes the properties.
LZMAInputStream(s) ==
    [kind |-> "lzma", stream |-> read(s, 1).stream, buffer |-> <<>>, pending |-> <<>>]

\* EncryptedHMACStream: the HMAC of what is in the temporary stream, then it
Sealed(cells) == MultiInputStream(<<Bytes(HMAC(cells)), Bytes(cells)>>)

-----------------------------------------------------------------------------
Block(n) == [i \in 1..n |-> 100 + i]

NeighbourSeal == Sealed(IV \o Encrypt(Pad([i \in 1..Neighbour |-> 200 + i])))

StreamsInit ==
    /\ phase = "seal"
    /\ \E n \in 0..MaxData : plain = Block(n)
    /\ lzma \in BOOLEAN
    /\ copied = 0
    /\ enc = <<>>
    /\ temp = [mem |-> IV, file |-> <<>>]
    /\ source = Bytes(<<>>)
    /\ packed = [offset |-> 0, packLength |-> 0]
    /\ stored = <<>>
    /\ restored = <<>>

\* what copyTo, or LZMAUtils::compress, writes to the encrypting stream
Written ==
    IF lzma THEN <<LzmaProp>> \o Compress(plain) \o <<LzmaEnd>> ELSE plain

\* one write of copyTo, or of LZMA
Write(n) ==
    /\ phase = "seal"
    /\ copied < Len(Written)
    /\ LET end == Least(copied + n, Len(Written))
           w == EncryptedWrite(enc, temp, SubSeq(Written, copied + 1, end))
       IN  copied' = end /\ enc' = w.held /\ temp' = w.temp
    /\ UNCHANGED <<phase, plain, lzma, source, packed, stored, restored>>

\* EncryptedOutputStream::close, then the HMAC, and the pack with its neighbour
Close ==
    /\ phase = "seal"
    /\ copied = Len(Written)
    /\ enc' = <<>>
    /\ temp' = TempWrite(temp, Encrypt(Pad(enc)))
    /\ LET seal == Sealed(temp'.mem \o temp'.file)
       IN  /\ source' = MultiInputStream(<<NeighbourSeal, seal>>)
           /\ packed' = [offset |-> size(NeighbourSeal), packLength |-> size(seal)]
    /\ phase' = "store"
    /\ UNCHANGED <<plain, lzma, copied, stored, restored>>

\* one turn of put()'s copy loop, which ends at the first empty read
Store(n) ==
    /\ phase = "store"
    /\ LET r == read(source, n)
       IN  /\ r.out # <<>>
           /\ stored' = stored \o r.out
           /\ source' = r.stream
    /\ UNCHANGED <<phase, plain, lzma, copied, enc, temp, packed, restored>>

\* decompressDecryptHMAC up to the first byte: the HMAC of all that follows it
\* is checked, then the range is read again from its start.
Open ==
    /\ phase = "store"
    /\ read(source, 1).out = <<>>
    /\ LET range == InputRangeStream(Bytes(stored), packed.offset, packed.packLength)
           first == read(range, 1)
           rest == read(first.stream, Len(stored))
           again == read(RangeRewind(rest.stream), 1)
           decStream == DecryptedInputStream(again.stream)
       IN  IF first.out = HMAC(rest.out)
           THEN /\ phase' = "restore"
                /\ source' = IF lzma THEN LZMAInputStream(decStream) ELSE decStream
           ELSE phase' = "failed" /\ UNCHANGED source
    /\ UNCHANGED <<plain, lzma, copied, enc, temp, packed, stored, restored>>

\* one turn of copyTo into the restored file
Restore(n) ==
    /\ phase = "restore"
    /\ LET r == read(source, n)
       IN  /\ restored' = restored \o r.out
           /\ source' = r.stream
           /\ phase' = IF r.out = <<>> THEN "done" ELSE phase
    /\ UNCHANGED <<plain, lzma, copied, enc, temp, packed, stored>>

StreamsNext ==
    \/ \E n \in Sizes : Write(n) \/ Store(n) \/ Restore(n)
    \/ Close
    \/ Open

-----------------------------------------------------------------------------
(* Properties *)

\* Whatever the sizes of the reads and writes, and wherever they fall on the
\* blocks of the cipher, the buffers, the decoder's dictionary and the seams of
\* the pack: what is restored is what was uploaded, and the HMAC of an intact object verifies.
RestoredIsPlain ==
    /\ phase # "failed"
    /\ IsPrefix(restored, plain)
    /\ phase = "done" => restored = plain

\* A read of n bytes returns n bytes, except at the end of the stream: "The
\* method will wait for all bytes to be available before returning and
\* returning short amount of bytes once EOF has been reached." (InputStream.h)
FullReads ==
    [][\A n \in Sizes :
          /\ Store(n) =>
                Len(stored') = Least(Len(stored) + n, packed.offset + packed.packLength)
          /\ Restore(n) => Len(restored') = Least(Len(restored) + n, Len(plain))]_streamVars

\* The sizes taken before the copy are those of what is copied: the offset and
\* packLength of the entry name the seal of the block in the stored object.
RangeIsTheSeal ==
    phase \in {"restore", "done", "failed"} =>
        /\ Len(stored) = packed.offset + packed.packLength
        /\ SubSeq(stored, packed.offset + 1, Len(stored))
               = HMAC(temp.mem \o temp.file) \o temp.mem \o temp.file

=============================================================================
