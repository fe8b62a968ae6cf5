------------------------------ MODULE Chunker ------------------------------
(***************************************************************************)
(* How Repository::uploadFile cuts a large file into blocks                *)
(* (libnebula/Repository.cpp), with the rolling hash that decides where    *)
(* (libnebula/RollingHash.cpp): one pass over the bytes of the file, read  *)
(* through a BufferedInputStream, a block ending where the hash of the     *)
(* last bytes is 0 under a mask.                                           *)
(*                                                                         *)
(* The hash is Rabin-Karp over an unsigned integer of Modulus values       *)
(* (2^64 in the code) and a keyed table of byte values.                    *)
(***************************************************************************)
EXTENDS Integers, Sequences, SequencesExt

CONSTANTS
    Byte,          \* the bytes of files, 0 among them
    MaxLength,     \* bound on the length of files
    Modulus,       \* the hash is computed modulo this
    Constant,      \* mConstant, 33 in the code
    SubTable,      \* mSubTable
    Window,        \* mWindowSize, 8192 in the code
    SplitCount,    \* blockSplitCount
    MinBits,       \* minRollingHashBits
    MaxBits,       \* maxRollingHashBits
    LeastBlock,    \* the 4096 that minBlockSize is at least
    MaxBlock,      \* maxBlockSize
    ReadBuffer,    \* bytes in the buffer of BufferedInputStream, 8192 in the code
    MaxCount       \* 65535, the number of blocks a snapshot entry can hold

ASSUME ChunkerAssumption ==
    /\ {Modulus, Constant, Window, SplitCount, LeastBlock, MaxBlock, ReadBuffer,
        MaxCount} \subseteq Nat \ {0}
    /\ {MaxLength, MinBits, MaxBits} \subseteq Nat
    /\ 0 \in Byte /\ Byte \subseteq Nat
    /\ SubTable \in [Byte -> Nat]

VARIABLES
    input,         \* the bytes the file turns out to have
    fileLength,    \* its length when it was looked up, before it was read
    pos,           \* bytes read from it so far
    buffer,        \* BufferedInputStream: the bytes of mBuffer from mNext on
    blockBuffer,
    blocks,        \* the blocks uploaded so far
    rh,            \* the rolling hash: mHash, mIndex and mWindow
    rolled,        \* history: the bytes rolled into it
    done

chunkVars == <<input, fileLength, pos, buffer, blockBuffer, blocks, rh, rolled, done>>

-----------------------------------------------------------------------------
(* Plausible mistakes, part of no specification *)

\* the byte that leaves the window is not taken out of the hash
rollNoSub(h, c) ==
    LET i == (h.index + 1) % Window
    IN  [hash |-> (h.hash * Constant + SubTable[c]) % Modulus,
         index |-> i, window |-> [h.window EXCEPT ![i] = c]]

\* integer division that rounds down
minBlockSizeDown(len) ==
    IF len \div MaxCount > LeastBlock THEN len \div MaxCount ELSE LeastBlock

\* only the hash ends a block
BlockEndsNoMax(block, hash, bits) == hash % 2^bits = 0

\* the last bytes stay in the buffer
TailForgotten ==
    /\ pos = Len(input) /\ buffer = <<>> /\ ~done
    /\ done' = TRUE
    /\ UNCHANGED <<input, fileLength, pos, buffer, blockBuffer, blocks, rh, rolled>>

-----------------------------------------------------------------------------
\* BufferedInputStream::reload, which isEof() calls before every byte
reload ==
    LET end == IF pos + ReadBuffer < Len(input) THEN pos + ReadBuffer ELSE Len(input)
    IN  IF buffer = <<>> THEN [pos |-> end, buffer |-> SubSeq(input, pos + 1, end)]
        ELSE [pos |-> pos, buffer |-> buffer]

\* square and multiply
ConstantPowWinSize ==
    LET pow[u \in 0..Window] ==
            IF u = 0 THEN 1
            ELSE LET half == pow[u \div 2]
                 IN  (half * half * (IF u % 2 = 1 THEN Constant ELSE 1)) % Modulus
    IN  pow[Window]

\* The window starts as zeros, and the hash as theirs.
RollingHash ==
    LET zeros[i \in 0..Window] ==
            IF i = 0 THEN 0 ELSE (zeros[i - 1] * Constant + SubTable[0]) % Modulus
    IN  [hash |-> zeros[Window], index |-> Window - 1,
         window |-> [i \in 0..(Window - 1) |-> 0]]

roll(h, c) ==
    LET i == (h.index + 1) % Window
        sub == ConstantPowWinSize * SubTable[h.window[i]]
    IN  [hash |-> (h.hash * Constant + SubTable[c] - sub) % Modulus,
         index |-> i, window |-> [h.window EXCEPT ![i] = c]]

\* ceil(log2(fileLength / blockSplitCount)), within its bounds
rollingHashBits(len) ==
    LET bits == CHOOSE b \in 0..(len + 1) :
                    /\ 2^b >= len \div SplitCount
                    /\ \A a \in 0..(b - 1) : 2^a < len \div SplitCount
    IN  IF bits < MinBits THEN MinBits ELSE IF bits > MaxBits THEN MaxBits ELSE bits

minBlockSize(len) ==
    LET least == (len + MaxCount - 1) \div MaxCount
    IN  IF least > LeastBlock THEN least ELSE LeastBlock

BlockEnds(block, hash, bits) ==
    hash % 2^bits = 0 \/ Len(block) >= MaxBlock

-----------------------------------------------------------------------------
\* A file may have grown since its length was looked up.
ChunkInit ==
    /\ input \in UNION {[1..n -> Byte] : n \in 1..MaxLength}
    /\ fileLength \in {Len(input), (Len(input) + 1) \div 2}
    /\ pos = 0
    /\ buffer = <<>>
    /\ blockBuffer = <<>>
    /\ blocks = <<>>
    /\ rh = RollingHash
    /\ rolled = <<>>
    /\ done = FALSE

\* One turn of the loop.  The hash is rolled only once the block is long
\* enough to end.
ReadByte ==
    /\ reload.buffer # <<>>
    /\ pos' = reload.pos
    /\ buffer' = Tail(reload.buffer)
    /\ LET b == Head(reload.buffer)
           block == Append(blockBuffer, b)
           hash == roll(rh, b)
       IN  IF Len(block) >= minBlockSize(fileLength)
           THEN /\ rh' = hash
                /\ rolled' = Append(rolled, b)
                /\ IF BlockEnds(block, hash.hash, rollingHashBits(fileLength))
                   THEN blocks' = Append(blocks, block) /\ blockBuffer' = <<>>
                   ELSE blocks' = blocks /\ blockBuffer' = block
           ELSE /\ blockBuffer' = block
                /\ UNCHANGED <<blocks, rh, rolled>>
    /\ UNCHANGED <<input, fileLength, done>>

\* At the end of the file, what is left is a block of its own.
Tail_ ==
    /\ reload.buffer = <<>> /\ ~done
    /\ done' = TRUE
    /\ blocks' = IF blockBuffer = <<>> THEN blocks ELSE Append(blocks, blockBuffer)
    /\ blockBuffer' = <<>>
    /\ UNCHANGED <<input, fileLength, pos, buffer, rh, rolled>>

ChunkNext == ReadByte \/ Tail_

ChunkSpec == ChunkInit /\ [][ChunkNext]_chunkVars

-----------------------------------------------------------------------------
(* Properties *)

\* The blocks uploaded, and after the loop only they, are the file: nothing is
\* lost, repeated or reordered at a cut or where the buffer is filled again.
BlocksAreTheFile ==
    /\ FlattenSeq(blocks) \o blockBuffer = SubSeq(input, 1, pos - Len(buffer))
    /\ done => FlattenSeq(blocks) = input

\* the last Window bytes of r, zeros before the first
LastOf(r) ==
    [i \in 1..Window |-> IF Len(r) + i <= Window THEN 0 ELSE r[Len(r) + i - Window]]

\* the polynomial of a window, computed from scratch
HashOf(w) ==
    LET h[i \in 0..Window] ==
            IF i = 0 THEN 0 ELSE (h[i - 1] * Constant + SubTable[w[i]]) % Modulus
    IN  h[Window]

\* The hash that roll() keeps up to date is that of the last Window bytes
\* rolled: it depends on nothing older, in spite of the bytes at the start of a
\* block that are not rolled at all.
HashOfWindow == rh.hash = HashOf(LastOf(rolled))

\* Blocks are at most MaxBlock long, or no longer than the shortest allowed if
\* that is more, and all but the last at least as long as the shortest allowed.
BlockSizes ==
    \A i \in DOMAIN blocks :
        /\ Len(blocks[i]) <= MaxBlock \/ Len(blocks[i]) <= minBlockSize(fileLength)
        /\ i < Len(blocks) => Len(blocks[i]) >= minBlockSize(fileLength)

\* The number of blocks fits the 16 bits of a snapshot entry, if the file did
\* not grow while it was read: "filesize/65535 as the max number of blocks is
\* 65535" (Repository.cpp).
CountFits == fileLength = Len(input) => Len(blocks) <= MaxCount

-----------------------------------------------------------------------------
(***************************************************************************)
(* Why BlocksAreTheFile, BlockSizes and CountFits hold: the invariant of   *)
(* the loop.                                                               *)
(***************************************************************************)
\* bytes that left the buffer
Consumed == pos - Len(buffer)

\* The buffer holds the bytes of the file before pos.
SafeBuffer ==
    /\ input \in Seq(Byte) /\ fileLength \in Nat
    /\ pos \in Nat /\ pos <= Len(input)
    /\ buffer \in Seq(Byte) /\ Len(buffer) <= pos
    /\ \A i \in 1..Len(buffer) : buffer[i] = input[Consumed + i]

\* The bytes consumed are in the blocks or in blockBuffer.
SafeBytes ==
    /\ blocks \in Seq(Seq(Byte)) /\ blockBuffer \in Seq(Byte)
    /\ FlattenSeq(blocks) \in Seq(Byte)
    /\ FlattenSeq(blocks) \o blockBuffer = SubSeq(input, 1, Consumed)

\* A block that is not finished is too short to be; the finished ones are not,
\* and there are as many as that allows.
SafeSizes ==
    LET least == minBlockSize(fileLength)
    IN  /\ Len(blockBuffer) < least \/ Len(blockBuffer) < MaxBlock
        /\ \A i \in 1..Len(blocks) :
              /\ Len(blocks[i]) <= MaxBlock \/ Len(blocks[i]) <= least
              /\ i < Len(blocks) \/ ~done => Len(blocks[i]) >= least
        /\ ~done => Len(blocks) * least + Len(blockBuffer) <= Consumed
        /\ done => Len(blocks) * least < Len(input) + least

\* The loop has cut what it has read, and ends at the end of the file.
SafeChunks ==
    /\ SafeBuffer
    /\ SafeBytes
    /\ SafeSizes
    /\ done \in BOOLEAN
    /\ done => pos = Len(input) /\ buffer = <<>> /\ blockBuffer = <<>>

-----------------------------------------------------------------------------
\* Why HashOfWindow holds: the circular window has the last bytes, the oldest
\* behind index, which is where the next one goes.
SafeHash ==
    /\ rolled \in Seq(Byte)
    /\ rh.index \in 0..(Window - 1)
    /\ rh.window \in [0..(Window - 1) -> Byte]
    /\ \A i \in 1..Window : rh.window[(rh.index + i) % Window] = LastOf(rolled)[i]
    /\ rh.hash = HashOf(LastOf(rolled))

=============================================================================
