------------------------------- MODULE Base32 -------------------------------
(***************************************************************************)
(* base32encode and base32decode (libnebula/Base32.cpp).  The repository   *)
(* names its objects by the encoding of their ids, so two ids must not     *)
(* have one encoding, and the caller's buffers must not be overrun.        *)
(*                                                                         *)
(* A character of the alphabet is its index, 0 to 31.                      *)
(***************************************************************************)
EXTENDS Integers, Sequences, SequencesExt

CONSTANTS
    IdByte,        \* the bytes that data is made of
    MaxId,         \* bound on the length of data
    SizeMax        \* the largest size_t

ASSUME Base32Assumption == IdByte \subseteq 0..255 /\ MaxId \in Nat /\ SizeMax \in Nat

VARIABLES
    data,          \* what is encoded
    capacity,      \* the size of the caller's buffer
    outLen,        \* what base32encode counts as left of it
    taken,         \* i, the number of bytes it has taken
    value,
    validBits,
    outString,     \* the characters it has written, whether they were in the buffer or not
    status         \* "bytes", "end", "done" or "throws"

base32Vars == <<data, capacity, outLen, taken, value, validBits, outString, status>>

Terminator == 32   \* the NUL, which is no character of the alphabet

Throws == <<-1>>

-----------------------------------------------------------------------------
\* outLen is unsigned: without the check before it, this could wrap.
Decrement(n) == IF n = 0 THEN SizeMax ELSE n - 1

\* what each of the three checks does
Refuse ==
    /\ outLen <= 0
    /\ status' = "throws"
    /\ UNCHANGED <<data, capacity, outLen, taken, value, validBits, outString>>

WriteChar(char) == outString' = Append(outString, char)

-----------------------------------------------------------------------------
(* Plausible mistakes, part of no specification *)

\* the bits left over are not moved to the top of the last digit
PutRemainderUnshifted ==
    /\ status = "bytes" /\ taken = Len(data) /\ validBits \in 1..4
    /\ \/ Refuse
       \/ /\ outLen > 0
          /\ value' = value % 32
          /\ WriteChar(value')
          /\ outLen' = Decrement(outLen)
          /\ status' = "end"
          /\ UNCHANGED <<data, capacity, taken, validBits>>

\* the last digit is not counted, so that the check for the NUL is one too late
PutRemainderUncounted ==
    /\ status = "bytes" /\ taken = Len(data) /\ validBits \in 1..4
    /\ \/ Refuse
       \/ /\ outLen > 0
          /\ value' = (value * 2^(5 - validBits)) % 32
          /\ WriteChar(value')
          /\ status' = "end"
          /\ UNCHANGED <<data, capacity, outLen, taken, validBits>>

\* the second byte without its lowest bit
GroupByteNoCarry(str, i, k) ==
    LET d(j) == str[i + j]
    IN  CASE k = 1 -> d(1) * 8 + d(2) \div 4
          [] k = 2 -> (d(2) % 4) * 64 + d(3) * 2
          [] k = 3 -> (d(4) % 16) * 16 + d(5) \div 2
          [] k = 4 -> (d(5) % 2) * 128 + d(6) * 4 + d(7) \div 8
          [] k = 5 -> (d(7) % 8) * 32 + d(8)

-----------------------------------------------------------------------------
(* base32encode *)

EncodeInit ==
    /\ data \in UNION {[1..n -> IdByte] : n \in 0..MaxId}
    /\ capacity \in 0..SizeMax
    /\ outLen = capacity
    /\ taken = 0 /\ value = 0 /\ validBits = 0
    /\ outString = <<>>
    /\ status = "bytes"

\* A turn of the outer loop begins: a byte comes behind the bits that are left.
TakeByte ==
    /\ status = "bytes" /\ taken < Len(data) /\ validBits < 5
    /\ taken' = taken + 1
    /\ value' = value * 256 + data[taken + 1]
    /\ validBits' = validBits + 8
    /\ UNCHANGED <<data, capacity, outLen, outString, status>>

\* A turn of the inner loop: the top five of the valid bits are put out.
PutDigit ==
    /\ status = "bytes" /\ validBits >= 5
    /\ \/ Refuse
       \/ /\ outLen > 0
          /\ WriteChar((value \div 2^(validBits - 5)) % 32)
          /\ outLen' = Decrement(outLen)
          /\ value' = value % 2^(validBits - 5)
          /\ validBits' = validBits - 5
          /\ UNCHANGED <<data, capacity, taken, status>>

\* The bits left over at the end are filled up with zeros.
PutRemainder ==
    /\ status = "bytes" /\ taken = Len(data) /\ validBits \in 1..4
    /\ \/ Refuse
       \/ /\ outLen > 0
          /\ value' = (value * 2^(5 - validBits)) % 32
          /\ WriteChar(value')
          /\ outLen' = Decrement(outLen)
          /\ status' = "end"
          /\ UNCHANGED <<data, capacity, taken, validBits>>

\* The NUL, after the remainder or where there is none.
PutEnd ==
    /\ \/ status = "end"
       \/ status = "bytes" /\ taken = Len(data) /\ validBits = 0
    /\ \/ Refuse
       \/ /\ outLen > 0
          /\ WriteChar(Terminator)
          /\ status' = "done"
          /\ UNCHANGED <<data, capacity, outLen, taken, value, validBits>>

Encode == TakeByte \/ PutDigit \/ PutRemainder \/ PutEnd

Base32Spec == EncodeInit /\ [][Encode]_base32Vars

-----------------------------------------------------------------------------
(* base32decode *)

\* the k-th byte of the group of up to 8 digits that begins after i
GroupByte(str, i, k) ==
    LET d(j) == str[i + j]
    IN  CASE k = 1 -> d(1) * 8 + d(2) \div 4
          [] k = 2 -> (d(2) % 4) * 64 + d(3) * 2 + d(4) \div 16
          [] k = 3 -> (d(4) % 16) * 16 + d(5) \div 2
          [] k = 4 -> (d(5) % 2) * 128 + d(6) * 4 + d(7) \div 8
          [] k = 5 -> (d(7) % 8) * 32 + d(8)

\* bytes in a last group of that many digits
Extra(digits) == CASE digits = 0 -> 0
                   [] digits = 2 -> 1
                   [] digits = 4 -> 2
                   [] digits = 5 -> 3
                   [] digits = 7 -> 4

base32decode(str, room) ==
    IF Len(str) % 8 \notin {0, 2, 4, 5, 7} THEN Throws
    ELSE LET n == (Len(str) \div 8) * 5 + Extra(Len(str) % 8)
         IN  IF room < n THEN Throws
             ELSE [k \in 1..n |-> GroupByte(str, ((k - 1) \div 5) * 8, ((k - 1) % 5) + 1)]

-----------------------------------------------------------------------------
(* Properties *)

\* the bits of a sequence of numbers of width bits, the highest first
BitsOf(seq, width) ==
    FlattenSeq([i \in DOMAIN seq |->
        [b \in 1..width |-> (seq[i] \div 2^(width - b)) % 2]])

\* the string without its NUL
Digits == SubSeq(outString, 1, Len(outString) - 1)

\* The encoding is the bits of the data cut into groups of five, zeros after
\* the last: the loop that shifts them through value loses and repeats none.
EncodesBits ==
    status = "done" =>
        /\ Len(Digits) = (8 * Len(data) + 4) \div 5
        /\ LET bits == BitsOf(Digits, 5)
           IN  /\ SubSeq(bits, 1, 8 * Len(data)) = BitsOf(data, 8)
               /\ \A i \in (8 * Len(data) + 1)..Len(bits) : bits[i] = 0

\* Decoding what was encoded gives the data back, so different ids have
\* different names; a buffer one byte short is refused (Base32Tests.cpp).
DecodesBack ==
    status = "done" =>
        /\ base32decode(Digits, Len(data)) = data
        /\ data # <<>> => base32decode(Digits, Len(data) - 1) = Throws

\* At no moment has base32encode written behind the caller's buffer, though
\* each of its three checks asks only its own count of what is left; it
\* refuses no buffer that would have held the string; and the string it
\* leaves ends at its only NUL.
BufferRespected ==
    /\ Len(outString) <= capacity
    /\ status = "throws" => capacity <= (8 * Len(data) + 4) \div 5
    /\ status = "done" =>
           \A k \in DOMAIN outString : outString[k] = Terminator <=> k = Len(outString)

=============================================================================
