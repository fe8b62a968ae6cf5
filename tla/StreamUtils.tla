---------------------------- MODULE StreamUtils ----------------------------
(***************************************************************************)
(* Sealed streams: what StreamUtils::compressEncryptHMAC makes of a        *)
(* plaintext before it is stored, and what decompressDecryptHMAC makes of  *)
(* what it reads back (libnebula/StreamUtils.cpp).                         *)
(*                                                                         *)
(* Encryption and HMAC are idealised.  A sealed stream is a sequence of    *)
(* cells that remember the payload, their place in the stream, and by, the *)
(* writer, which stands for the random IV: seals of one payload by two     *)
(* writers are different and cannot be mixed.  The HMAC check succeeds on  *)
(* exactly the whole, unmixed streams.                                     *)
(*                                                                         *)
(* A payload is a block of file data, stored under a compression type      *)
(* (0 NoCompression, 1 LZMA2), or a serialised snapshot, always LZMA2.     *)
(***************************************************************************)
EXTENDS Integers, Sequences

Block(comp, data) == [kind |-> "block", comp |-> comp, data |-> data]

SnapshotFile(snap) == [kind |-> "snapshot", snap |-> snap]

\* A header (HMAC and IV), then one cell per unit of data; a snapshot is
\* long enough to be cut in two.
SealLength(pay) == IF pay.kind = "block" THEN 1 + Len(pay.data) ELSE 2

compressEncryptHMAC(by, pay) ==
    [k \in 1..SealLength(pay) |-> [by |-> by, pay |-> pay, part |-> k]]

\* readExpected gets an HMAC and the HMAC of the rest equals it
VerifiesHMAC(cells) ==
    /\ cells # <<>>
    /\ cells = compressEncryptHMAC(cells[1].by, cells[1].pay)

\* What is written instead of the data when reading throws (missing object,
\* short read, failed verification, LZMA error), or when compressed bytes are
\* taken for plain ones: no data contains it.
Corrupt == <<-1>>

decompressDecryptHMAC(comp, cells) ==
    IF VerifiesHMAC(cells) /\ cells[1].pay.kind = "block" /\ cells[1].pay.comp = comp
    THEN cells[1].pay.data
    ELSE Corrupt

=============================================================================
