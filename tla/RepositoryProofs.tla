------------------------- MODULE RepositoryProofs -------------------------
(***************************************************************************)
(* Proofs about Repository, for any number of clients, names, jobs,        *)
(* backups and faults.                                                     *)
(***************************************************************************)
EXTENDS Repository, SequenceTheorems, TLAPS

-----------------------------------------------------------------------------
(* Sealed streams and object ids *)

\* What compressEncryptHMAC makes verifies and gives its payload back.
LEMMA SealVerifies ==
    ASSUME NEW by, NEW pay, SealLength(pay) \in Nat \ {0}
    PROVE  /\ VerifiesHMAC(compressEncryptHMAC(by, pay))
           /\ compressEncryptHMAC(by, pay)[1].by = by
           /\ compressEncryptHMAC(by, pay)[1].pay = pay
<1> DEFINE cells == compressEncryptHMAC(by, pay)
<1>1. 1 \in 1..SealLength(pay)
  OBVIOUS
<1>2. cells[1].by = by /\ cells[1].pay = pay
  BY <1>1 DEF compressEncryptHMAC
<1>3. cells # <<>>
  BY <1>1 DEF compressEncryptHMAC
<1> QED
  BY <1>2, <1>3 DEF VerifiesHMAC

\* The seals of blocks and of snapshots are not empty.
LEMMA SealLengths ==
    /\ \A comp : \A d \in Bytes : SealLength(Block(comp, d)) \in Nat \ {0}
    /\ \A snap : SealLength(SnapshotFile(snap)) \in Nat \ {0}
BY DEF SealLength, Block, SnapshotFile, Bytes

\* computeBlockHMAC is fed the compression type first, so that no two blocks
\* that differ in type or data share an id.
LEMMA BlockIdInjective ==
    ASSUME NEW c1 \in {0, 1}, NEW c2 \in {0, 1}, NEW d1 \in Bytes, NEW d2 \in Bytes,
           BlockId(c1, d1) = BlockId(c2, d2)
    PROVE  c1 = c2 /\ d1 = d2
<1>1. /\ c1 = BlockId(c1, d1)[1]
      /\ c2 = BlockId(c2, d2)[1]
  BY DEF BlockId, Bytes
<1>2. /\ Len(BlockId(c1, d1)) = 1 + Len(d1)
      /\ Len(BlockId(c2, d2)) = 1 + Len(d2)
  BY DEF BlockId, Bytes
<1>3. \A i \in 1..Len(d1) : d1[i] = BlockId(c1, d1)[i + 1]
  BY DEF BlockId, Bytes
<1>4. \A i \in 1..Len(d2) : d2[i] = BlockId(c2, d2)[i + 1]
  BY DEF BlockId, Bytes
<1>5. Len(d1) = Len(d2)
  BY <1>2 DEF Bytes
<1>6. d1 = d2
  BY <1>3, <1>4, <1>5, SeqEqual DEF Bytes
<1> QED
  BY <1>1, <1>6

\* An id is a sequence of bytes.
LEMMA BlockIdType ==
    ASSUME NEW comp \in {0, 1}, NEW d \in Bytes
    PROVE  BlockId(comp, d) \in Bytes
BY DEF BlockId, Bytes

-----------------------------------------------------------------------------
(* Types *)

\* A step of put() keeps the store's types; only the three that let it go on
\* leave the client's transfer in flight.
LEMMA TransferTypes ==
    ASSUME StoreOK, NEW c
    PROVE  /\ PutOpen(c) \/ PutStored(c) \/ PutWrite(c)
                  => StoreOK' /\ DOMAIN put' = DOMAIN put
           /\ PutCancel(c) \/ PutReturn(c) \/ PutError(c)
                  => StoreOK' /\ DOMAIN put' = DOMAIN put \ {c}
           /\ Fault /\ PutAbandon(c) => StoreOK' /\ DOMAIN put' = DOMAIN put \ {c}
<1> USE MaxFaultsAssumption
<1>1. ASSUME PutOpen(c)
      PROVE  StoreOK' /\ DOMAIN put' = DOMAIN put
  BY <1>1 DEF PutOpen, StoreOK, TransferOK, With, NoFault
<1>0. ASSUME PutStored(c)
      PROVE  StoreOK' /\ DOMAIN put' = DOMAIN put
  BY <1>0 DEF PutStored, StoreOK, TransferOK, With, NoFault
<1>2. ASSUME PutWrite(c)
      PROVE  StoreOK' /\ DOMAIN put' = DOMAIN put
  BY <1>2 DEF PutWrite, Writing, StoreOK, TransferOK, NoFault
<1>3. ASSUME PutAbandon(c), faults' \in 0..MaxFaults
      PROVE  StoreOK' /\ DOMAIN put' = DOMAIN put \ {c}
  BY <1>3 DEF PutAbandon, StoreOK, TransferOK, Without
<1>4. ASSUME Fault
      PROVE  faults' \in 0..MaxFaults
  BY <1>4 DEF Fault, StoreOK
<1>5. ASSUME PutCancel(c)
      PROVE  StoreOK' /\ DOMAIN put' = DOMAIN put \ {c}
  BY <1>3, <1>5 DEF PutCancel, Writing, StoreOK, TransferOK, Without, NoFault
<1>6. ASSUME PutReturn(c)
      PROVE  StoreOK' /\ DOMAIN put' = DOMAIN put \ {c}
  BY <1>4, <1>6 DEF PutReturn, StoreOK, TransferOK, Without, NoFault
<1> QED
  BY <1>0, <1>1, <1>2, <1>3, <1>4, <1>5, <1>6 DEF PutError

\* exist() changes nothing but the number of faults.
LEMMA ExistTypes ==
    ASSUME StoreOK, NEW path, NEW reply, exist(path, reply)
    PROVE  /\ faults' \in 0..MaxFaults
           /\ UNCHANGED <<files, put, late>> => StoreOK'
BY MaxFaultsAssumption DEF exist, HeadFails, StoreOK, Fault, NoFault

\* A put() begins as the code's transfers do.
LEMMA StartTypes ==
    ASSUME StoreOK, NEW c, NEW path, NEW data, PathOK(path), PutStart(c, path, data),
           faults' \in 0..MaxFaults
    PROVE  StoreOK' /\ DOMAIN put' = DOMAIN put \cup {c}
BY DEF PutStart, StoreOK, TransferOK, Transfer, With, PathOK

\* The parts of a session that a step reads have the types of the job's files.
LEMMA CurrentFileType ==
    ASSUME NEW s, SessionOK(s), ArgOpen(s)
    PROVE  /\ CurrentFile(s) \in File
           /\ NextFile(s.args) \in Seq(Seq(File))
           /\ Len(NextFile(s.args)) = Len(s.args)
<1>1. Head(s.args) \in Seq(File) /\ Tail(s.args) \in Seq(Seq(File))
  BY DEF SessionOK, ArgOpen
<1>2. CurrentFile(s) \in File /\ Tail(Head(s.args)) \in Seq(File)
  BY <1>1 DEF CurrentFile, ArgOpen
<1> QED
  BY <1>1, <1>2 DEF NextFile, ArgOpen, SessionOK

LEMMA NextBlockType ==
    ASSUME NEW s, SessionOK(s), ArgOpen(s), BlocksLeft(s)
    PROVE  /\ CurrentFile(s).comp \in {0, 1}
           /\ NextBlock(s) \in Bytes
           /\ NextBlockId(s) \in Bytes
<1>1. CurrentFile(s) \in File
  BY CurrentFileType
<1>2. NextBlock(s) \in Bytes /\ CurrentFile(s).comp \in {0, 1}
  BY <1>1 DEF BlocksLeft, NextBlock, File, SessionOK
<1> QED
  BY <1>2, BlockIdType DEF NextBlockId

\* Initially the store is empty and nobody backs up.
LEMMA InitTypes == Init => TypeOK
BY MaxFaultsAssumption, MaxBackupsAssumption
DEF Init, StoreInit, EmptyFcn, TypeOK, StoreOK

\* A request that the SDK repeats is one more like that of put(), and nothing
\* else changes.
LEMMA RetryKeeps ==
    ASSUME StoreOK, NEW c, Retry(c)
    PROVE  /\ Backend = "s3" /\ c \in DOMAIN put /\ Fault
           /\ UNCHANGED <<files, put, sess, started>>
           /\ DOMAIN put' = DOMAIN put
           /\ \E t : /\ late' = late \cup {t}
                     /\ TransferOK(t)
                     /\ t.path = put[c].path
                     /\ t.data = put[c].data
                     /\ t.open = "no"
           /\ StoreOK'
<1>1. /\ Backend = "s3" /\ c \in DOMAIN put /\ Fault
      /\ UNCHANGED <<files, put, sess, started>>
      /\ late' = late \cup {[put[c] EXCEPT !.open = "no"]}
  BY DEF Retry, PutRetry, repoVars
<1>2. TransferOK(put[c])
  BY <1>1 DEF StoreOK
<1> DEFINE t == [put[c] EXCEPT !.open = "no"]
<1>3. TransferOK(t) /\ t.path = put[c].path /\ t.data = put[c].data /\ t.open = "no"
  BY <1>2 DEF TransferOK
<1> HIDE DEF t
<1>4. StoreOK'
  BY <1>1, <1>3, MaxFaultsAssumption DEF StoreOK, Fault, t
<1> QED
  BY <1>1, <1>3, <1>4 DEF t

\* Every step keeps TypeOK.
LEMMA NextTypes == TypeOK /\ [Next]_vars => TypeOK'
<1> SUFFICES ASSUME TypeOK, [Next]_vars
             PROVE  TypeOK'
  OBVIOUS
<1>0. StoreOK
  BY DEF TypeOK
<1>1. ASSUME UNCHANGED vars
      PROVE  TypeOK'
  BY <1>1 DEF vars, TypeOK, StoreOK
\* what is left to show when a client's session is replaced by s
<1>2. ASSUME NEW c \in Client, NEW s, c \in DOMAIN sess, SetSession(c, s), SessionOK(s),
             StoreOK', DOMAIN put' \subseteq DOMAIN put,
             c \in DOMAIN put' => (Uploading(s) => BlocksLeft(s)), UNCHANGED started
      PROVE  TypeOK'
  BY <1>2 DEF TypeOK, SetSession
\* and when it ends
<1>3. ASSUME NEW c \in Client, EndSession(c),
             StoreOK', DOMAIN put' \subseteq DOMAIN put \ {c}, UNCHANGED started
      PROVE  TypeOK'
  BY <1>3 DEF TypeOK, EndSession, Without
<1>4. ASSUME UNCHANGED storeVars
      PROVE  StoreOK' /\ DOMAIN put' = DOMAIN put
  BY <1>0, <1>4 DEF storeVars, StoreOK
<1>5. ASSUME NEW c \in Client, NEW n \in Name, NEW job \in Job, Backup(c, n, job)
      PROVE  TypeOK'
  <2>1. SessionOK(Session(n, job))
    BY JobAssumption DEF Session, SessionOK, EmptyFcn
  <2> QED
    BY <1>4, <1>5, <2>1, MaxBackupsAssumption DEF Backup, TypeOK, With
<1>6. ASSUME NEW c \in Client, Signal(c)
      PROVE  TypeOK'
  <2> DEFINE s == [sess[c] EXCEPT !.cancelled = TRUE]
  <2>1. SessionOK(sess[c]) /\ SessionOK(s)
    BY <1>6 DEF Signal, TypeOK, SessionOK
  <2>2. /\ Uploading(s) <=> Uploading(sess[c])
        /\ BlocksLeft(s) <=> BlocksLeft(sess[c])
    BY <2>1 DEF SessionOK, Uploading, BlocksLeft, ArgOpen, ToPack, CurrentFile
  <2>3. c \in DOMAIN put => (Uploading(s) => BlocksLeft(s))
    BY <2>2 DEF TypeOK
  <2> QED
    BY <1>2, <1>4, <1>6, <2>1, <2>3 DEF Signal, SetSession
<1>7. ASSUME NEW c \in Client, AddToPack(c)
      PROVE  TypeOK'
  <2> DEFINE s == sess[c]
             f == CurrentFile(s)
             added == [s EXCEPT
                         !.args = NextFile(@),
                         !.pack = Append(@, [path |-> f.path, comp |-> f.comp,
                                             data |-> f.blocks[1]])]
  <2>1. SessionOK(s) /\ ArgOpen(s) /\ c \in DOMAIN sess /\ c \notin DOMAIN put
    BY <1>7 DEF AddToPack, Running, TypeOK
  <2>2. f \in File /\ NextFile(s.args) \in Seq(Seq(File))
    BY <2>1, CurrentFileType
  <2>3. [path |-> f.path, comp |-> f.comp, data |-> f.blocks[1]] \in PackFile
    BY <2>2 DEF File, PackFile
  <2>4. SessionOK(added) /\ SessionOK([added EXCEPT !.writePack = TRUE])
    BY <2>1, <2>2, <2>3 DEF SessionOK
  <2> QED
    BY <1>2, <1>3, <1>4, <1>7, <2>1, <2>4 DEF AddToPack
<1>8. ASSUME NEW c \in Client, UploadBlock(c)
      PROVE  TypeOK'
  <2> DEFINE s == sess[c]
             id == NextBlockId(s)
  <2>1. SessionOK(s) /\ ArgOpen(s) /\ BlocksLeft(s) /\ c \in DOMAIN sess /\ c \notin DOMAIN put
    BY <1>8 DEF UploadBlock, Running, Uploading, TypeOK
  <2>2. SessionOK([s EXCEPT !.ids = Append(@, id)])
    BY <2>1, NextBlockType DEF SessionOK
  <2>3. PathOK(DataPath(id))
    BY DEF PathOK, DataPath
  <2>4. CASE exist(DataPath(id), TRUE) /\ UNCHANGED <<files, put, late>>
                 /\ (SetSession(c, [s EXCEPT !.ids = Append(@, id)]) \/ EndSession(c))
    BY <1>0, <1>2, <1>3, <1>8, <2>1, <2>2, <2>4, ExistTypes DEF UploadBlock
  <2>5. CASE exist(DataPath(id), FALSE) /\ UNCHANGED sess
                 /\ PutStart(c, DataPath(id),
                       compressEncryptHMAC(c, Block(CurrentFile(s).comp, NextBlock(s))))
    <3>1. StoreOK' /\ DOMAIN put' = DOMAIN put \cup {c}
      BY <1>0, <2>3, <2>5, ExistTypes, StartTypes
    <3> QED
      BY <1>8, <2>1, <2>5, <3>1 DEF UploadBlock, TypeOK
  <2> QED
    BY <1>8, <2>4, <2>5 DEF UploadBlock
<1>9. ASSUME NEW c \in Client, RecordFile(c)
      PROVE  TypeOK'
  <2> DEFINE s == sess[c]
             f == CurrentFile(s)
             snap == addFileEntry(s.snap, f.path, FileEntry(s.ids, f.comp, 0, 0, f.blocks))
  <2>1. SessionOK(s) /\ ArgOpen(s) /\ c \in DOMAIN sess /\ c \notin DOMAIN put
    BY <1>9 DEF RecordFile, Running, Uploading, TypeOK
  <2>2. f.path \in STRING /\ NextFile(s.args) \in Seq(Seq(File))
    BY <2>1, CurrentFileType DEF File
  <2>3. DOMAIN snap \subseteq STRING
    BY <2>1, <2>2 DEF addFileEntry, With, SessionOK
  <2>4. SessionOK([s EXCEPT !.args = NextFile(@), !.ids = <<>>, !.snap = snap])
    BY <2>1, <2>2, <2>3 DEF SessionOK
  <2> QED
    BY <1>2, <1>4, <1>9, <2>1, <2>4 DEF RecordFile
\* finalizePack ends with the paths of the pack in the snapshot
<1>10. ASSUME NEW s, SessionOK(s), NEW offset, NEW packLength
       PROVE  SessionOK(PackFinalized(s, offset, packLength))
  <2>0. \A i \in DOMAIN s.pack : s.pack[i] \in PackFile
    BY <1>10 DEF SessionOK
  <2>1. \A i \in DOMAIN s.pack : s.pack[i].path \in STRING
    BY <2>0 DEF PackFile
  <2>2. DOMAIN AddPackEntries(s.snap, s.pack, offset, packLength) \subseteq STRING
    BY <1>10, <2>1 DEF AddPackEntries, SessionOK
  <2> QED
    BY <1>10, <2>2 DEF PackFinalized, SessionOK
<1>11. ASSUME NEW c \in Client, FinalizePack(c)
       PROVE  TypeOK'
  <2> DEFINE s == sess[c]
             path == DataPath(PackId(s.pack))
             index == [i \in DOMAIN s.pack |-> i - 1]
  <2>1. SessionOK(s) /\ c \in DOMAIN sess /\ c \notin DOMAIN put
    BY <1>11 DEF FinalizePack, Running, TypeOK
  <2>2. ~Uploading(s)
    BY <1>11 DEF FinalizePack, Finalizing, Uploading, ArgOpen, ArgDone
  <2>3. PathOK(path)
    BY DEF PathOK, DataPath
  <2>4. ASSUME exist(path, TRUE), UNCHANGED <<files, put, late>>,
               NEW packLength, SetSession(c, PackFinalized(s, index, packLength))
        PROVE  TypeOK'
    BY <1>0, <1>2, <1>10, <1>11, <2>1, <2>4, ExistTypes DEF FinalizePack
  <2>5. CASE exist(path, FALSE) /\ UNCHANGED sess
                 /\ PutStart(c, path, FlattenSeq(PackSeals(c, s.pack)))
    <3>1. StoreOK' /\ DOMAIN put' = DOMAIN put \cup {c}
      BY <1>0, <2>3, <2>5, ExistTypes, StartTypes
    <3> QED
      BY <1>11, <2>1, <2>2, <2>5, <3>1 DEF FinalizePack, TypeOK
  <2> QED
    BY <1>11, <2>4, <2>5 DEF FinalizePack
<1>12. ASSUME NEW c \in Client, NextArg(c)
       PROVE  TypeOK'
  <2>1. SessionOK(sess[c]) /\ sess[c].args # <<>> /\ c \in DOMAIN sess /\ c \notin DOMAIN put
    BY <1>12 DEF NextArg, Running, ArgDone, TypeOK
  <2>2. SessionOK([sess[c] EXCEPT !.args = Tail(@)])
    BY <2>1 DEF SessionOK
  <2> QED
    BY <1>2, <1>4, <1>12, <2>1, <2>2 DEF NextArg, SetSession
<1>13. ASSUME NEW c \in Client, CommitSnapshot(c)
       PROVE  TypeOK'
  <2>1. PathOK(SnapshotPath(sess[c].name)) /\ c \in DOMAIN sess
    BY <1>13 DEF CommitSnapshot, Running, TypeOK, SessionOK, PathOK, SnapshotPath
  <2>2. StoreOK' /\ DOMAIN put' = DOMAIN put \cup {c}
    BY <1>0, <1>13, <2>1, StartTypes DEF CommitSnapshot, StoreOK
  <2>3. ~Uploading(sess[c])
    BY <1>13 DEF CommitSnapshot, Uploading, ArgOpen
  <2> QED
    BY <1>13, <2>1, <2>2, <2>3 DEF CommitSnapshot, TypeOK
<1>14. ASSUME NEW c \in Client, Transferring(c)
       PROVE  TypeOK'
  BY <1>0, <1>14, TransferTypes DEF Transferring, repoVars, TypeOK
<1>15. ASSUME NEW c \in Client, CancelTransfer(c) \/ TransferError(c)
       PROVE  TypeOK'
  BY <1>0, <1>3, <1>15, TransferTypes DEF CancelTransfer, TransferError
<1>16. ASSUME NEW c \in Client, Transferred(c)
       PROVE  TypeOK'
  <2> DEFINE s == sess[c]
  <2>1. SessionOK(s) /\ c \in DOMAIN sess
    BY <1>16 DEF Transferred, Waiting, TypeOK
  <2>2. StoreOK' /\ DOMAIN put' = DOMAIN put \ {c}
    BY <1>0, <1>16, TransferTypes DEF Transferred
  <2>3. CASE SetSession(c, PackFinalized(s, PackOffsets(s.pack), PackLengths(s.pack)))
    BY <1>2, <1>10, <1>16, <2>1, <2>2, <2>3 DEF Transferred
  <2>4. CASE EndSession(c)
    BY <1>3, <1>16, <2>2, <2>4 DEF Transferred
  <2>5. CASE Uploading(s) /\ SetSession(c, [s EXCEPT !.ids = Append(@, NextBlockId(s))])
    <3>1. ArgOpen(s) /\ BlocksLeft(s)
      BY <1>16, <2>5 DEF Transferred, Waiting, Uploading, TypeOK
    <3>2. SessionOK([s EXCEPT !.ids = Append(@, NextBlockId(s))])
      <4>1. s.ids \in Seq(Bytes) /\ NextBlockId(s) \in Bytes
        BY <2>1, <3>1, NextBlockType DEF SessionOK
      <4>2. Append(s.ids, NextBlockId(s)) \in Seq(Bytes)
        BY <4>1
      <4> DEFINE ids == Append(s.ids, NextBlockId(s))
                 u == [s EXCEPT !.ids = ids]
      <4> HIDE DEF ids
      <4>3. SessionOK(u)
        BY <2>1, <4>2 DEF SessionOK, ids
      <4> QED
        BY <4>3 DEF ids
    <3> QED
      BY <1>2, <1>16, <2>1, <2>2, <2>5, <3>2 DEF Transferred
  <2> QED
    BY <1>16, <2>3, <2>4, <2>5 DEF Transferred
<1>17. ASSUME NEW c \in Client, Crash(c)
       PROVE  TypeOK'
  <2>1. CASE PutAbandon(c)
    BY <1>0, <1>3, <1>17, <2>1, TransferTypes DEF Crash
  <2>2. CASE c \notin DOMAIN put /\ UNCHANGED <<files, put, late>>
    <3>1. StoreOK'
      BY <1>0, <1>17, <2>2, MaxFaultsAssumption DEF Crash, Fault, StoreOK
    <3> QED
      BY <1>3, <1>17, <2>2, <3>1 DEF Crash
  <2> QED
    BY <1>17, <2>1, <2>2 DEF Crash
<1>18. ASSUME LateUpload
       PROVE  TypeOK'
  BY <1>18 DEF LateUpload, PutLate, repoVars, TypeOK, StoreOK, TransferOK, With
<1>19. ASSUME NEW c \in Client, Retry(c)
       PROVE  TypeOK'
  BY <1>0, <1>19, RetryKeeps DEF TypeOK
<1> QED
  BY <1>1, <1>5, <1>6, <1>7, <1>8, <1>9, <1>11, <1>12, <1>13, <1>14, <1>15, <1>16, <1>17,
     <1>18, <1>19
  DEF Next, Step

\* Type correctness, whatever is backed up, to either backend.
THEOREM TypeCorrect == Spec => []TypeOK
<1> QED
  BY InitTypes, NextTypes, PTL DEF Spec

-----------------------------------------------------------------------------
(* What is stored can be restored: S3, no file packed *)

\* More objects in the store make nothing less safe.
LEMMA SafetyGrows ==
    ASSUME NEW stored, NEW more, stored \subseteq more
    PROVE  /\ \A snap : SafeSnapshot(snap, stored) => SafeSnapshot(snap, more)
           /\ \A path, cells : SafeObject(path, cells, stored) => SafeObject(path, cells, more)
           /\ \A s : SafeSession(s, stored) => SafeSession(s, more)
<1>1. \A ids, comp, blocks :
         StoredBlocks(ids, comp, blocks, stored) => StoredBlocks(ids, comp, blocks, more)
  BY DEF StoredBlocks
<1>2. \A snap : SafeSnapshot(snap, stored) => SafeSnapshot(snap, more)
  BY <1>1 DEF SafeSnapshot, SafeEntry
<1> QED
  BY <1>1, <1>2 DEF SafeObject, SafeSession

\* A sealed block, stored under its id, is safe.
LEMMA SealedBlockSafe ==
    ASSUME NEW by, NEW comp \in {0, 1}, NEW d \in Bytes, NEW stored
    PROVE  SafeObject(DataPath(BlockId(comp, d)), compressEncryptHMAC(by, Block(comp, d)), stored)
<1> DEFINE cells == compressEncryptHMAC(by, Block(comp, d))
<1>1. VerifiesHMAC(cells) /\ cells[1].pay = Block(comp, d)
  BY SealVerifies, SealLengths
<1>2. Block(comp, d).kind = "block" /\ Block(comp, d).comp = comp /\ Block(comp, d).data = d
  BY DEF Block
<1> HIDE DEF cells
<1> QED
  BY <1>1, <1>2 DEF SafeObject, cells

\* A sealed snapshot, stored under a name, is as safe as its entries.
LEMMA SealedSnapshotSafe ==
    ASSUME NEW by, NEW n, NEW snap, NEW stored, SafeSnapshot(snap, stored)
    PROVE  SafeObject(SnapshotPath(n), compressEncryptHMAC(by, SnapshotFile(snap)), stored)
<1> DEFINE cells == compressEncryptHMAC(by, SnapshotFile(snap))
<1>1. VerifiesHMAC(cells) /\ cells[1].pay = SnapshotFile(snap)
  BY SealVerifies, SealLengths
<1>2. SnapshotFile(snap).kind = "snapshot" /\ SnapshotFile(snap).snap = snap
  BY DEF SnapshotFile
<1>3. SnapshotPath(n)[1] = "snapshot"
  BY DEF SnapshotPath
<1> HIDE DEF cells
<1> QED
  BY <1>1, <1>2, <1>3 DEF SafeObject, cells

\* The object an id names gives back the block the id was computed from.
LEMMA SafeObjectReads ==
    ASSUME NEW comp \in {0, 1}, NEW d \in Bytes, NEW cells, NEW stored,
           SafeObject(DataPath(BlockId(comp, d)), cells, stored)
    PROVE  decompressDecryptHMAC(comp, cells) = d
<1> DEFINE pay == cells[1].pay
<1>1. DataPath(BlockId(comp, d))[1] = "data"
  BY DEF DataPath
<1>2. /\ VerifiesHMAC(cells)
      /\ pay.kind = "block" /\ pay.comp \in {0, 1} /\ pay.data \in Bytes
      /\ DataPath(BlockId(comp, d)) = DataPath(BlockId(pay.comp, pay.data))
  BY <1>1 DEF SafeObject
<1>3. BlockId(comp, d) = BlockId(pay.comp, pay.data)
  BY <1>2 DEF DataPath
<1>4. comp = pay.comp /\ d = pay.data
  BY <1>2, <1>3, BlockIdInjective
<1> QED
  BY <1>2, <1>4 DEF decompressDecryptHMAC

\* downloadFile of a safe entry gives the content that was uploaded.
LEMMA SafeEntryRestores ==
    ASSUME SafeBlocks, NEW e, SafeEntry(e, DOMAIN files)
    PROVE  downloadFile(e) = e.md5
<1>1. /\ e.packLength = 0 /\ e.comp \in {0, 1}
      /\ e.ids \in Seq(Bytes) /\ e.md5 \in Seq(Bytes) /\ Len(e.ids) = Len(e.md5)
  BY DEF SafeEntry
<1>2. DOMAIN e.ids = DOMAIN e.md5
  BY <1>1
<1>3. ASSUME NEW i \in DOMAIN e.ids
      PROVE  decompressDecryptHMAC(e.comp, get(DataPath(e.ids[i]))) = e.md5[i]
  <2>1. e.ids[i] = BlockId(e.comp, e.md5[i]) /\ DataPath(e.ids[i]) \in DOMAIN files
    BY <1>3 DEF SafeEntry, StoredBlocks
  <2>2. e.md5[i] \in Bytes
    BY <1>1, <1>2, <1>3
  <2>3. SafeObject(DataPath(e.ids[i]), get(DataPath(e.ids[i])), DOMAIN files)
    BY <2>1 DEF SafeBlocks, get
  <2> QED
    BY <1>1, <2>1, <2>2, <2>3, SafeObjectReads
<1>4. downloadFile(e) = [i \in DOMAIN e.ids |-> e.md5[i]]
  BY <1>1, <1>3 DEF downloadFile, PieceOf
<1> QED
  BY <1>1, <1>2, <1>4

\* SafeBlocks is what makes snapshots restorable.
LEMMA SafeIsRestorable == SafeBlocks => Restorable
<1> SUFFICES ASSUME SafeBlocks, NEW n \in Name, Committed(n),
                    NEW p \in DOMAIN loadSnapshot(n)
             PROVE  downloadFile(loadSnapshot(n)[p]) = loadSnapshot(n)[p].md5
  BY DEF Restorable
<1>1. /\ SnapshotPath(n) \in DOMAIN files
      /\ get(SnapshotPath(n))[1].pay.kind = "snapshot"
  BY DEF Committed, get, VerifiesHMAC
<1>2. SafeObject(SnapshotPath(n), get(SnapshotPath(n)), DOMAIN files)
  BY <1>1 DEF SafeBlocks, get
<1>3. SafeSnapshot(loadSnapshot(n), DOMAIN files)
  BY <1>1, <1>2 DEF SafeObject, loadSnapshot
<1> QED
  BY <1>3, SafeEntryRestores DEF SafeSnapshot

\* On S3 the store only grows, and by what was safe in flight.
LEMMA StoreGrows ==
    ASSUME SafeBlocks, NEW t, SafeObject(t.path, t.data, DOMAIN files),
           files' = With(files, t.path, t.data)
    PROVE  /\ DOMAIN files \subseteq DOMAIN files'
           /\ \A p \in DOMAIN files' : SafeObject(p, files'[p], DOMAIN files')
<1>1. DOMAIN files \subseteq DOMAIN files'
  BY DEF With
<1>2. /\ \A p \in DOMAIN files : SafeObject(p, files[p], DOMAIN files')
      /\ SafeObject(t.path, t.data, DOMAIN files')
  BY <1>1, SafetyGrows DEF SafeBlocks
<1> QED
  BY <1>1, <1>2 DEF With

\* The length of a concatenation.
LEMMA ConcatLength ==
    ASSUME NEW S, NEW f \in Seq(S), NEW t \in Seq(S)
    PROVE  f \o t \in Seq(S) /\ Len(f \o t) = Len(f) + Len(t) /\ Len(t) \in Nat
OBVIOUS

\* Behind the first element of a concatenation comes the second sequence.
LEMMA AfterFirst ==
    ASSUME NEW S, NEW f \in Seq(S), Len(f) = 1, NEW t \in Seq(S),
           NEW a \in DOMAIN (f \o t), a # 1
    PROVE  /\ a \in Nat /\ a - 1 \in 1..Len(t) /\ (f \o t)[a] = t[a - 1]
<1>1. f \o t \in Seq(S) /\ Len(f \o t) = 1 + Len(t) /\ Len(t) \in Nat
  BY ConcatLength
<1>2. a \in 1..(1 + Len(t))
  <2> DEFINE c == f \o t
  <2>1. c \in Seq(S) /\ Len(c) = 1 + Len(t) /\ a \in DOMAIN c
    BY <1>1
  <2> HIDE DEF c
  <2> QED
    BY <2>1
<1>3. a \in Nat /\ a - 1 \in 1..Len(t) /\ a > Len(f)
  BY <1>1, <1>2
<1> QED
  BY <1>1, <1>2, <1>3

\* Taking a file off the argument list leaves only files of the list.
LEMMA NextFileKeeps ==
    ASSUME NEW s, SessionOK(s), ArgOpen(s), NEW a \in DOMAIN NextFile(s.args),
           NEW i \in DOMAIN NextFile(s.args)[a]
    PROVE  \E b \in DOMAIN s.args : \E j \in DOMAIN s.args[b] :
               s.args[b][j] = NextFile(s.args)[a][i]
<1>1. s.args \in Seq(Seq(File)) /\ s.args # <<>> /\ Head(s.args) # <<>>
  BY DEF SessionOK, ArgOpen
<1>2. 1 \in DOMAIN s.args /\ s.args[1] = Head(s.args) /\ s.args[1] \in Seq(File)
  BY <1>1
<1>3. CASE a = 1
  <2>1. NextFile(s.args)[a] = Tail(s.args[1])
    BY <1>1, <1>2, <1>3 DEF NextFile
  <2>2. i + 1 \in DOMAIN s.args[1] /\ s.args[1][i + 1] = Tail(s.args[1])[i]
    BY <1>1, <1>2, <2>1
  <2> QED
    BY <1>2, <2>1, <2>2
<1>4. CASE a # 1
  <2>1. a \in DOMAIN s.args /\ NextFile(s.args)[a] = s.args[a]
    <3> DEFINE args == s.args
               first == <<Tail(Head(args))>>
               rest == Tail(args)
    <3>1. /\ first \in Seq(Seq(File)) /\ Len(first) = 1
          /\ rest \in Seq(Seq(File)) /\ Len(rest) = Len(args) - 1
          /\ \A k \in 1..(Len(args) - 1) : rest[k] = args[k + 1]
      BY <1>1, <1>2
    <3>2. Len(args) \in Nat /\ DOMAIN args = 1..Len(args)
      BY <1>1
    <3>3. NextFile(args) = first \o rest
      BY DEF NextFile
    <3>4. a \in DOMAIN (first \o rest)
      BY <3>3
    <3> HIDE DEF args, first, rest
    <3>5. a \in Nat /\ a - 1 \in 1..Len(rest) /\ (first \o rest)[a] = rest[a - 1]
      BY <1>4, <3>1, <3>4, AfterFirst
    <3>6. a \in 1..Len(args) /\ rest[a - 1] = args[a]
      <4> DEFINE k == a - 1
      <4>1. k \in 1..(Len(args) - 1) /\ k + 1 = a
        BY <3>1, <3>5
      <4> HIDE DEF k
      <4>2. rest[k] = args[k + 1]
        BY <3>1, <4>1
      <4>3. a \in 1..Len(args)
        BY <3>2, <4>1
      <4> QED
        BY <4>1, <4>2, <4>3 DEF k
    <3> QED
      BY <3>2, <3>3, <3>5, <3>6 DEF args
  <2> QED
    BY <2>1
<1> QED
  BY <1>3, <1>4

\* The same for dropping a finished argument.
LEMMA NextArgKeeps ==
    ASSUME NEW s, SessionOK(s), s.args # <<>>, NEW a \in DOMAIN Tail(s.args)
    PROVE  a + 1 \in DOMAIN s.args /\ s.args[a + 1] = Tail(s.args)[a]
BY DEF SessionOK

\* A session that has just begun, or moved on to its next file, is safe.
LEMMA FreshSessionSafe ==
    ASSUME NEW s, SessionOK(s), NEW stored, s.ids = <<>>, s.pack = <<>>, ~s.writePack,
           SafeSnapshot(s.snap, stored),
           \A a \in DOMAIN s.args : \A i \in DOMAIN s.args[a] :
               ~(s.job.packed /\ s.args[a][i].small)
    PROVE  SafeSession(s, stored)
<1>1. ASSUME ArgOpen(s)
      PROVE  StoredBlocks(s.ids, CurrentFile(s).comp, CurrentFile(s).blocks, stored)
  <2>1. CurrentFile(s).blocks \in Seq(Bytes)
    BY <1>1, CurrentFileType DEF File
  <2> QED
    BY <2>1 DEF StoredBlocks
<1> QED
  BY <1>1 DEF SafeSession

\* Uploading a block that is stored adds its id.
LEMMA NextIdSafe ==
    ASSUME NEW s, SessionOK(s), NEW stored, SafeSession(s, stored), ArgOpen(s), BlocksLeft(s),
           DataPath(NextBlockId(s)) \in stored
    PROVE  SafeSession([s EXCEPT !.ids = Append(@, NextBlockId(s))], stored)
<1> DEFINE id == NextBlockId(s)
           t == [s EXCEPT !.ids = Append(@, id)]
           f == CurrentFile(s)
<1>1. /\ t.args = s.args /\ t.job = s.job /\ t.pack = s.pack
      /\ t.writePack = s.writePack /\ t.snap = s.snap /\ t.ids = Append(s.ids, id)
  BY DEF SessionOK
<1>2. ArgOpen(t) /\ CurrentFile(t) = f
  BY <1>1 DEF ArgOpen, CurrentFile
<1>3. f.blocks \in Seq(Bytes) /\ s.ids \in Seq(Bytes) /\ id \in Bytes
  BY CurrentFileType, NextBlockType DEF File, SessionOK
<1>4. StoredBlocks(s.ids, f.comp, f.blocks, stored) /\ Len(s.ids) < Len(f.blocks)
  BY DEF SafeSession, BlocksLeft
<1>5. id = BlockId(f.comp, f.blocks[Len(s.ids) + 1]) /\ DataPath(id) \in stored
  BY DEF NextBlockId, NextBlock
<1> HIDE DEF id, f, t
<1>6. StoredBlocks(t.ids, f.comp, f.blocks, stored)
  <2>1. Len(t.ids) = Len(s.ids) + 1
    BY <1>1, <1>3
  <2>2. ASSUME NEW i \in DOMAIN t.ids
        PROVE  t.ids[i] = BlockId(f.comp, f.blocks[i]) /\ DataPath(t.ids[i]) \in stored
    <3>1. CASE i \in DOMAIN s.ids
      BY <1>1, <1>3, <1>4, <3>1 DEF StoredBlocks
    <3>2. CASE i = Len(s.ids) + 1
      BY <1>1, <1>3, <1>5, <3>2
    <3> QED
      BY <1>1, <1>3, <2>2, <3>1, <3>2
  <2> QED
    BY <1>3, <1>4, <2>1, <2>2 DEF StoredBlocks
<1> QED
  BY <1>1, <1>2, <1>6 DEF SafeSession, t, f, id

\* Nothing is stored initially.
LEMMA InitSafe == Init => SafeBlocks
BY DEF Init, StoreInit, EmptyFcn, SafeBlocks

\* Every step keeps SafeBlocks.
LEMMA NextSafe ==
    ASSUME Backend = "s3", NoPacks, TypeOK, SafeBlocks, [Next]_vars
    PROVE  SafeBlocks'
<1> DEFINE Grows == /\ DOMAIN files \subseteq DOMAIN files'
                    /\ \A p \in DOMAIN files' : SafeObject(p, files'[p], DOMAIN files')
                    /\ \A t \in late' : SafeObject(t.path, t.data, DOMAIN files')
           Kept == \A d \in DOMAIN put' : d \in DOMAIN put /\ put'[d] = put[d]
<1>1. ASSUME UNCHANGED <<files, late>>
      PROVE  Grows
  BY <1>1 DEF SafeBlocks
<1>2. ASSUME UNCHANGED vars
      PROVE  SafeBlocks'
  BY <1>2 DEF vars, SafeBlocks
\* what is left to show when a client's session is replaced by s
<1>3. ASSUME NEW c \in DOMAIN sess, NEW s, SetSession(c, s), Grows, Kept,
             SafeSession(s, DOMAIN files'), c \notin DOMAIN put'
      PROVE  SafeBlocks'
  <2>1. \A d \in DOMAIN put' : SafeObject(put'[d].path, put'[d].data, DOMAIN files')
    BY <1>3, SafetyGrows DEF SafeBlocks
  <2>2. \A d \in DOMAIN sess' : SafeSession(sess'[d], DOMAIN files')
    BY <1>3, SafetyGrows DEF SafeBlocks, SetSession
  <2>3. \A d \in DOMAIN put' : sess'[d] = sess[d]
    BY <1>3 DEF SetSession, TypeOK
  <2> QED
    BY <1>3, <2>1, <2>2, <2>3 DEF SafeBlocks
\* when it ends
<1>4. ASSUME NEW c, EndSession(c), Grows, Kept, c \notin DOMAIN put'
      PROVE  SafeBlocks'
  <2>1. \A d \in DOMAIN put' : SafeObject(put'[d].path, put'[d].data, DOMAIN files')
    BY <1>4, SafetyGrows DEF SafeBlocks
  <2>2. \A d \in DOMAIN sess' : SafeSession(sess'[d], DOMAIN files')
    BY <1>4, SafetyGrows DEF SafeBlocks, EndSession, Without
  <2>3. \A d \in DOMAIN put' : sess'[d] = sess[d]
    BY <1>4 DEF EndSession, Without, TypeOK
  <2> QED
    BY <1>4, <2>1, <2>2, <2>3 DEF SafeBlocks
\* and when it begins a put()
<1>5. ASSUME NEW c \in DOMAIN sess, NEW path, NEW data, PutStart(c, path, data),
             UNCHANGED sess, SafeObject(path, data, DOMAIN files),
             Uploading(sess[c]) => path = DataPath(NextBlockId(sess[c]))
      PROVE  SafeBlocks'
  <2>1. \A d \in DOMAIN put' : put'[d] = IF d = c THEN Transfer(path, data) ELSE put[d]
    BY <1>5 DEF PutStart, With
  <2>2. DOMAIN put' = DOMAIN put \cup {c}
    BY <1>5 DEF PutStart, With
  <2>3. /\ Transfer(path, data).path = path /\ Transfer(path, data).data = data
        /\ Transfer(path, data).open = "no"
    BY DEF Transfer
  <2>4. UNCHANGED <<files, late>>
    BY <1>5 DEF PutStart
  <2> QED
    BY <1>5, <2>1, <2>2, <2>3, <2>4 DEF SafeBlocks
<1>6. ASSUME NEW c \in DOMAIN put, PutAbandon(c) \/ PutReturn(c)
      PROVE  Grows /\ Kept /\ c \notin DOMAIN put'
  <2>1. UNCHANGED files /\ put' = Without(put, c) /\ late' \subseteq late \cup {put[c]}
    BY <1>6 DEF PutAbandon, PutReturn
  <2>2. Grows
    BY <2>1 DEF SafeBlocks
  <2> QED
    BY <2>1, <2>2 DEF Without
<1>7. ASSUME NEW c \in Client, NEW n \in Name, NEW job \in Job, Backup(c, n, job)
      PROVE  SafeBlocks'
  <2> DEFINE s == Session(n, job)
  <2>1. SessionOK(s)
    BY JobAssumption DEF Session, SessionOK, EmptyFcn
  <2>2. SafeSession(s, DOMAIN files)
    <3>1. /\ s.ids = <<>> /\ s.pack = <<>> /\ ~s.writePack
          /\ s.snap = EmptyFcn /\ s.args = job.args /\ s.job = job
      BY DEF Session
    <3>2. SafeSnapshot(s.snap, DOMAIN files)
      BY <3>1 DEF SafeSnapshot, EmptyFcn
    <3> HIDE DEF s
    <3> QED
      BY <2>1, <3>1, <3>2, FreshSessionSafe DEF NoPacks
  <2>3. /\ c \notin DOMAIN sess /\ UNCHANGED <<files, put, late>>
        /\ sess' = With(sess, c, s)
    BY <1>7 DEF Backup, storeVars
  <2>4. \A d \in DOMAIN put' : sess'[d] = sess[d]
    BY <2>3 DEF With, TypeOK
  <2>5. \A d \in DOMAIN sess' : SafeSession(sess'[d], DOMAIN files)
    BY <2>2, <2>3 DEF With, SafeBlocks
  <2> QED
    BY <2>3, <2>4, <2>5 DEF SafeBlocks
<1>8. ASSUME NEW c \in Client, Signal(c)
      PROVE  SafeBlocks'
  <2> DEFINE s == sess[c]
             t == [s EXCEPT !.cancelled = TRUE]
  <2>1. SessionOK(s) /\ c \in DOMAIN sess
    BY <1>8 DEF Signal, TypeOK
  <2>2. /\ t.args = s.args /\ t.job = s.job /\ t.pack = s.pack /\ t.ids = s.ids
        /\ t.writePack = s.writePack /\ t.snap = s.snap
    BY <2>1 DEF SessionOK
  <2>3. /\ UNCHANGED <<files, put, late>>
        /\ DOMAIN sess' = DOMAIN sess
        /\ \A d \in DOMAIN sess : sess'[d] = IF d = c THEN t ELSE sess[d]
    BY <1>8 DEF Signal, storeVars
  <2> HIDE DEF t
  <2>4. /\ SafeSession(s, DOMAIN files) => SafeSession(t, DOMAIN files)
        /\ Uploading(t) => Uploading(s)
        /\ NextBlockId(t) = NextBlockId(s)
    BY <2>2 DEF SafeSession, ArgOpen, CurrentFile, Uploading, ToPack, NextBlockId, NextBlock
  <2> QED
    BY <2>1, <2>3, <2>4 DEF SafeBlocks, TypeOK
<1>9. ASSUME NEW c \in DOMAIN sess, ArgOpen(sess[c])
      PROVE  ~ToPack(sess[c])
  <2>1. SafeSession(sess[c], DOMAIN files) /\ sess[c].args \in Seq(Seq(File))
    BY <1>9 DEF SafeBlocks, TypeOK, SessionOK
  <2>2. 1 \in DOMAIN sess[c].args /\ 1 \in DOMAIN sess[c].args[1]
        /\ CurrentFile(sess[c]) = sess[c].args[1][1]
    <3>1. 1 \in DOMAIN sess[c].args /\ Head(sess[c].args) = sess[c].args[1]
          /\ sess[c].args[1] \in Seq(File) /\ sess[c].args[1] # <<>>
      BY <1>9, <2>1 DEF ArgOpen
    <3> QED
      BY <3>1 DEF CurrentFile
  <2> QED
    BY <2>1, <2>2 DEF SafeSession, ToPack
<1>10. ASSUME NEW c \in Client, AddToPack(c)
       PROVE  SafeBlocks'
  BY <1>9, <1>10 DEF AddToPack, Running
<1>11. ASSUME NEW c \in Client, FinalizePack(c)
       PROVE  SafeBlocks'
  BY <1>11 DEF FinalizePack, Running, Finalizing, SafeBlocks, SafeSession
<1>12. ASSUME NEW c \in Client, UploadBlock(c)
       PROVE  SafeBlocks'
  <2> DEFINE s == sess[c]
             id == NextBlockId(s)
             data == compressEncryptHMAC(c, Block(CurrentFile(s).comp, NextBlock(s)))
  <2>1. /\ SessionOK(s) /\ Uploading(s) /\ ArgOpen(s) /\ BlocksLeft(s)
        /\ c \in DOMAIN sess /\ c \notin DOMAIN put
        /\ SafeSession(s, DOMAIN files)
    BY <1>12 DEF UploadBlock, Running, Uploading, TypeOK, SafeBlocks
  <2>2. CASE exist(DataPath(id), TRUE) /\ UNCHANGED <<files, put, late>>
                 /\ SetSession(c, [s EXCEPT !.ids = Append(@, id)])
    <3>1. DataPath(id) \in DOMAIN files
      BY <2>2 DEF exist, HeadFails
    <3>2. SafeSession([s EXCEPT !.ids = Append(@, id)], DOMAIN files')
      BY <2>1, <2>2, <3>1, NextIdSafe
    <3> QED
      BY <1>1, <1>3, <2>1, <2>2, <3>2
  <2>3. CASE UNCHANGED <<files, put, late>> /\ EndSession(c)
    BY <1>1, <1>4, <2>1, <2>3
  <2>4. CASE UNCHANGED sess /\ PutStart(c, DataPath(id), data)
    <3>1. SafeObject(DataPath(id), data, DOMAIN files)
      BY <2>1, NextBlockType, SealedBlockSafe DEF NextBlockId
    <3> QED
      BY <1>5, <2>1, <2>4, <3>1
  <2> QED
    BY <1>12, <2>2, <2>3, <2>4 DEF UploadBlock
<1>13. ASSUME NEW c \in Client, RecordFile(c)
       PROVE  SafeBlocks'
  <2> DEFINE s == sess[c]
             f == CurrentFile(s)
             e == FileEntry(s.ids, f.comp, 0, 0, f.blocks)
             snap == addFileEntry(s.snap, f.path, e)
             t == [s EXCEPT !.args = NextFile(@), !.ids = <<>>, !.snap = snap]
  <2>1. /\ SessionOK(s) /\ ArgOpen(s) /\ ~BlocksLeft(s)
        /\ c \in DOMAIN sess /\ c \notin DOMAIN put
        /\ SafeSession(s, DOMAIN files)
    BY <1>13 DEF RecordFile, Running, Uploading, TypeOK, SafeBlocks
  <2>2. f \in File /\ NextFile(s.args) \in Seq(Seq(File))
    BY <2>1, CurrentFileType
  <2>3. SafeEntry(e, DOMAIN files)
    <3>1. /\ e.ids = s.ids /\ e.comp = f.comp /\ e.packLength = 0 /\ e.md5 = f.blocks
      BY DEF FileEntry
    <3>2. f.comp \in {0, 1} /\ f.blocks \in Seq(Bytes) /\ s.ids \in Seq(Bytes)
      BY <2>1, <2>2 DEF File, SessionOK
    <3>3. StoredBlocks(s.ids, f.comp, f.blocks, DOMAIN files) /\ Len(s.ids) = Len(f.blocks)
      BY <2>1, <3>2 DEF SafeSession, StoredBlocks, BlocksLeft
    <3> HIDE DEF e
    <3> QED
      BY <3>1, <3>2, <3>3 DEF SafeEntry
  <2>4. SafeSnapshot(snap, DOMAIN files)
    BY <2>1, <2>3 DEF SafeSnapshot, SafeSession, addFileEntry, With
  <2>5. DOMAIN snap \subseteq STRING
    BY <2>1, <2>2 DEF addFileEntry, With, SessionOK, File
  <2> HIDE DEF snap
  <2>6. /\ t.args = NextFile(s.args) /\ t.job = s.job /\ t.pack = s.pack /\ t.ids = <<>>
        /\ t.writePack = s.writePack /\ t.snap = snap
    BY <2>1 DEF SessionOK
  <2>7. SessionOK(t)
    BY <2>1, <2>2, <2>5 DEF SessionOK
  <2>8. ASSUME NEW a \in DOMAIN NextFile(s.args), NEW i \in DOMAIN NextFile(s.args)[a]
        PROVE  ~(s.job.packed /\ NextFile(s.args)[a][i].small)
    <3>1. PICK b \in DOMAIN s.args : \E j \in DOMAIN s.args[b] :
              s.args[b][j] = NextFile(s.args)[a][i]
      BY <2>1, <2>8, NextFileKeeps
    <3> QED
      BY <2>1, <3>1 DEF SafeSession
  <2>9. SetSession(c, t) /\ UNCHANGED <<files, put, late>>
    BY <1>13 DEF RecordFile, storeVars, snap
  <2> HIDE DEF t
  <2>10. SafeSession(t, DOMAIN files)
    BY <2>1, <2>4, <2>6, <2>7, <2>8, FreshSessionSafe DEF SafeSession
  <2> QED
    BY <1>1, <1>3, <2>1, <2>9, <2>10
<1>14. ASSUME NEW c \in Client, NextArg(c)
       PROVE  SafeBlocks'
  <2> DEFINE s == sess[c]
             t == [s EXCEPT !.args = Tail(@)]
  <2>1. /\ SessionOK(s) /\ s.args # <<>> /\ ~ArgOpen(s)
        /\ c \in DOMAIN sess /\ c \notin DOMAIN put
        /\ SafeSession(s, DOMAIN files)
    BY <1>14 DEF NextArg, Running, ArgDone, ArgOpen, TypeOK, SafeBlocks
  <2>2. /\ t.args = Tail(s.args) /\ t.job = s.job /\ t.pack = s.pack /\ t.ids = s.ids
        /\ t.writePack = s.writePack /\ t.snap = s.snap
    BY <2>1 DEF SessionOK
  <2>3. SessionOK(t)
    BY <2>1 DEF SessionOK
  <2>4. SetSession(c, t) /\ UNCHANGED <<files, put, late>>
    BY <1>14 DEF NextArg, storeVars, SetSession
  <2> HIDE DEF t
  <2>5. ASSUME NEW a \in DOMAIN Tail(s.args), NEW i \in DOMAIN Tail(s.args)[a]
        PROVE  ~(s.job.packed /\ Tail(s.args)[a][i].small)
    <3>1. a + 1 \in DOMAIN s.args /\ s.args[a + 1] = Tail(s.args)[a]
      BY <2>1, <2>5, NextArgKeeps
    <3> QED
      BY <2>1, <2>5, <3>1 DEF SafeSession
  <2>6. s.ids = <<>> /\ s.pack = <<>> /\ ~s.writePack /\ SafeSnapshot(s.snap, DOMAIN files)
    BY <2>1 DEF SafeSession
  <2>7. SafeSession(t, DOMAIN files)
    BY <2>2, <2>3, <2>5, <2>6, FreshSessionSafe
  <2> QED
    BY <1>1, <1>3, <2>1, <2>4, <2>7
<1>15. ASSUME NEW c \in Client, CommitSnapshot(c)
       PROVE  SafeBlocks'
  <2>1. c \in DOMAIN sess /\ SafeSnapshot(sess[c].snap, DOMAIN files) /\ ~Uploading(sess[c])
    BY <1>15 DEF CommitSnapshot, Running, SafeBlocks, SafeSession, Uploading, ArgOpen
  <2> QED
    BY <1>5, <1>15, <2>1, SealedSnapshotSafe DEF CommitSnapshot
<1>16. ASSUME NEW c \in Client, Transferring(c)
       PROVE  SafeBlocks'
  <2>1. c \in DOMAIN put /\ PutStored(c) /\ UNCHANGED sess
    BY <1>16 DEF Transferring, Waiting, PutOpen, PutWrite, Writing, repoVars
  <2>2. files' = With(files, put[c].path, put[c].data) /\ UNCHANGED late
    BY <2>1 DEF PutStored
  <2>3. /\ DOMAIN files \subseteq DOMAIN files'
        /\ \A p \in DOMAIN files' : SafeObject(p, files'[p], DOMAIN files')
    BY <2>1, <2>2, StoreGrows DEF SafeBlocks
  <2>4. /\ DOMAIN put' = DOMAIN put
        /\ \A d \in DOMAIN put : put'[d].path = put[d].path /\ put'[d].data = put[d].data
        /\ \A d \in DOMAIN put \ {c} : put'[d] = put[d]
        /\ put[c].path \in DOMAIN files'
    BY <2>1, <2>2 DEF PutStored, With, TypeOK, StoreOK, TransferOK
  <2>5. /\ \A d \in DOMAIN put' : SafeObject(put'[d].path, put'[d].data, DOMAIN files')
        /\ \A t \in late' : SafeObject(t.path, t.data, DOMAIN files')
        /\ \A d \in DOMAIN sess' : SafeSession(sess'[d], DOMAIN files')
    BY <2>1, <2>2, <2>3, <2>4, SafetyGrows DEF SafeBlocks
  <2>6. \A d \in DOMAIN put' : put'[d].open # "no" => put'[d].path \in DOMAIN files'
    BY <2>3, <2>4 DEF SafeBlocks
  <2> QED
    BY <2>1, <2>3, <2>4, <2>5, <2>6 DEF SafeBlocks
<1>17. ASSUME NEW c \in Client, CancelTransfer(c) \/ TransferError(c)
       PROVE  SafeBlocks'
  <2>1. c \in DOMAIN put /\ PutAbandon(c) /\ EndSession(c)
    BY <1>17 DEF CancelTransfer, TransferError, Waiting, PutCancel, PutError, Writing
  <2> QED
    BY <1>4, <1>6, <2>1
<1>18. ASSUME NEW c \in Client, Transferred(c)
       PROVE  SafeBlocks'
  <2> DEFINE s == sess[c]
  <2>1. /\ SessionOK(s) /\ c \in DOMAIN sess /\ c \in DOMAIN put /\ PutReturn(c)
        /\ SafeSession(s, DOMAIN files)
    BY <1>18 DEF Transferred, Waiting, TypeOK, SafeBlocks
  <2>2. Grows /\ Kept /\ c \notin DOMAIN put'
    BY <1>6, <2>1
  <2>3. CASE Uploading(s) /\ SetSession(c, [s EXCEPT !.ids = Append(@, NextBlockId(s))])
    <3>1. ArgOpen(s) /\ BlocksLeft(s) /\ put[c].path = DataPath(NextBlockId(s))
      BY <2>1, <2>3 DEF Uploading, TypeOK, SafeBlocks
    <3>2. DataPath(NextBlockId(s)) \in DOMAIN files'
      BY <2>1, <2>2, <3>1 DEF PutReturn, Writing, SafeBlocks
    <3>3. SafeSession(s, DOMAIN files')
      BY <2>1, <2>2, SafetyGrows
    <3>4. SafeSession([s EXCEPT !.ids = Append(@, NextBlockId(s))], DOMAIN files')
      BY <2>1, <3>1, <3>2, <3>3, NextIdSafe
    <3> QED
      BY <1>3, <2>1, <2>2, <2>3, <3>4
  <2>4. CASE EndSession(c)
    BY <1>4, <2>2, <2>4
  <2>5. ~Finalizing(s)
    BY <2>1 DEF Finalizing, SafeSession
  <2> QED
    BY <1>18, <2>3, <2>4, <2>5 DEF Transferred
<1>19. ASSUME NEW c \in Client, Crash(c)
       PROVE  SafeBlocks'
  <2>1. CASE PutAbandon(c)
    BY <1>4, <1>6, <1>19, <2>1 DEF Crash, PutAbandon
  <2>2. CASE c \notin DOMAIN put /\ UNCHANGED <<files, put, late>>
    BY <1>1, <1>4, <1>19, <2>2 DEF Crash
  <2> QED
    BY <1>19, <2>1, <2>2 DEF Crash
<1>20. ASSUME LateUpload
       PROVE  SafeBlocks'
  <2>1. PICK t \in late : PutLate(t) /\ UNCHANGED sess
    BY <1>20 DEF LateUpload, repoVars
  <2>2. files' = With(files, t.path, t.data) /\ late' \subseteq late /\ UNCHANGED put
    BY <2>1 DEF PutLate
  <2>3. /\ DOMAIN files \subseteq DOMAIN files'
        /\ \A p \in DOMAIN files' : SafeObject(p, files'[p], DOMAIN files')
    BY <2>1, <2>2, StoreGrows DEF SafeBlocks
  <2>4. /\ \A d \in DOMAIN put' : SafeObject(put'[d].path, put'[d].data, DOMAIN files')
        /\ \A u \in late' : SafeObject(u.path, u.data, DOMAIN files')
        /\ \A d \in DOMAIN sess' : SafeSession(sess'[d], DOMAIN files')
    BY <2>1, <2>2, <2>3, SafetyGrows DEF SafeBlocks
  <2> QED
    BY <2>1, <2>2, <2>3, <2>4 DEF SafeBlocks
<1>21. ASSUME NEW c \in Client, Retry(c)
       PROVE  SafeBlocks'
  BY <1>21, RetryKeeps DEF TypeOK, SafeBlocks
<1> QED
  BY <1>2, <1>7, <1>8, <1>10, <1>11, <1>12, <1>13, <1>14, <1>15, <1>16, <1>17, <1>18, <1>19,
     <1>20, <1>21
  DEF Next, Step

\* The inductive invariant holds throughout.
THEOREM BlocksSafe ==
    ASSUME Backend = "s3", NoPacks
    PROVE  Spec => []SafeBlocks
<1>1. TypeOK /\ SafeBlocks /\ [Next]_vars => SafeBlocks'
  BY NextSafe
<1> QED
  BY <1>1, InitSafe, TypeCorrect, PTL DEF Spec

\* On S3, a snapshot of files uploaded block by block is restorable from the
\* moment it can be loaded, for ever, with any number of concurrent backups,
\* cancellations, failed transfers, false answers of exist(), crashes, and
\* uploads that are carried out long after their callers gave up.
THEOREM AlwaysRestorable ==
    ASSUME Backend = "s3", NoPacks
    PROVE  Spec => []Restorable
BY BlocksSafe, SafeIsRestorable, PTL

-----------------------------------------------------------------------------
(* What the invariant and its preservation say about steps *)

\* On S3 no step removes an object: put() adds or replaces one.
LEMMA StoreOnlyGrows ==
    ASSUME Backend = "s3", [Next]_vars
    PROVE  DOMAIN files \subseteq DOMAIN files'
<1>1. ASSUME NEW c, PutAbandon(c) \/ PutCancel(c) \/ PutError(c) \/ PutReturn(c)
      PROVE  DOMAIN files \subseteq DOMAIN files'
  BY <1>1 DEF PutAbandon, PutCancel, PutError, PutReturn, Writing
<1>2. ASSUME NEW c, Transferring(c) \/ LateUpload
      PROVE  DOMAIN files \subseteq DOMAIN files'
  BY <1>2 DEF Transferring, PutOpen, PutWrite, PutStored, Writing, LateUpload, PutLate, With
<1>3. CASE UNCHANGED files
  BY <1>3
<1> QED
  BY <1>1, <1>2, <1>3
  DEF Next, vars, Step, Backup, Signal, AddToPack, UploadBlock, RecordFile, FinalizePack,
      NextArg, CommitSnapshot, PutStart, CancelTransfer, Transferred, TransferError, Crash,
      Retry, PutRetry, storeVars

\* A snapshot's path leads to a snapshot that verifies.
LEMMA SafeSnapshotsLoad ==
    ASSUME SafeBlocks, NEW n, SnapshotPath(n) \in DOMAIN files
    PROVE  Committed(n) /\ SafeSnapshot(loadSnapshot(n), DOMAIN files)
<1>1. SafeObject(SnapshotPath(n), get(SnapshotPath(n)), DOMAIN files)
  BY DEF SafeBlocks, get
<1>2. \A id : SnapshotPath(n) # DataPath(id)
  BY DEF SnapshotPath, DataPath
<1> QED
  BY <1>1, <1>2 DEF SafeObject, Committed, loadSnapshot

\* On S3, a block that is uploaded again, because exist() said no or because
\* two backups raced, replaces an object with the same data.
THEOREM ReuploadHarmless ==
    ASSUME Backend = "s3", NoPacks
    PROVE  Spec => IdDeterminesData
<1> DEFINE Holds(cells, comp, d) ==
               Payloads(cells) = [k \in 1..SealLength(Block(comp, d)) |-> Block(comp, d)]
<1>1. ASSUME NEW id, NEW cells, NEW stored, SafeObject(DataPath(id), cells, stored)
      PROVE  \E comp \in {0, 1}, d \in Bytes :
                 id = BlockId(comp, d) /\ Holds(cells, comp, d)
  <2> DEFINE pay == cells[1].pay
             seal == compressEncryptHMAC(cells[1].by, pay)
  <2>1. DataPath(id)[1] = "data"
    BY DEF DataPath
  <2>2. /\ cells = seal
        /\ pay.comp \in {0, 1} /\ pay.data \in Bytes
        /\ pay = Block(pay.comp, pay.data)
        /\ DataPath(id) = DataPath(BlockId(pay.comp, pay.data))
    BY <1>1, <2>1 DEF SafeObject, VerifiesHMAC
  <2>3. id = BlockId(pay.comp, pay.data)
    BY <2>2 DEF DataPath
  <2>4. Payloads(seal) = [k \in 1..SealLength(pay) |-> pay]
    BY DEF Payloads, compressEncryptHMAC
  <2>5. Holds(cells, pay.comp, pay.data)
    BY <2>2, <2>4
  <2> HIDE DEF Holds
  <2> QED
    BY <2>2, <2>3, <2>5
<1>2. ASSUME SafeBlocks, SafeBlocks', NEW id \in DataIds, DataPath(id) \in DOMAIN files'
      PROVE  Payloads(files[DataPath(id)]) = Payloads(files'[DataPath(id)])
  <2>1. DataPath(id) \in DOMAIN files
    <3>1. PICK p \in DOMAIN files : p[1] = "data" /\ id = p[2]
      BY <1>2 DEF DataIds
    <3>2. SafeObject(p, files[p], DOMAIN files)
      BY <1>2 DEF SafeBlocks
    <3>3. \E x : p = DataPath(x)
      BY <3>1, <3>2 DEF SafeObject
    <3> QED
      BY <3>1, <3>3 DEF DataPath
  <2>2. /\ SafeObject(DataPath(id), files[DataPath(id)], DOMAIN files)
        /\ SafeObject(DataPath(id), files'[DataPath(id)], DOMAIN files')
    BY <1>2, <2>1 DEF SafeBlocks
  <2>3. PICK c1 \in {0, 1}, d1 \in Bytes :
            id = BlockId(c1, d1) /\ Holds(files[DataPath(id)], c1, d1)
    <3> HIDE DEF Holds
    <3> QED
      BY <1>1, <2>2
  <2>4. PICK c2 \in {0, 1}, d2 \in Bytes :
            id = BlockId(c2, d2) /\ Holds(files'[DataPath(id)], c2, d2)
    <3> HIDE DEF Holds
    <3> QED
      BY <1>1, <2>2
  <2>5. c1 = c2 /\ d1 = d2
    BY <2>3, <2>4, BlockIdInjective
  <2> QED
    BY <2>3, <2>4, <2>5
<1>3. SafeBlocks /\ SafeBlocks' =>
          [\A id \in DataIds :
              DataPath(id) \in DOMAIN files' =>
                  Payloads(files[DataPath(id)]) = Payloads(files'[DataPath(id)])]_vars
  BY <1>2
<1> QED
  BY <1>3, BlocksSafe, PTL DEF IdDeterminesData

=============================================================================
