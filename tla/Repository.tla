----------------------------- MODULE Repository -----------------------------
(***************************************************************************)
(* Backing up to, and restoring from, a repository: Repository::uploadFile, *)
(* finalizePack, commitSnapshot, loadSnapshot and downloadFile             *)
(* (libnebula/Repository.cpp), Snapshot::addFileEntry                      *)
(* (libnebula/Snapshot.cpp), and backupFiles, the command that drives them *)
(* (cli/Main.cpp), run by several processes over one DataStore.            *)
(*                                                                         *)
(* Object ids are HMACs.  They are idealised as the bytes they digest, so  *)
(* two ids are equal exactly when the code feeds HMAC the same bytes.      *)
(* File contents are sequences of small numbers; how a large file is cut   *)
(* into blocks is part of the input.                                       *)
(***************************************************************************)
EXTENDS DataStore, StreamUtils, SequencesExt

CONSTANTS
    Name,        \* snapshot names
    Job,         \* what a process may be asked to back up
    Garbage,     \* values an uninitialised packLength may be found to have
    MaxBackups   \* how many backups a behaviour may start

ASSUME MaxBackupsAssumption == MaxBackups \in Nat

VARIABLES
    sess,        \* the running backups: a function from clients to sessions
    started      \* backups started so far

repoVars == <<sess, started>>
vars == <<files, put, late, faults, sess, started>>

(***************************************************************************)
(* A file to upload: its path, the compression its extension selects,      *)
(* whether it is below smallFileSize, and its blocks (a small file is one  *)
(* block, possibly empty).  A job is the argument list of a backup, each   *)
(* argument standing for the files found under it, and whether files are   *)
(* uploaded through a PackUploadState, as the command line does.           *)
(***************************************************************************)
Bytes == Seq(Nat)

File == {f \in [path : STRING, comp : {0, 1}, small : BOOLEAN, blocks : Seq(Bytes)] :
            f.blocks # <<>> /\ (f.small => Len(f.blocks) = 1)}

ASSUME JobAssumption == Job \subseteq [packed : BOOLEAN, args : Seq(Seq(File))]

ASSUME GarbageAssumption == Garbage \subseteq Nat

-----------------------------------------------------------------------------
(***************************************************************************)
(* Plausible mistakes in the definitions below, part of no specification:  *)
(* each must be noticed by a property.                                     *)
(***************************************************************************)
\* computeBlockHMAC without the compression type
BlockIdUntyped(comp, data) == data

\* insert that overwrites
addFileEntryReplaces(snap, path, entry) == With(snap, path, entry)

\* the tail of a large file is not uploaded
BlocksLeftNoTail(s) == Len(s.ids) + 1 < Len(Head(Head(s.args)).blocks)

\* finalizePack leaves the index addFile stored as offset
PackOffsetsUnset(pack) == [i \in DOMAIN pack |-> i - 1]

-----------------------------------------------------------------------------
(* Object ids and paths *)

\* computeBlockHMAC: the compression type, then the data
BlockId(comp, data) == <<comp>> \o data

\* The HMAC of a pack is fed every file twice, by uploadFile and by addFile.
PackId(pack) == FlattenSeq([i \in DOMAIN pack |-> pack[i].data \o pack[i].data])

DataPath(id) == <<"data", id>>

SnapshotPath(n) == <<"snapshot", n>>

-----------------------------------------------------------------------------
(***************************************************************************)
(* Snapshots: functions from paths to entries.  md5, the digest of the     *)
(* uploaded content, is idealised as the pieces it was computed over.      *)
(***************************************************************************)
FileEntry(ids, comp, offset, packLength, md5) ==
    [ids |-> ids, comp |-> comp, offset |-> offset, packLength |-> packLength,
     md5 |-> md5]

\* mFiles.insert: the entry that is there first stays.
addFileEntry(snap, path, entry) ==
    IF path \in DOMAIN snap THEN snap ELSE With(snap, path, entry)

\* the entries of a pack, added in order
AddPackEntries(snap, pack, offset, packLength) ==
    LET fresh == {pack[i].path : i \in DOMAIN pack} \ DOMAIN snap
        first(p) == CHOOSE i \in DOMAIN pack :
                        /\ pack[i].path = p
                        /\ \A j \in 1..(i - 1) : pack[j].path # p
        entry(i) == FileEntry(<<PackId(pack)>>, pack[i].comp, offset[i],
                              packLength[i], <<pack[i].data>>)
    IN  [p \in DOMAIN snap \cup fresh |->
            IF p \in DOMAIN snap THEN snap[p] ELSE entry(first(p))]

\* A snapshot can be loaded when its file verifies.
Committed(n) == LET cells == get(SnapshotPath(n))
                IN  VerifiesHMAC(cells) /\ cells[1].pay.kind = "snapshot"

loadSnapshot(n) == get(SnapshotPath(n))[1].pay.snap

\* InputRangeStream: length cells from offset on, fewer at the end
RangeOf(cells, offset, length) ==
    SubSeq(cells, offset + 1,
           IF offset + length < Len(cells) THEN offset + length ELSE Len(cells))

\* what downloadFile makes of one object
PieceOf(e, cells) ==
    decompressDecryptHMAC(e.comp,
        IF e.packLength > 0 THEN RangeOf(cells, e.offset, e.packLength) ELSE cells)

\* downloadFile, as the sequence of pieces it writes
downloadFile(e) == [i \in DOMAIN e.ids |-> PieceOf(e, get(DataPath(e.ids[i])))]

-----------------------------------------------------------------------------
(***************************************************************************)
(* A session is a process inside backupFiles: its job and snapshot name,   *)
(* the files still to upload, the ids of the blocks of the current file    *)
(* uploaded so far, the pack being filled, whether the rolling hash asked  *)
(* for it to be written, sUserCancelled, and the snapshot being built.     *)
(***************************************************************************)
Session(n, job) ==
    [name |-> n, job |-> job, args |-> job.args, ids |-> <<>>, pack |-> <<>>,
     writePack |-> FALSE, cancelled |-> FALSE, snap |-> EmptyFcn]

Running(c) == c \in DOMAIN sess /\ c \notin DOMAIN put

ArgOpen(s) == s.args # <<>> /\ Head(s.args) # <<>>

ArgDone(s) == s.args # <<>> /\ Head(s.args) = <<>>

CurrentFile(s) == Head(Head(s.args))

\* the argument list once the current file is dealt with
NextFile(args) == <<Tail(Head(args))>> \o Tail(args)

\* finalizePack is called when the rolling hash says so and after every
\* argument, and returns at once when nothing was packed.
Finalizing(s) == s.pack # <<>> /\ (s.writePack \/ ArgDone(s))

\* Small files of a packed backup go to the pack, all others block by block.
ToPack(s) == s.job.packed /\ CurrentFile(s).small

Uploading(s) == ArgOpen(s) /\ ~s.writePack /\ ~ToPack(s)

BlocksLeft(s) == Len(s.ids) < Len(CurrentFile(s).blocks)

NextBlock(s) == CurrentFile(s).blocks[Len(s.ids) + 1]

NextBlockId(s) == BlockId(CurrentFile(s).comp, NextBlock(s))

SetSession(c, s) == sess' = [sess EXCEPT ![c] = s]

\* the process ends, normally or by an exception nothing catches
EndSession(c) == sess' = Without(sess, c)

-----------------------------------------------------------------------------
\* backupFiles begins; the repository is unlocked and the snapshot empty.
Backup(c, n, job) ==
    /\ c \notin DOMAIN sess
    /\ started < MaxBackups
    /\ started' = started + 1
    /\ sess' = With(sess, c, Session(n, job))
    /\ UNCHANGED storeVars

\* SIGINT: only the command line's backup, which packs, installs the handler.
Signal(c) ==
    /\ c \in DOMAIN sess
    /\ sess[c].job.packed
    /\ ~sess[c].cancelled
    /\ sess' = [sess EXCEPT ![c].cancelled = TRUE]
    /\ UNCHANGED <<storeVars, started>>

\* uploadFile of a small file into the pack.  Whether the rolling hash hits
\* its mask is arbitrary, but it is rolled over the bytes of the file.  The
\* cancel request is looked at only when it does not.
AddToPack(c) ==
    /\ Running(c)
    /\ LET s == sess[c]
           f == CurrentFile(s)
           added == [s EXCEPT
                       !.args = NextFile(@),
                       !.pack = Append(@, [path |-> f.path, comp |-> f.comp,
                                           data |-> f.blocks[1]])]
       IN  /\ ArgOpen(s) /\ ~s.writePack /\ ToPack(s)
           /\ \/ f.blocks[1] # <<>> /\ SetSession(c, [added EXCEPT !.writePack = TRUE])
              \/ ~s.cancelled /\ SetSession(c, added)
              \/ s.cancelled /\ EndSession(c)
    /\ UNCHANGED <<storeVars, started>>

\* compressEncryptAndUploadBlock up to put(): a block that exists is not
\* uploaded again, and the cancel request is looked at.
UploadBlock(c) ==
    /\ Running(c)
    /\ Uploading(sess[c])
    /\ BlocksLeft(sess[c])
    /\ LET s == sess[c]
           id == NextBlockId(s)
       IN  \/ /\ exist(DataPath(id), TRUE)
              /\ \/ ~s.cancelled /\ SetSession(c, [s EXCEPT !.ids = Append(@, id)])
                 \/ s.cancelled /\ EndSession(c)
              /\ UNCHANGED <<files, put, late>>
           \/ /\ exist(DataPath(id), FALSE)
              /\ PutStart(c, DataPath(id),
                     compressEncryptHMAC(c, Block(CurrentFile(s).comp, NextBlock(s))))
              /\ UNCHANGED sess
    /\ UNCHANGED started

\* the end of uploadFile for a file uploaded block by block
RecordFile(c) ==
    /\ Running(c)
    /\ Uploading(sess[c])
    /\ ~BlocksLeft(sess[c])
    /\ LET s == sess[c]
           f == CurrentFile(s)
       IN  SetSession(c, [s EXCEPT
               !.args = NextFile(@),
               !.ids = <<>>,
               !.snap = addFileEntry(@, f.path,
                            FileEntry(s.ids, f.comp, 0, 0, f.blocks))])
    /\ UNCHANGED <<storeVars, started>>

\* the seals a pack is made of, and where each of them begins
PackSeals(c, pack) ==
    [i \in DOMAIN pack |-> compressEncryptHMAC(c, Block(pack[i].comp, pack[i].data))]

PackLengths(pack) ==
    [i \in DOMAIN pack |-> SealLength(Block(pack[i].comp, pack[i].data))]

PackOffsets(pack) ==
    LET offset[i \in DOMAIN pack] ==
            IF i = 1 THEN 0 ELSE offset[i - 1] + PackLengths(pack)[i - 1]
    IN  offset

\* the end of finalizePack: the entries are added and the state cleared
PackFinalized(s, offset, packLength) ==
    [s EXCEPT !.snap = AddPackEntries(@, s.pack, offset, packLength),
              !.pack = <<>>,
              !.writePack = FALSE]

\* finalizePack up to put().  If the pack exists, offset still is the index
\* addFile stored in it and packLength was never assigned.
FinalizePack(c) ==
    /\ Running(c)
    /\ Finalizing(sess[c])
    /\ LET s == sess[c]
           path == DataPath(PackId(s.pack))
       IN  \/ /\ exist(path, TRUE)
              /\ \E packLength \in [DOMAIN s.pack -> Garbage] :
                    SetSession(c, PackFinalized(s, [i \in DOMAIN s.pack |-> i - 1],
                                                packLength))
              /\ UNCHANGED <<files, put, late>>
           \/ /\ exist(path, FALSE)
              /\ PutStart(c, path, FlattenSeq(PackSeals(c, s.pack)))
              /\ UNCHANGED sess
    /\ UNCHANGED started

\* backupFiles goes on to its next argument
NextArg(c) ==
    /\ Running(c)
    /\ ArgDone(sess[c])
    /\ ~Finalizing(sess[c])
    /\ sess' = [sess EXCEPT ![c].args = Tail(@)]
    /\ UNCHANGED <<storeVars, started>>

\* commitSnapshot up to put(): an earlier snapshot of that name is overwritten
CommitSnapshot(c) ==
    /\ Running(c)
    /\ sess[c].args = <<>>
    /\ PutStart(c, SnapshotPath(sess[c].name),
                compressEncryptHMAC(c, SnapshotFile(sess[c].snap)))
    /\ UNCHANGED <<faults, sess, started>>

-----------------------------------------------------------------------------
(* The steps of a put() that a session waits for *)

Waiting(c) == c \in DOMAIN sess /\ c \in DOMAIN put

\* Only the upload of a block is given a progress function that may say no;
\* finalizePack and commitSnapshot, and uploadFile without a pack, drop it.
Cancelling(s) == s.cancelled /\ Uploading(s)

Transferring(c) ==
    /\ Waiting(c)
    /\ \/ PutOpen(c)
       \/ PutStored(c)
       \/ ~Cancelling(sess[c]) /\ PutWrite(c)
    /\ UNCHANGED repoVars

CancelTransfer(c) ==
    /\ Waiting(c)
    /\ Cancelling(sess[c])
    /\ PutCancel(c)
    /\ EndSession(c)
    /\ UNCHANGED started

Transferred(c) ==
    /\ Waiting(c)
    /\ PutReturn(c)
    /\ LET s == sess[c]
       IN  \/ /\ Uploading(s)
              /\ SetSession(c, [s EXCEPT !.ids = Append(@, NextBlockId(s))])
           \/ /\ Finalizing(s)
              /\ SetSession(c, PackFinalized(s, PackOffsets(s.pack), PackLengths(s.pack)))
           \/ /\ s.args = <<>>
              /\ EndSession(c)
    /\ UNCHANGED started

TransferError(c) ==
    /\ Waiting(c)
    /\ PutError(c)
    /\ EndSession(c)
    /\ UNCHANGED started

\* the SDK makes a request again that had no answer
Retry(c) ==
    /\ Waiting(c)
    /\ PutRetry(c)
    /\ Fault
    /\ UNCHANGED repoVars

\* The process is killed, or the machine it runs on stops.
Crash(c) ==
    /\ c \in DOMAIN sess
    /\ Fault
    /\ EndSession(c)
    /\ \/ PutAbandon(c)
       \/ c \notin DOMAIN put /\ UNCHANGED <<files, put, late>>
    /\ UNCHANGED started

-----------------------------------------------------------------------------
Init ==
    /\ StoreInit
    /\ sess = EmptyFcn
    /\ started = 0

\* what a process does by itself, once it was asked for a backup
Step(c) ==
    \/ AddToPack(c)
    \/ UploadBlock(c)
    \/ RecordFile(c)
    \/ FinalizePack(c)
    \/ NextArg(c)
    \/ CommitSnapshot(c)
    \/ Transferring(c)
    \/ CancelTransfer(c)
    \/ Transferred(c)

\* a transfer that nobody waits for any more ends
LateUpload ==
    /\ \E t \in late : PutLate(t)
    /\ UNCHANGED repoVars

Next ==
    \/ \E c \in Client :
          \/ \E n \in Name, job \in Job : Backup(c, n, job)
          \/ Signal(c)
          \/ Step(c)
          \/ Retry(c)
          \/ TransferError(c)
          \/ Crash(c)
    \/ LateUpload

Spec == Init /\ [][Next]_vars

\* A process that is not killed keeps running.
FairSpec == Spec /\ \A c \in Client : WF_vars(Step(c))

-----------------------------------------------------------------------------
(***************************************************************************)
(* Properties                                                              *)
(***************************************************************************)

PackFile == [path : STRING, comp : {0, 1}, data : Bytes]

PathOK(p) == p[1] = "data" \/ p \in {"snapshot"} \X Name

TransferOK(t) ==
    /\ DOMAIN t = {"path", "data", "pos", "open"}
    /\ PathOK(t.path)
    /\ t.pos \in Nat
    /\ t.open \in {"no", "yes", "orphan"}

SessionOK(s) ==
    /\ DOMAIN s = {"name", "job", "args", "ids", "pack", "writePack", "cancelled", "snap"}
    /\ s.name \in Name
    /\ s.job \in Job
    /\ s.args \in Seq(Seq(File))
    /\ s.ids \in Seq(Bytes)
    /\ s.pack \in Seq(PackFile)
    /\ s.writePack \in BOOLEAN
    /\ s.cancelled \in BOOLEAN
    /\ DOMAIN s.snap \subseteq STRING

StoreOK ==
    /\ \A p \in DOMAIN files : PathOK(p)
    /\ \A c \in DOMAIN put : TransferOK(put[c])
    /\ \A t \in late : TransferOK(t)
    /\ faults \in 0..MaxFaults

\* The store holds data objects and snapshots, every transfer belongs to a
\* running backup, and sessions are in the states backupFiles can be in.
TypeOK ==
    /\ StoreOK
    /\ DOMAIN put \subseteq DOMAIN sess
    /\ DOMAIN sess \subseteq Client
    /\ \A c \in DOMAIN sess : SessionOK(sess[c])
    /\ \A c \in DOMAIN put : Uploading(sess[c]) => BlocksLeft(sess[c])
    /\ started \in 0..MaxBackups

\* Every file of every snapshot that can be loaded is restored to the content
\* that was uploaded for it: downloadFile gives the bytes the md5 of the entry
\* was computed over, whatever other backups did, and wherever they stopped.
Restorable ==
    \A n \in Name : Committed(n) =>
        \A p \in DOMAIN loadSnapshot(n) :
            downloadFile(loadSnapshot(n)[p]) = loadSnapshot(n)[p].md5

\* The same for packs and the file backend, for a first backup that nothing
\* disturbs: files in packs, empty ones among them, are read back from the
\* ranges that finalizePack computed.  A second backup may find its pack there
\* and record other ranges, see PackRangeIsObject.
FirstRestorable == started = 1 /\ faults = 0 => Restorable

\* No snapshot, committed or being built, names an object that is not in the
\* store: commitSnapshot comes after every upload, and nothing it relies on is
\* removed.  That is so on S3, and in a directory that one process uses: the
\* cancellation of a put() takes away only what this process has not recorded.
\* With two processes in one directory it is not so: both may miss an object,
\* and one that is cancelled removes by name what the other has stored since.
ReferencesExist ==
    LET Stored(snap) == \A p \in DOMAIN snap : \A i \in DOMAIN snap[p].ids :
                            DataPath(snap[p].ids[i]) \in DOMAIN files
    IN  /\ \A n \in Name : Committed(n) => Stored(loadSnapshot(n))
        /\ \A c \in DOMAIN sess : Stored(sess[c].snap)

\* the payloads of the seals that begin in cells, in order
IsHead(cell) == cell.part = 1

SealedIn(cells) ==
    FlattenSeq([k \in DOMAIN cells |-> IF IsHead(cells[k]) THEN <<cells[k].pay>> ELSE <<>>])

\* cells are one or more complete seals of data that hashes to id
WholeObject(id, cells) ==
    /\ cells # <<>>
    /\ IsHead(cells[1])
    /\ \A k \in DOMAIN cells :
          IF cells[k].part = SealLength(cells[k].pay)
          THEN k < Len(cells) => IsHead(cells[k + 1])
          ELSE k < Len(cells) /\ cells[k + 1] = [cells[k] EXCEPT !.part = @ + 1]
    /\ LET blocks == SealedIn(cells)
       IN  \/ Len(blocks) = 1 /\ id = BlockId(blocks[1].comp, blocks[1].data)
           \/ id = PackId(blocks)

DataIds == {p[2] : p \in {q \in DOMAIN files : q[1] = "data"}}

\* A data object that no put() is busy with is complete and holds the data its
\* name is the HMAC of: what compressEncryptAndUploadBlock and finalizePack
\* take for granted when they find that it exists and skip the upload.
ExistingObjectComplete ==
    \A id \in DataIds :
        \/ \E c \in DOMAIN put : put[c].path = DataPath(id)
        \/ WholeObject(id, files[DataPath(id)])

\* As long as no process is killed and no write fails, this holds for the file
\* backend too if one process uses it: a cancelled put() removes what it wrote.
\* (Two that write one path in place mix their seals, whatever fails.)
CompleteWithoutFaults == faults = 0 => ExistingObjectComplete

\* No step makes a complete data object disappear or incomplete, neither a
\* put() that opens it again nor the removal after a cancel.
CompleteStaysComplete ==
    [][\A id \in DataIds :
          WholeObject(id, files[DataPath(id)]) =>
              /\ DataPath(id) \in DOMAIN files'
              /\ WholeObject(id, files'[DataPath(id)])]_vars

\* A snapshot that could be loaded can be loaded after every step, also while
\* another backup commits under its name.
SnapshotsStay == [][\A n \in Name : Committed(n) => Committed(n)']_vars

Payloads(cells) == [k \in DOMAIN cells |-> cells[k].pay]

\* A data object is never replaced by one that holds other data: an id stands
\* for what is stored, "hmac which compression is used since that changes the
\* block data" (Repository.cpp).
IdDeterminesData ==
    [][\A id \in DataIds :
          DataPath(id) \in DOMAIN files' =>
              Payloads(files[DataPath(id)]) = Payloads(files'[DataPath(id)])]_vars

\* An entry with packLength > 0 names the range of one encrypted object inside
\* the pack, as the repository format says.
PackRangeIsObject ==
    \A n \in Name : Committed(n) =>
        \A p \in DOMAIN loadSnapshot(n) :
            LET e == loadSnapshot(n)[p]
            IN  e.packLength > 0 =>
                    VerifiesHMAC(RangeOf(get(DataPath(e.ids[1])), e.offset, e.packLength))

\* A backup that was started ends, by committing or by an exception, wherever
\* SIGINT, a failed write or a kill falls in its loops and transfers.
BackupsEnd == \A c \in Client : c \in DOMAIN sess ~> c \notin DOMAIN sess

\* A backup that nothing disturbs, neither a fault nor SIGINT, ends with its
\* snapshot in the repository.
BackupsCommit ==
    \A c \in Client, n \in Name :
        (c \in DOMAIN sess /\ sess[c].name = n)
            ~> \/ Committed(n)
               \/ faults > 0
               \/ c \in DOMAIN sess /\ sess[c].cancelled

-----------------------------------------------------------------------------
(***************************************************************************)
(* The refinement mapping to Catalog: a name is in the catalog when its    *)
(* snapshot can be loaded, and what it stands for is what downloadFile     *)
(* makes of its entries at that moment.                                    *)
(***************************************************************************)
RequestOf(job) ==
    [a \in DOMAIN job.args |->
        [i \in DOMAIN job.args[a] |->
            [path |-> job.args[a][i].path, content |-> job.args[a][i].blocks]]]

Restored ==
    [n \in {m \in Name : Committed(m)} |->
        [p \in DOMAIN loadSnapshot(n) |-> downloadFile(loadSnapshot(n)[p])]]

Tasks ==
    [c \in DOMAIN sess |-> [name |-> sess[c].name, request |-> RequestOf(sess[c].job)]]

LateSnapshots ==
    {[name |-> t.path[2],
      content |-> LET snap == t.data[1].pay.snap
                  IN  [p \in DOMAIN snap |-> snap[p].md5]] :
        t \in {u \in late : u.path[1] = "snapshot"}}

Abstract == INSTANCE Catalog WITH
    Request <- {RequestOf(job) : job \in Job},
    catalog <- Restored,
    task <- Tasks,
    lost <- LateSnapshots

\* Every step of the repository is a step of the catalog or leaves it alone: a
\* snapshot appears whole, with the content that was asked for, in the one
\* step that stores it, and nothing else changes what can be restored.
RefinesCatalog == Abstract!CatalogSpec

-----------------------------------------------------------------------------
(***************************************************************************)
(* Why Restorable holds on S3 when no file is packed: the invariant that   *)
(* every step preserves.  A stored object, or one on its way to the store, *)
(* verifies and is what its path says; a snapshot entry is built from the  *)
(* ids of the blocks of its file, in order, and all of them are stored.    *)
(***************************************************************************)
NoPacks ==
    \A job \in Job : \A a \in DOMAIN job.args : \A i \in DOMAIN job.args[a] :
        ~(job.packed /\ job.args[a][i].small)

\* ids are those of the first blocks of a file, and stored
StoredBlocks(ids, comp, blocks, stored) ==
    /\ Len(ids) <= Len(blocks)
    /\ \A i \in DOMAIN ids :
          ids[i] = BlockId(comp, blocks[i]) /\ DataPath(ids[i]) \in stored

SafeEntry(e, stored) ==
    /\ e.packLength = 0
    /\ e.comp \in {0, 1}
    /\ e.ids \in Seq(Bytes)
    /\ e.md5 \in Seq(Bytes)
    /\ Len(e.ids) = Len(e.md5)
    /\ StoredBlocks(e.ids, e.comp, e.md5, stored)

SafeSnapshot(snap, stored) == \A p \in DOMAIN snap : SafeEntry(snap[p], stored)

SafeObject(path, cells, stored) ==
    /\ VerifiesHMAC(cells)
    /\ LET pay == cells[1].pay
       IN  \/ /\ pay.kind = "block"
              /\ pay.comp \in {0, 1}
              /\ pay.data \in Bytes
              /\ pay = Block(pay.comp, pay.data)
              /\ path = DataPath(BlockId(pay.comp, pay.data))
           \/ /\ pay.kind = "snapshot"
              /\ path[1] = "snapshot"
              /\ SafeSnapshot(pay.snap, stored)

SafeSession(s, stored) ==
    /\ \A a \in DOMAIN s.args : \A i \in DOMAIN s.args[a] :
          ~(s.job.packed /\ s.args[a][i].small)
    /\ s.pack = <<>>
    /\ ~s.writePack
    /\ SafeSnapshot(s.snap, stored)
    /\ IF ArgOpen(s)
       THEN StoredBlocks(s.ids, CurrentFile(s).comp, CurrentFile(s).blocks, stored)
       ELSE s.ids = <<>>

\* Everything stored or about to be stored can be read back, and snapshots
\* refer only to what is stored, each entry to its own blocks in order.
SafeBlocks ==
    /\ \A p \in DOMAIN files : SafeObject(p, files[p], DOMAIN files)
    /\ \A c \in DOMAIN put : SafeObject(put[c].path, put[c].data, DOMAIN files)
    /\ \A t \in late : SafeObject(t.path, t.data, DOMAIN files)
    /\ \A c \in DOMAIN sess : SafeSession(sess[c], DOMAIN files)
    /\ \A c \in DOMAIN put :
          Uploading(sess[c]) =>
              put[c].path = DataPath(NextBlockId(sess[c]))
    /\ \A c \in DOMAIN put : put[c].open # "no" => put[c].path \in DOMAIN files

-----------------------------------------------------------------------------
(***************************************************************************)
(* Why no reference dangles on S3, packs or not: what a snapshot refers to *)
(* was found in the store, or put there, before it was referred to, and    *)
(* nothing leaves the store.                                               *)
(***************************************************************************)
Referred(snap) == UNION {{DataPath(snap[p].ids[i]) : i \in DOMAIN snap[p].ids} : p \in DOMAIN snap}

\* what lies at the path of a snapshot, or is on its way to it
SafeCommit(path, cells, stored) ==
    path[1] = "snapshot" =>
        /\ VerifiesHMAC(cells)
        /\ cells[1].pay.kind = "snapshot"
        /\ Referred(cells[1].pay.snap) \subseteq stored

\* Snapshots refer to what is stored, whether they are stored themselves, on
\* their way or being built, and so do the ids of the current file.  A transfer
\* that returns has stored what its session will refer to, and no pack is left
\* over when the snapshot is committed.
SafeReferences ==
    /\ \A p \in DOMAIN files : SafeCommit(p, files[p], DOMAIN files)
    /\ \A c \in DOMAIN put : SafeCommit(put[c].path, put[c].data, DOMAIN files)
    /\ \A t \in late : SafeCommit(t.path, t.data, DOMAIN files)
    /\ \A c \in DOMAIN sess :
          /\ Referred(sess[c].snap) \subseteq DOMAIN files
          /\ \A i \in DOMAIN sess[c].ids : DataPath(sess[c].ids[i]) \in DOMAIN files
          /\ sess[c].args = <<>> => sess[c].pack = <<>>
    /\ \A c \in DOMAIN put :
          /\ Uploading(sess[c]) => put[c].path = DataPath(NextBlockId(sess[c]))
          /\ Finalizing(sess[c]) => put[c].path = DataPath(PackId(sess[c].pack))
          /\ put[c].open # "no" => put[c].path \in DOMAIN files

-----------------------------------------------------------------------------
(***************************************************************************)
(* Why a snapshot has the content that was asked for: a session deals with *)
(* the files of its job in order.  The files before those of s.args are    *)
(* recorded, each path with its first content, and no others are.          *)
(***************************************************************************)
ArgsDone(s) == Len(s.job.args) - Len(s.args)

\* file i of argument a was dealt with
Dealt(s, a, i) ==
    \/ a <= ArgsDone(s)
    \/ a = ArgsDone(s) + 1 /\ i <= Len(s.job.args[a]) - Len(Head(s.args))

\* s.args are the arguments of the job that are left, the first one without
\* its first files
ArgsLeft(s) ==
    /\ Len(s.args) <= Len(s.job.args)
    /\ s.args # <<>> =>
          LET all == s.job.args[ArgsDone(s) + 1]
              left == Head(s.args)
          IN  /\ Len(left) <= Len(all)
              /\ \A i \in DOMAIN left : left[i] = all[Len(all) - Len(left) + i]
    /\ \A a \in 2..Len(s.args) : s.args[a] = s.job.args[ArgsDone(s) + a]

\* no file of the job before it has the path of file i of argument a
FirstFile(job, a, i) == Abstract!IsFirst(RequestOf(job), <<a, i>>)

Recorded(s) ==
    /\ \A a \in DOMAIN s.job.args : \A i \in DOMAIN s.job.args[a] :
          Dealt(s, a, i) => s.job.args[a][i].path \in DOMAIN s.snap
    /\ \A p \in DOMAIN s.snap :
          \E a \in DOMAIN s.job.args : \E i \in DOMAIN s.job.args[a] :
              /\ Dealt(s, a, i)
              /\ s.job.args[a][i].path = p
              /\ FirstFile(s.job, a, i)
              /\ s.snap[p].md5 = s.job.args[a][i].blocks

\* Every session has recorded what it has dealt with, and commits what it
\* recorded, under the name it was given, when nothing is left.
SafeRequests ==
    /\ \A c \in DOMAIN sess : ArgsLeft(sess[c]) /\ Recorded(sess[c])
    /\ \A c \in DOMAIN put :
          IF sess[c].args = <<>>
          THEN /\ put[c].path = SnapshotPath(sess[c].name)
               /\ put[c].data = compressEncryptHMAC(c, SnapshotFile(sess[c].snap))
          ELSE put[c].path[1] = "data"

=============================================================================
