# NebulaBackup in TLA+

NebulaBackup is a command-line backup program. It cuts files into blocks,
encrypts them under keys kept in the repository, stores them under names that
are HMACs of their content, and records each backup as a named snapshot. Several
processes may use one repository at the same time. Nothing locks it.

The source is small (about 5600 lines under `src/libnebula` and `src/cli`; the
rest of the repository is vendored libraries), but it is exposed to everything
that makes storage hard: uploads cut short by signals, crashes and full disks,
requests with an unknown outcome, concurrent writers, deduplication that trusts
what it finds, and buffers whose edges rarely fall where a test puts them.

## 1. Inventory

| Component (source) | State | Operations |
|---|---|---|
| Data stores: `DataStore`, `FileDataStore`, `AwsS3DataStore`, `SSHDataStore` | the objects, by path; transfers in flight | `exist`, `get`, `put`, `list`, `unlink` |
| Repository, backup and restore: `Repository.cpp` | `PackUploadState`, the block buffer, the snapshot being built | `uploadFile`, `compressEncryptAndUploadBlock`, `finalizePack`, `commitSnapshot`, `loadSnapshot`, `downloadFile` |
| Repository, keys: `Repository.cpp` | `/key` in the store, the four keys in memory | `initializeRepository`, `unlockRepository`, `changePassword`, `writeRepositoryKey` |
| Block splitting: `Repository::uploadFile`, `RollingHash`, `BufferedInputStream` | hash, window, block buffer, read buffer | `roll`, `reload`, the split loop |
| Snapshot object: `Snapshot.cpp` | sorted map of entries, string buffer and table, object ids | `addFileEntry`, `getFileEntry`, `forEachFileEntry`, `deleteFileEntry`, `save`, `load` |
| S3 transfers: `AwsS3DataStore` | `transferHandle`, the two stream buffers and their offsets, the status of the transfer | `put`, `get`, the progress callback, `underflow`, `overflow`, `sync`, `seekoff` |
| Sealed streams: `StreamUtils`, `EncryptedOutputStream`, `DecryptedInputStream`, `LZMAInputStream`, `LZMAUtils`, `TempFileStream`, `MultiInputStream`, `InputRangeStream`, `MemoryInputStream` | buffers, positions, cipher and decoder state | `read`, `write`, `close`, `rewind`, `skip`, `size` |
| Base32: `Base32.cpp` | `value`, `validBits`, what is left of the caller's buffer | `base32encode`, `base32decode` |
| Command line: `cli/Main.cpp` | `sUserCancelled`, the lists of files | `init`, `password`, `backup`, `restore`, `list`, the SIGINT handler |

**How they interact.** A command opens a repository over a data store and
unlocks it. `backupFiles` calls `uploadFile` for every file: a large file goes
block by block through the splitter, the sealing streams and `put`; a small one
is appended to a pack, which `finalizePack` stores when a rolling hash says so
and at the end of each argument. Both ask `exist` first and skip what is there.
`commitSnapshot` seals the snapshot object and stores it last. A restore walks
the other way. Processes share only the data store; inside a process the only
concurrency is the signal handler, which sets a flag that progress callbacks
read, and the threads of the S3 SDK, on one of which that callback runs.

**What is hard**, with the lines, is the list `hazards` of `PROJECT.json`. In
short: the check for existence and the upload after it are two steps
(*atomicity*); the file backend writes in place, so a kill, a write error or a
second writer leaves an object that later backups trust (*crash, interleaving,
partial failure*); a restore reads objects while others truncate, rewrite or
remove them (*interleaving*); S3 errors do not say what happened, and a request
given up or repeated may be carried out much later, over what came since (*unknown
outcome*);
the SDK seeks, repeats and cancels from its own thread (*protocol*); the
cancel flag is looked at in some calls and dropped in others; the key file is
rewritten in place; a pack that exists is recorded with fields nobody assigned;
16-bit counts, 4-byte alignment, NULs, path order and buffer seams (*edges*).

**What makes each part correct.**

* Repository: what a committed snapshot refers to exists, and is restored to
  what was uploaded, whatever other processes do and whatever failed; a snapshot
  appears whole or not at all; nothing committed is lost; a backup ends.
* Restore: what is written to a restored file is what was backed up, up to the
  place where it stopped; a restore of a snapshot that was there succeeds if
  nothing of its own fails; it ends.
* Data store: an object that exists and that nobody is writing is complete; on
  S3 an object appears whole at one moment, and every call ends.
* Keys: data in the repository and the keys in `/key` never part; a password
  change that reports success means the new password opens the repository.
* Splitter: blocks are the file; sizes and number stay in their bounds; the hash
  depends on the window alone.
* Snapshot: saving and loading keep every entry; the search by directory finds
  exactly the files below it.
* Streams: bytes come back as they went in, for all sizes of reads and writes.
* Base32: one id has one name; no buffer is overrun.

## 2. Modules

```
 S3Transfer --refines--> DataStore    StreamUtils           SSHDataStore
                          /     \      /     :  idealises
                    KeyFile    Repository    Streams
                                 |      \--refines--> Catalog
                              Restore

 MCFormats = Chunker + Streams + Base32 + Snapshot     algorithms and data structures

 KeyFileProofs  S3TransferProofs  ChunkerProofs  SnapshotProofs
 RepositoryProofs  <-- CatalogProofs
                   <-- ReferenceProofs  <-- RestoreProofs
```

`Restore` composes the backups of `Repository` with processes that restore, over
one store. A module of proofs extends the one it is about and the proofs it
builds on, as drawn, `ChunkerProofs` being about `Chunker` and `Base32`; the inductive invariants that a run checks too are in the
component's module, the others with their proofs. `MCFormats` puts the four modules without shared state side by side.
It and `MCKeyFile`, `MCRepository`, `MCRestore`, `MCS3Transfer`, `MCSSHDataStore`
and `MCSnapshot` give constants their values for TLC. Each module begins with the
mistakes ("part of no specification") that its properties are known to notice.

### DataStore

`files` is what is stored, a function whose domain is the paths that exist;
`put` holds the `put()` calls in flight, one per process; `late` the S3 requests
that nobody waits for, given up or made twice, and that may still be carried out;
`faults` counts faults of the
environment. `exist` is a relation between path and answer: on S3 a HEAD
request that fails for any reason is answered "no". `put` is split where other
processes can see it.

| Action | Code |
|---|---|
| `PutOpen` | `fopen(path, "wb")`: truncates what is there |
| `PutWrite` | one turn of the copy loop |
| `PutStored` | S3 has all of the object: others see it before `put()` returns |
| `PutCancel` | the progress callback says stop: the file is removed *by name*; other writers go on into a file without one. On S3 the transfer is cancelled, perhaps too late |
| `PutError` | an exception; the file keeps what it has, S3 may have all or nothing |
| `PutReturn` | normal return, also when the flush in `fclose` failed, since its result is dropped |
| `PutAbandon` | the process is gone; what S3 has not stored yet goes to `late` |
| `PutRetry` | the SDK, without an answer, repeats the request, which S3 may have carried out: one more goes to `late` |
| `PutLate` | S3 carries out such a request, whatever was stored meanwhile; one like it may be left |

### S3Transfer

The inside of `put()` and `get()` on S3. `call[c]` is a call with the stream
buffer it uses, its transfer's status, whether `transferHandle` was assigned,
what was sent or received so far, whether the object was stored and whether an
attempt is still due. `AssignHandle` and `Return` are the calling
thread; `Send`, `Uploaded`, `Ask`, `Receive`, `Downloaded` and `Cancelled` the
worker of the SDK; `Resend` and `AskAgain` its new attempts, which seek back or
ask for another stream over the same buffer, an upload also when S3 has stored
the object, or is about to, and only the answer is missing; `ProgressSaysNo` the callback,
which kills the process if the handle is still null; `Stored` and `StoredLate`
the bucket. The SDK is external: what it does is taken from how the stream
buffers are written for it (`seekoff` with its three directions, the response
stream factory). `RefinesStore` maps the calls to `put` and the uploads given up
or repeated to `late` and shows that all of this is `PutStart`, `PutStored`,
`PutReturn`, `PutCancel`, `PutRetry` and `PutLate` of `DataStore`.

### SSHDataStore

`connect`, `put` and `unlink` over SFTP, one process. The class is compiled, but
`createDataStoreFromRepository` cannot select it, so it is a module of its own
and not a third backend of `DataStore`.

### StreamUtils

What sealing means to everyone above it: a sealed stream is a sequence of cells
that know their payload, their place and their writer (for the random IV).
`VerifiesHMAC` holds of exactly the whole, unmixed ones. Cryptography is ideal:
an HMAC equals another exactly when the bytes fed to it are equal.

### Repository

`sess` maps each running process to its session: the rest of its arguments, the
ids of the blocks of the current file uploaded so far, the pack being filled,
`writePack`, the cancel flag and the snapshot being built. `Backup` begins a
session; `AddToPack`, `UploadBlock`, `RecordFile`, `FinalizePack`, `NextArg` and
`CommitSnapshot` are the steps of `backupFiles` and of what it calls, each up to
the next point where the store is touched; `Transferring`, `Transferred`,
`CancelTransfer`, `TransferError` are the `put()` it waits for; `Retry` is a
request that the SDK makes again and `LateUpload` S3 carrying out one that nobody
waits for; `Signal` is SIGINT and `Crash` a
kill. `loadSnapshot` and `downloadFile` are operators, for
they change nothing. An id is idealised as the very bytes the code feeds to
HMAC, so ids collide where the code makes them collide. The value of an
uninitialised `packLength` is any member of `Garbage`.

### Catalog

The promise, without storage: named snapshots, and a backup of a request (the list
of arguments, each a list of files), whose snapshot appears whole (`Commit`) or
not at all before it is over (`End`). A request for the snapshot that was given up
(`End`) or made twice (`Retry`) is in `lost` and may appear later, always whole
(`Appear`; several may be the same). Of two files with one path the first counts
(`Promised`). `RefinesCatalog` maps to it what `downloadFile` would
give for every entry of every loadable snapshot, at every moment.

### Restore

`rest` maps each reader to its restore: the snapshot it loaded, the files still
to do, the open one, the blocks of it written, and the `get()` in progress;
`dest` is the directory it restores to. On the file backend `get()` is `GetOpen`
and one `GetRead` per chunk, so writers come between; a file removed while it is
open stays readable (`Removed`). On S3 it is one step, `GetObject`, as
`S3Transfer` justifies. `Got` is what follows it: verify, decompress, write, or
throw. `OpenDest` and `CloseDest` are the restored file, with the question
whether to overwrite, the dropped result of `fclose` and the MD5 comparison that
`--no-verify` leaves out. All other steps are those of `Repository`
(`BackupStep`).

### KeyFile

The key file, the password and backup commands, and the messages the user sees
(`said`). The n-th key set is the number n, `data` the key sets that stored data
is encrypted under. `initializeRepository` does not look whether a repository
exists; a second one makes the first one's data unreadable, which is why the
runs about lost keys have `MaxInits = 1`.

### Chunker, Snapshot, Streams, Base32

`Chunker` is the loop of `uploadFile` over a large file with the rolling hash,
reading through `BufferedInputStream`; the file may have grown since its length
was read. `Snapshot` is the object with its string buffer, characters as codes
since the order of the map and the NULs matter; each public operation holds the
mutex and is one action. What `save` writes keeps the entries in the order of the
map, and `load` puts each under the path its strings spell, so that of two
entries with one path the later wins. `Streams` is one block on its way through the stream
classes, compressed or not, next to another in a pack, with reads and writes of
all sizes. LZMA itself is external: its codes stand for up to two bytes, so the
decoder can have output left when its input is used up, and the other way round;
the loop of `LZMAInputStream` around it is the code's. `Base32` has the encoder as
the steps of its two loops, each write behind its own check of what is left of the
buffer (`PutDigit`, `PutRemainder`, `PutEnd`), and counting the writes wherever
they go; the decoder, which checks once, is an operator.

## 3. Runs

Every property of a passing run is one that a plausible mistake in the modelled
code violates (`mutants` in `PROJECT.json`).

### Passing

| Run | Shows |
|---|---|
| `s3_blocks` | Two processes back up overlapping files to S3 under one name while a third restores, one fault anywhere (an answer that is lost, a request that is repeated, given up or carried out late, a kill): all that was committed is restored as it was uploaded (`Restorable`), by the inductive invariant `SafeBlocks`; re-uploads never change data (`IdDeterminesData`); a restore of a snapshot that was there never meets a missing or wrong object, also when the snapshot is replaced under it (`RestoreSucceeds`, by `SafeRestores`); the system implements the catalog (`RefinesCatalog`, by `SafeRequests`). |
| `s3_packs` | Three backups with packs: what snapshots refer to is stored before they are (`SafeReferences`), complete objects stay complete (`CompleteStaysComplete`), snapshots stay loadable (`SnapshotsStay`). |
| `file_backup` | One process on the file backend, SIGINT at any moment and up to two faults: without faults it leaves no unfinished object behind (`CompleteWithoutFaults`); what its snapshots refer to exists (`ReferencesExist`); files of new packs, empty ones too, are read back from the ranges their entries name (`FirstRestorable`); every backup ends (`BackupsEnd`), and one that nothing disturbs commits (`BackupsCommit`). |
| `restore_file` | A restore from the file backend while two processes truncate, write and remove the objects it reads: restored files are prefixes of what was backed up, complete where `downloadFile` returned (`AsRecorded`), and the restore ends (`RestoresEnd`). |
| `s3_transfer` | Two processes in `put()` and `get()` on S3, with both threads: the stream's position is what the SDK is told (`PositionsAgree`), a download is the object (`GetDelivers`), all of it implements `DataStore` (`RefinesStore`), and every call ends (`CallsEnd`). |
| `key_s3` | Two processes change passwords and back up on S3, with two faults: the keys of the data are never lost (`DataHasItsKeys`, `KeysStay`, by `SafeKeys`) and a successful change takes effect (`ChangedMeansOpens`). |
| `key_file` | One process on the file backend: between commands the key file opens and has the keys of the data. |
| `formats` | Chunker: blocks are the file; hash, sizes and number of blocks, also for files that grew. Streams: a block comes back unchanged for all sizes of reads and writes; reads are full; the recorded range is the seal. Base32: the loops of the encoder against the bits of its input and, write by write, against the buffer; the decoder against the encoder and its buffer. Snapshot: strings, ids and entries survive add, delete, save, load and add again; restore finds what was saved. |

### Violations: where the code and what is said of it part

| Run | What happens |
|---|---|
| `pack_reused` | The same small files backed up twice: `finalizePack` finds the pack and skips the loop that computes `offset` and `packLength`, so the entries name wrong ranges. |
| `file_partial` | A write error or kill leaves a partial object under its final name; later backups skip the block. |
| `snapshot_subpath` | The walk over `x/d` stops at `x/d.x` and misses the files below `x/d`. |
| `ssh_put` | `put()` over SFTP opens without `O_CREAT` and `O_TRUNC`: it throws for every new path and leaves the end of a longer old file. |

`findings` in `PROJECT.json` has the lines. These delimit the passing runs: the
file backend is checked for completeness while nothing fails and for references
with one process, packs on it for restoring with the first backup.

The models also show the following, for which no run is kept:

* two processes that write one object through the file backend leave a mix of
  two seals (`ExistingObjectComplete` without faults, two processes);
* two processes that both find a block missing: one stores it and commits a
  snapshot that refers to it, the other truncates it and, on SIGINT, removes it by
  name (`ReferencesExist` on the file backend without faults, two processes). The
  comment at `FileDataStore.cpp:114` says "remove the in progress file"; the code
  removes whatever has its name;
* the id of a pack leaves out the compression types of its files, so packs with
  different content share a name (`IdDeterminesData` with `TypeJobs`);
* the password command says "Password updated." also when `changePassword`
  returned false (the second disjunct of `ChangePassword`);
* if the last flush of the key file fails inside `fclose`, `changePassword`
  returns true and no password opens the repository (`ChangedMeansOpens` on the
  file backend with one fault);
* `mFiles.insert` keeps the entry it has, so a changed file uploaded into a
  loaded snapshot is not recorded (`Promised` in `Catalog` says so openly);
* a file at the top of the tree is called `/a` once its snapshot was saved and
  loaded;
* a download that S3's SDK repeats writes behind the bytes of the attempt that
  failed; the HMAC then does not verify and `get`'s caller throws (the weaker
  half of `GetDelivers`);
* a restore with `--no-verify` reports success for a file whose last piece
  `fclose` failed to write (`unflushed` in `Restore`).

### Bounds

* *Processes, names, backups.* Two processes give every pairwise interleaving of
  check, upload, skip and commit. With packs three backups under two names let a
  later one build on what two concurrent ones left; without them, which is the
  theorems' case anyway, two backups and a restore share one name, so that every
  commit replaces what another relied on. Processes and names are symmetric where
  safety is checked; the runs with liveness use no symmetry.
* *Restores.* One reader beside two writers; `Existing` puts a file with other
  contents in its way. `SharedJobs` is a file with the same block twice, so that
  a writer works on the object the reader needs next.
* *S3 transfers.* Stream buffers of two cells, objects that fit one and objects
  that need two, two calls and two faults: a repeated attempt in the middle, at
  the end, after a refill and after the object was stored, and a late or repeated
  object over a newer one.
* *Jobs.* `MCRepository` has two versions of a file that share a block, the same
  data under two compression types, a path given twice, an empty file, several
  arguments. Ids of one to three cells suffice, because an id is compared and
  never computed with.
* *Cells.* A seal has at least two cells in all cases that matter, so "partial"
  and "mixed" exist; each additional cell only repeats `PutWrite`.
* *Faults.* `MaxFaults` of 1 or 2. The passing S3 runs are backed by theorems
  for any number.
* *Chunker.* Window 3, hash modulo 16 with the constant 3, so that a wrong power
  of it is another hash, blocks of 2 or 3 bytes, at most 2 of them
  (`MaxCount`), files up to 9 bytes: windows longer than, equal to and shorter
  than blocks, all three ways a block ends, and files so long that the count
  decides the block size and `minBlockSize` passes `maxBlockSize`, where
  `BlockSizes` allows blocks of the former. The
  read buffer of 4 is refilled within and between blocks.
* *Streams.* Cipher blocks of 2 bytes, pieces of 3, a decoder buffer of 3, a
  memory buffer of 8, data
  up to 12, reads and writes of 1, 2, 3, 5 and 20: the boundaries of cipher
  blocks, pieces, buffers, requests and the seams of the pack fall before, on
  and after one another.
* *Snapshot.* Paths at the top and below, siblings on both sides of `/` in the
  order of characters, strings of a length divisible by 4 and empty ones, id
  lists up to one longer than allowed.
* *Base32.* Lengths 0 to 6 pass a whole group of 5 bytes, with the bytes 0, 31,
  170 and 255, and every buffer size from 0 to 12, one more than any of them needs.

Behaviours end when their bounds are used up, so deadlock is checked only where
the model has a final self-loop (`formats`: the loops of `Chunker`, `Streams` and
`base32encode` must reach their end).

### Fairness

`FairSpec` is `Spec` with weak fairness of `Step(c)`, what a process does by
itself once a backup was asked for: a process that is neither killed nor blocked
keeps running, and a transfer it waits for goes on or fails. That is the
operating system's scheduling and the copy loops of `put()`, which have no
condition to wait for. `FairRestoreSpec` assumes the same of a reader
(`RestoreStep`), and nothing of the writers: a restore must end also when they
stop for ever in the middle of an object. `S3Transfer` assumes that each of the
two threads keeps running and that S3 answers a request; `CallsEnd` then says
that no order of callback, failure and cancellation leaves `WaitUntilFinished`
waiting. Signals, faults, new backups, new attempts and late requests are not
fair.

## 4. Proofs

For every value of the constants, from the modules' assumptions and these:

| Module, theorem | Statement | Further assumptions |
|---|---|---|
| `RepositoryProofs!TypeCorrect` | `Spec => []TypeOK` | none, either backend |
| `RepositoryProofs!BlocksSafe` | `Spec => []SafeBlocks` | `Backend = "s3"`, `NoPacks` |
| `RepositoryProofs!AlwaysRestorable` | `Spec => []Restorable` | the same |
| `RepositoryProofs!ReuploadHarmless` | `Spec => IdDeterminesData` | the same |
| `CatalogProofs!RequestsSafe` | `Spec => []SafeRequests` | the same |
| `CatalogProofs!ImplementsCatalog` | `Spec => RefinesCatalog` | the same |
| `RestoreProofs!RestoresSafe` | `RestoreSpec => []SafeRestores` | the same |
| `RestoreProofs!RestoreNeverFails` | `RestoreSpec => []RestoreSucceeds` | the same |
| `RestoreProofs!ReadsSafe` | `RestoreSpec => []SafeReads` | `NoPacks`, either backend |
| `RestoreProofs!RestoreIsRight` | `RestoreSpec => []AsRecorded` | the same |
| `ReferenceProofs!ReferencesSafe` | `Spec => []SafeReferences` | `Backend = "s3"` |
| `ReferenceProofs!NoDanglingReference` | `Spec => []ReferencesExist` | the same |
| `ReferenceProofs!SnapshotsNeverLost` | `Spec => SnapshotsStay` | the same |
| `ReferenceProofs!ObjectsSafe` | `Spec => []SafeObjects` | the same |
| `ReferenceProofs!ExistingObjectsComplete` | `Spec => []ExistingObjectComplete` | the same |
| `ReferenceProofs!ObjectsStayComplete` | `Spec => CompleteStaysComplete` | the same |
| `ReferenceProofs!WritesSafe` | `Spec => []SafeWrites` | `Backend = "file"` |
| `ReferenceProofs!NothingUnfinished` | `Spec => []CompleteWithoutFaults` | `Backend = "file"`, one client |
| `ReferenceProofs!PacksSafe` | `Spec /\ []NoPackFound => []SafePacks` | `Backend = "file"` |
| `ReferenceProofs!FirstAlwaysRestorable` | `Spec /\ []NoPackFound => []FirstRestorable` | the same |
| `ReferenceProofs!RangesAreObjects` | `Spec /\ []NoPackFound => [](Undisturbed => PackRangeIsObject)` | the same |
| `KeyFileProofs!KeyTypeCorrect` | `Spec => []TypeOK` | `Backend = "s3"` |
| `KeyFileProofs!KeysSafe` | `Spec => []SafeKeys` | `Backend = "s3"` |
| `KeyFileProofs!DataKeepsItsKeys` | `Spec => []DataHasItsKeys` | `Backend = "s3"`, `MaxInits <= 1` |
| `KeyFileProofs!KeysNeverLost` | `Spec => KeysStay` | the same |
| `KeyFileProofs!ChangeTakesEffect` | `Spec => ChangedMeansOpens` | `Backend = "s3"` |
| `KeyFileProofs!RewritesSafe` | `Spec => []SafeRewrites` | `Backend = "file"`, one client, `MaxFaults = 0` |
| `KeyFileProofs!DataAtRestHasItsKeys` | `Spec => []KeysAtRest` | the same and `MaxInits <= 1` |
| `S3TransferProofs!TransfersSafe` | `Spec => []SafeTransfers` | none |
| `S3TransferProofs!PositionsAlwaysAgree` | `Spec => []PositionsAgree` | none |
| `S3TransferProofs!GetsDeliver` | `Spec => []GetDelivers` | none |
| `S3TransferProofs!ImplementsStore` | `Spec => RefinesStore` | none |
| `ChunkerProofs!ChunksSafe` | `ChunkSpec => []SafeChunks` | none |
| `ChunkerProofs!NothingLost` | `ChunkSpec => []BlocksAreTheFile` | none |
| `ChunkerProofs!SizesKept` | `ChunkSpec => []BlockSizes` | none |
| `ChunkerProofs!CountAlwaysFits` | `ChunkSpec => []CountFits` | none |
| `ChunkerProofs!HashSafe` | `ChunkSpec => []SafeHash` | none |
| `ChunkerProofs!HashAlwaysOfWindow` | `ChunkSpec => []HashOfWindow` | none |
| `ChunkerProofs!NamesAreBits` | `Base32Spec => []EncodesBits` | none |
| `ChunkerProofs!NamesDecode` | `Base32Spec => []DecodesBack` | none |
| `ChunkerProofs!NamesFit` | `Base32Spec => []BufferRespected` | none |
| `SnapshotProofs!SnapshotSafe` | `SnapSpec => []SafeSnapshot` | none |
| `SnapshotProofs!EntriesAlwaysResolve` | `SnapSpec => []EntriesResolve` | none |
| `SnapshotProofs!AlwaysRoundTrips` | `SnapSpec => []RoundTrip` | none |
| `SnapshotProofs!RestoreFindsAll` | `SnapSpec => []RestoreFinds` | none |

**Blocks.** `Restorable` speaks of committed snapshots alone and is not
inductive: a commit is right because the session's snapshot was, and that is
because each id was appended only after its block was found or stored.
`SafeBlocks` says all of it at once. Every object stored, *on its way or given
up* verifies and is what its path names; every entry, in a stored snapshot, in
one on its way or in a session's memory, has the ids of its own blocks in order,
all of them stored; the ids of the file being uploaded are a prefix of its
blocks; the block in flight is the next one, and if its transfer is marked
stored, its path is there. On S3 the set of stored paths only grows
(`StoreOnlyGrows`), and an object is replaced only by one with the same data
since ids of blocks are injective in type and data (`BlockIdInjective`), so what
was safe stays safe (`SafetyGrows`) whatever others do, also when a HEAD
request lied and a block is uploaded again, or a request given up long ago is
carried out. `SafeEntryRestores` goes from there to `downloadFile`.

**References.** With packs, on S3, an object may be another one than the path
was computed for, so nothing can be said of contents; but references stay good.
`SafeReferences` says that a snapshot refers only to stored paths whether it is
stored, on its way, given up or still being built, that a transfer marked stored
has its path there, that the path is the one the session goes on to refer to
(`Uploading`, `Finalizing`), and that no pack is pending once the arguments are
used up. Paths never go away, so each of these stays. That a stored snapshot
verifies comes from the same invariant, hence `SnapshotsNeverLost`.

**Objects.** A data object is complete if it is a whole seal or whole seals, one
behind the other (`WholeObject`). Whatever `put()` is given is: a pack is
`FlattenSeq` of the seals of its files, and that each file's cells are where the
offsets that `finalizePack` adds up say they are is proved by induction over the
pack (`PackOffsetsAdd`, `PackReaches`, `PackRange`). On S3 nothing else is ever
stored, which is `SafeObjects`. In a directory an object grows in place, and a
kill, a failed write or a second writer may leave anything. `SafeWrites`
therefore speaks of the time before that (`Undisturbed`: no fault so far, and
one client or one backup): a `put()` has written the first chunks of its object
(`Beginning`), only one session runs, and every path that is not being written
(`AtRest`) is complete. A cancel removes the file, so it leaves nothing behind;
that is why `NothingUnfinished` needs no assumption about signals.

**Packs in a directory.** `FirstRestorable` is far from inductive: an entry is
right because the range recorded in it is that of the file's own seal in the
pack that `put()` has then written to the end. `SafePacks` says that, as long as
nothing was disturbed, every entry of a snapshot, stored or being built, is read
back from the objects at rest (`EntryReads`), that a `put()` carries just what
its session is going to refer to (`SafeSent`) and truncates nothing
(`OpensNothing`), so what was readable stays readable, and that an object at
rest is the block or the pack its name says (`SealedAt`). The hypothesis
`[]NoPackFound` says that no backup finds a pack where it is about to put one,
or takes a pack for a block. It is what `pack_reused` violates, and it is not
automatic even in a first backup: two arguments with the same small files make
the same pack twice, and the ids of blocks and of packs are HMACs under one key
with nothing to tell them apart, so a file whose content is what the id of a
pack is computed from would find that pack in its place. `RangesAreObjects`
thus narrows the finding down: with nothing disturbed, the reuse of a
pack is the *only* way to a wrong range, also for any number of backups one after
the other.

**The catalog.** The mapping reads `catalog` off what `downloadFile` gives, so
every step that stores an object could show up in it. By `SafeBlocks` an object
under a data path is only replaced by one with the same data, so such steps
stutter (`task` and `lost` are read off `sess` and `late`). The step that
stores a snapshot is `Commit`, since by `SafeRequests` the session has dealt with
all of its files in order, has recorded each path with its first content, which
is `Promised`, and sends just that. For the same reason a request for a snapshot
that is given up or repeated is the session's own, and goes to `lost`; `LateUpload`
of it is `Appear`, and that two requests may be equal is why `Appear` may leave
one.

**Restores.** A restore keeps using the snapshot it loaded, which others may
have replaced since: `SafeBlocks` no longer speaks of it, so `SafeRestores`
does. What it says of the loaded snapshot stays true because the set of stored
paths only grows; the rest of it counts the files (every file of the snapshot is
to do, open, restored or kept) and keeps the length of the open file equal to
the number of blocks written. Restoring changes nothing in the repository, so
`SafeBlocks` is carried over from `RepositoryProofs`.

**Restores on either backend.** In a directory nothing of the above holds: the
object being read may be truncated, removed or a mix of two writers' chunks.
`AsRecorded` holds all the same, for another reason. `SafeCells` says of every
chunk at a path, whoever wrote it, that it was sealed for that path or is a hole
that a truncation left; `SafeReads` that a reader has such chunks in its
temporary file, also when it goes on reading a file that was removed, and has
written only what was verified. Only a whole seal verifies, and the
ids of blocks are injective, so what verifies at a path is the block that the
entry means, whichever writer's seal it was.

**Keys.** `DataHasItsKeys` is not inductive: the key file that a password change
is about to store decides. `SafeKeys` says that every key file stored, in
transfer or given up is whole and holds keys that were generated, that one is
there before any command but `init` runs or any data is stored, and that the
file a process waits for is the one its command reports. With one
initialisation "keys that were generated" are the keys, whichever of the racing
changes comes last.

On the file backend `put()` truncates the only key file, so `KeysAtRest` speaks
of the time between commands. `SafeRewrites` says how it gets there: a `put()`
has written the first cells of a whole key file and nobody else runs; otherwise
every file is whole.

**S3 transfers.** `SafeTransfers` describes each call by its status: an upload
has sent the first cells of its seal, its stream buffer holds the next ones and
its offset is where they end, whatever seeks came before; a download has
written the beginning of the object, behind what a failed attempt left, if
there was one. Cells know the call that wrote them, and a mix of two pieces does not
verify, which is the weaker half of `GetDelivers`. `StepIsPutStep` goes through
the actions: `Stored` is `PutStored` as the cells sent are the whole seal, or
`PutLate` if an earlier attempt was stored already; `StoredLate` is `PutLate`;
`Resend` is `PutRetry` if S3 has, or may get, all of an earlier attempt; and what
the two threads do in between stutters.
So what the other theorems assume of `put()` on S3 is what `AwsS3DataStore` does.

**Blocks of a file.** `SafeChunks` says that the blocks, the block buffer and
the read buffer, one behind the other, are the bytes read, that every block but
perhaps the last has at least `minBlockSize` bytes and none has more than the
larger of the two limits. The number of blocks follows from the sum of their
lengths, `minBlockSize` being the length divided by `MaxCount` and rounded up.
Nothing is assumed of the hash: the proof holds wherever it puts the cuts.

**The rolling hash.** `SafeHash` places the last bytes in the circular window and
says that the hash is theirs. With `Congruent` for equality up to a multiple of
`Modulus`, the value of the first `i + 1` bytes of a window is that of the first
`i` of the next window plus `Constant^i` times the value of the byte that leaves
(`HornerShift`); so one multiplication, one addition and one subtraction make the
hash of the next window (`HashOfShift`), provided `mConstantPowWinSize`, computed
by squaring modulo 2^64, is congruent to the power (`PowerOfWindow`).

**Names of objects.** `BitAt(seq, w, j)` is the `j`-th bit of a sequence of numbers
of `w` bits. `Tracks` says of the loop of `base32encode` that the digits put out
and the valid bits of `value`, one behind the other, are the first bits of the
data: a byte that enters brings its eight (`ByteTracked`), a digit that leaves
takes the top five and the mask keeps the rest (`DigitTracked`). `value` stays
below `2^validBits`, and `validBits` at most 12, so the `unsigned int` cannot
overflow. `SafeNames` adds what is counted: `outLen` and the characters written
make up `capacity` until the NUL is there. So no check lets a write pass that has
no room, a check that refuses does so with the buffer full (`RefusedNames`), and at
the end the digits have the bits of the data, with at most four zeros behind them,
which fixes their number (`RemainderEncodes`). Decoding is then bit by bit
too: a byte and the parts of a digit are the sums of their bits, and `GroupDecodes`
compares the five positions of a byte in its group. `BitsJoined` connects `BitAt`
with the sequence of bits that `EncodesBits` joins.

**Snapshots.** `SafeSnapshot` says that every offset, in the table and in the
entries, in memory and in what was saved, begins a whole string followed by its
NUL (`StringAt`), that the buffer ends with a NUL if it is not empty, and that
the ids of an entry are where its index says. Strings and ids are only ever
appended, so offsets keep their meaning. `load` finds the strings again because
a piece between two NULs is a string at its offset (`TableSafe`); the padding
and empty strings that look alike are alike. The path a loaded entry is filed
under is the one its strings spell, which `RestoreFinds` needs.

**Induction without induction.** The library's induction theorems take an
operator as a parameter, which the provers cannot instantiate. `ChunkerProofs`,
`SnapshotProofs` and `ReferenceProofs` take the least counterexample instead
(`LeastElement`, `LeastNumber`, `LeastCount`, from the well-foundedness of the
order on numbers), which is enough for the cells and offsets of a pack, the sum of the lengths of blocks, the values of a polynomial, the
existence of what a recursive function defines (`IteratesExist`), the first NUL behind an offset, the
last slash of a path and the last entry with a given path.

**The assumptions are needed.** Without `Backend = "s3"` the run `file_partial`
is a counterexample to what is said of content, and two processes of which one is
cancelled (section 3) to what is said of references; without `NoPacks` or
`NoPackFound` `pack_reused` is one, and with `MaxInits = 2`
TLC finds data whose keys were replaced.

`KeysAtRest` on the file backend fails with two processes that rewrite the file
at once, and with a write error. The modules' own assumptions are the ranges of
constants, that the files of jobs are as `File` says, that a seal has at least one cell
(`PayloadAssumption`), that bytes are numbers (`ChunkerAssumption`, `Base32Assumption`), and that paths
are relative, do not end in a slash and hold, like owners, no NUL
(`SnapshotAssumption`: they are C strings that `uploadFile` normalises).

**Only model-checked:**

* `BackupsEnd`, `BackupsCommit`, `RestoresEnd`, `CallsEnd` and `FullReads`: fairness
  and progress are beyond the prover;
* `ReferencesExist` on the file backend, with one process (on S3 it is proved, for
  any number);
* `RestoredIsPlain` and `RangeIsTheSeal`: `Streams` uses recursive operators, with
  which the prover loses its SMT solver.

## 5. What is not modelled

* *Third-party code.* The repository vendors Boost, GoogleTest, LibreSSL,
  libssh and the LZMA SDK, some 600 000 lines. Its own code has about
  5600, of which the definitions here stand for some 2200; most of the rest is
  declarations, includes, argument parsing and output. What the code needs of a
  library is modelled from how it is used and marked external.
* `list` and `unlink` of the file and S3 backends: `list` only reads (and is
  empty on S3), nothing calls `unlink`. `compactRepository` is declared and not
  defined; the commands `delete` and `compact` are in the help and not
  implemented.
* SSH: `get`, `exist` and `list`, which only read, and the steps of
  authentication.
* A reader that has a file open into which an orphaned writer goes on: what it
  gets, a mix or a prefix, other interleavings of `restore_file` have too.
* Temporary files: their I/O errors (see `hazards`) and their shredding. The
  zeroing containers, for memory hygiene.
* `--dry-run`: `backupFiles` then skips the files but not `commitSnapshot`, so that
  an empty snapshot is committed under the name given (a session of `Repository`
  without arguments).
* A machine that stops while the key file is rewritten in place, and answers that
  the password command drops: they are listed under `hazards`, with what the
  properties of `KeyFile` say of them and what they leave open.
* `FileInfo` (`stat`), argument parsing, prompts, progress output.

## 6. Plan

Done: the core (`DataStore`, `Repository`, `Catalog`, `KeyFile`), the four
algorithm modules with the buffered and compressing streams, the threads of S3
with late requests, restores that run beside backups, SFTP's `put`; the proofs
for blocks, references, objects, restores and keys on S3, both refinements, the
loop that cuts files and its rolling hash, the names of objects, the snapshot
object, and on disk the key file, what a backup writes in place, packs and restores.

Left: the wire format around `Snapshot` (field widths, counts, the expected sizes
`load` checks).
