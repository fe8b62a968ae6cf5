------------------------------ MODULE Restore ------------------------------
(***************************************************************************)
(* Restoring while others back up: downloadFiles (cli/Main.cpp), which     *)
(* loads a snapshot and calls Repository::downloadFile for each of its     *)
(* files, over the get() of the two backends, next to the backups of       *)
(* Repository.                                                             *)
(*                                                                         *)
(* On the file backend get() reads chunk by chunk, while a put() may       *)
(* truncate, write or remove the same file.  On S3 the object comes as it  *)
(* is at one moment (S3Transfer).  Whatever was read is checked against    *)
(* its HMAC before any of it is written to the restored file.              *)
(***************************************************************************)
EXTENDS Repository

CONSTANTS
    Reader,        \* processes that restore
    Existing,      \* files that are in their directories at the start
    MaxRestores    \* how many restores a behaviour may start

ASSUME RestoreAssumption == MaxRestores \in Nat

VARIABLES
    rest,          \* the last restore of each reader that ran one
    dest,          \* the directory each reader restores to: paths to contents
    restores       \* restores started so far

restVars == <<rest, dest, restores>>

(***************************************************************************)
(* A restore: what it is doing ("load", "files", and at the end "done",    *)
(* "threw" because an object is missing or does not verify, or "stopped"   *)
(* by SIGINT or an I/O error of its own), its snapshot, the paths still to *)
(* restore, those restored, those whose last piece fclose failed to write  *)
(* and those the user chose to keep, the file being restored, if it is     *)
(* open, the blocks of it that are written, and the get() in progress: the *)
(* file descriptor, the contents of a file that was removed while it was   *)
(* open, and what was read so far.  there says if the snapshot was there   *)
(* at the start.                                                           *)
(***************************************************************************)
RestoreOf(n) ==
    [name |-> n, there |-> Committed(n), phase |-> "load",
     cancelled |-> FALSE, snap |-> EmptyFcn, todo |-> {}, ok |-> {}, unflushed |-> {},
     kept |-> {}, open |-> FALSE, path |-> "", block |-> 0,
     fd |-> "no", old |-> <<>>, tmp |-> <<>>]

Active(r) == r \in DOMAIN rest /\ rest[r].phase \in {"load", "files"}

Entry(s) == s.snap[s.path]

\* the object that is read next, while there is one
BlocksToGet(s) ==
    s.phase = "load" \/ (s.open /\ s.block < Len(Entry(s).ids))

ObjectPath(s) ==
    IF s.phase = "load" THEN SnapshotPath(s.name) ELSE DataPath(Entry(s).ids[s.block + 1])

SetRestore(r, s) == rest' = [rest EXCEPT ![r] = s]

End(s, how) == [s EXCEPT !.phase = how, !.fd = "no", !.old = <<>>, !.tmp = <<>>]

-----------------------------------------------------------------------------
(* Plausible mistakes, part of no specification *)

\* blocks are written before their HMAC was looked at
OpensUnchecked(e, cells) == cells # <<>>

\* the loop over the blocks begins at the second
OpenDestSecond(s, p) == [s EXCEPT !.todo = @ \ {p}, !.open = TRUE, !.path = p, !.block = 1]

\* a short read is not the end
AtEndNever(cells, content) == Len(cells) = Len(content) /\ content # <<>>

-----------------------------------------------------------------------------
\* downloadFiles begins; the repository is unlocked.
DownloadFiles(r, n) ==
    /\ ~Active(r)
    /\ restores < MaxRestores
    /\ restores' = restores + 1
    /\ rest' = With(rest, r, RestoreOf(n))
    /\ UNCHANGED <<vars, dest>>

\* SIGINT, which only the progress function of a block looks at
StopRestore(r) ==
    /\ Active(r)
    /\ ~rest[r].cancelled
    /\ SetRestore(r, [rest[r] EXCEPT !.cancelled = TRUE])
    /\ UNCHANGED <<vars, dest, restores>>

\* decompressDecryptHMAC throws unless the HMAC verifies, and then if what it
\* decompresses is not LZMA; stored compressed and read as plain goes unnoticed.
RangeOfEntry(e, cells) ==
    IF e.packLength > 0 THEN RangeOf(cells, e.offset, e.packLength) ELSE cells

Opens(e, cells) ==
    /\ VerifiesHMAC(cells)
    /\ cells[1].pay.kind = "block"
    /\ e.comp = 1 => cells[1].pay.comp = 1

\* get() is over: the snapshot is loaded, or a block checked and written.
Got(r, cells) ==
    LET s == [rest[r] EXCEPT !.fd = "no", !.old = <<>>, !.tmp = <<>>]
        isSnapshot == VerifiesHMAC(cells) /\ cells[1].pay.kind = "snapshot"
        range == RangeOfEntry(Entry(s), cells)
    IN  \/ /\ s.phase = "load" /\ isSnapshot
           /\ SetRestore(r, [s EXCEPT !.phase = "files", !.snap = cells[1].pay.snap,
                                      !.todo = DOMAIN cells[1].pay.snap])
           /\ UNCHANGED dest
        \/ /\ s.phase = "files" /\ Opens(Entry(s), range)
           /\ SetRestore(r, [s EXCEPT !.block = @ + 1])
           /\ dest' = [dest EXCEPT ![r][s.path] =
                           Append(@, decompressDecryptHMAC(Entry(s).comp, range))]
        \/ /\ IF s.phase = "load" THEN ~isSnapshot ELSE ~Opens(Entry(s), range)
           /\ SetRestore(r, End(s, "threw"))
           /\ UNCHANGED dest

Missing(r) ==
    /\ ObjectPath(rest[r]) \notin DOMAIN files
    /\ SetRestore(r, End(rest[r], "threw"))
    /\ UNCHANGED dest

Interrupt(r) ==
    /\ rest[r].cancelled /\ rest[r].phase = "files"
    /\ SetRestore(r, End(rest[r], "stopped"))
    /\ UNCHANGED dest

\* get() from S3.  A cancel request may come too late for the transfer.
GetObject(r) ==
    /\ Backend = "s3"
    /\ Active(r) /\ BlocksToGet(rest[r])
    /\ \/ Missing(r)
       \/ ObjectPath(rest[r]) \in DOMAIN files /\ Got(r, files[ObjectPath(rest[r])])
       \/ Interrupt(r)
    /\ UNCHANGED <<vars, restores>>

\* get() from the file backend: fopen, then reads until one gets nothing
GetOpen(r) ==
    /\ Backend = "file"
    /\ Active(r) /\ BlocksToGet(rest[r])
    /\ rest[r].fd = "no"
    /\ \/ Missing(r)
       \/ /\ ObjectPath(rest[r]) \in DOMAIN files
          /\ SetRestore(r, [rest[r] EXCEPT !.fd = "yes"])
          /\ UNCHANGED dest
    /\ UNCHANGED <<vars, restores>>

Contents(s) == IF s.fd = "orphan" THEN s.old ELSE files[ObjectPath(s)]

AtEnd(cells, content) == Len(cells) >= Len(content)

GetRead(r) ==
    /\ Active(r)
    /\ rest[r].fd # "no"
    /\ LET s == rest[r]
       IN  \/ /\ AtEnd(s.tmp, Contents(s))
              /\ Got(r, s.tmp)
           \/ /\ Len(s.tmp) < Len(Contents(s))
              /\ ~(s.cancelled /\ s.phase = "files")
              /\ SetRestore(r, [s EXCEPT !.tmp = Append(@, Contents(s)[Len(s.tmp) + 1])])
              /\ UNCHANGED dest
           \/ /\ Len(s.tmp) < Len(Contents(s))
              /\ Interrupt(r)
           \* file_size() after fopen(), of a file that was removed meanwhile
           \/ /\ s.fd = "orphan" /\ s.tmp = <<>>
              /\ SetRestore(r, End(s, "threw"))
              /\ UNCHANGED dest
    /\ UNCHANGED <<vars, restores>>

\* The files of the snapshot one by one; the order, by path, does not matter.
\* A file that exists is overwritten if the user says so.
FileOpened(s, p) == [s EXCEPT !.todo = @ \ {p}, !.open = TRUE, !.path = p, !.block = 0]

OpenDest(r) ==
    /\ Active(r)
    /\ rest[r].phase = "files"
    /\ ~rest[r].open
    /\ \E p \in rest[r].todo :
          \/ /\ SetRestore(r, FileOpened(rest[r], p))
             /\ dest' = [dest EXCEPT ![r] = With(@, p, <<>>)]
          \/ /\ p \in DOMAIN dest[r]
             /\ SetRestore(r, [rest[r] EXCEPT !.todo = @ \ {p}, !.kept = @ \cup {p}])
             /\ UNCHANGED dest
    /\ UNCHANGED <<vars, restores>>

\* The file is closed, the result of fclose being ignored, and unless there was
\* --no-verify it is read again and its md5 compared.
Closed(r, content, lost) ==
    LET s == rest[r]
        next(verify) == IF verify /\ content # Entry(s).md5
                        THEN End(s, "stopped")
                        ELSE [s EXCEPT !.open = FALSE, !.ok = @ \cup {s.path},
                                       !.unflushed = @ \cup lost]
    IN  /\ dest' = [dest EXCEPT ![r][s.path] = content]
        /\ \E verify \in BOOLEAN : SetRestore(r, next(verify))

CloseDest(r) ==
    /\ Active(r)
    /\ rest[r].phase = "files"
    /\ rest[r].open
    /\ ~BlocksToGet(rest[r])
    /\ LET content == dest[r][rest[r].path]
       IN  \/ Closed(r, content, {}) /\ UNCHANGED vars
           \/ /\ content # <<>>
              /\ Closed(r, Front(content), {rest[r].path})
              /\ Fault /\ UNCHANGED <<files, put, late, sess, started>>
    /\ UNCHANGED restores

Finish(r) ==
    /\ Active(r)
    /\ rest[r].phase = "files"
    /\ ~rest[r].open
    /\ rest[r].todo = {}
    /\ SetRestore(r, End(rest[r], "done"))
    /\ UNCHANGED <<vars, dest, restores>>

\* a request to the store or a write to the restored file fails, or the process
\* is killed
RestoreError(r) ==
    /\ Active(r)
    /\ Fault
    /\ SetRestore(r, End(rest[r], "stopped"))
    /\ UNCHANGED <<files, put, late, sess, started, dest, restores>>

-----------------------------------------------------------------------------
RestoreStep(r) ==
    \/ GetObject(r)
    \/ GetOpen(r)
    \/ GetRead(r)
    \/ OpenDest(r)
    \/ CloseDest(r)
    \/ Finish(r)

\* A file that is removed while it is open stays readable for who has it open.
Removed(s) ==
    IF s.fd = "yes" /\ ObjectPath(s) \notin DOMAIN files'
    THEN [s EXCEPT !.fd = "orphan", !.old = files[ObjectPath(s)]]
    ELSE s

BackupStep ==
    /\ Next
    /\ rest' = [r \in DOMAIN rest |-> Removed(rest[r])]
    /\ UNCHANGED <<dest, restores>>

RestoreInit ==
    /\ Init
    /\ rest = EmptyFcn
    /\ dest = [r \in Reader |-> [p \in Existing |-> <<Corrupt>>]]
    /\ restores = 0

RestoreNext ==
    \/ BackupStep
    \/ \E r \in Reader :
          \/ \E n \in Name : DownloadFiles(r, n)
          \/ StopRestore(r)
          \/ RestoreStep(r)
          \/ RestoreError(r)

allVars == <<vars, restVars>>

RestoreSpec == RestoreInit /\ [][RestoreNext]_allVars

\* A process that is not killed keeps running.
FairRestoreSpec == RestoreSpec /\ \A r \in Reader : WF_allVars(RestoreStep(r))

-----------------------------------------------------------------------------
(* Properties *)

\* With or without --no-verify, and whatever backups truncate, overwrite,
\* remove or leave unfinished under the reader: a restored file is at every
\* moment the beginning of what was backed up, and all of it when downloadFile
\* returned, unless fclose failed and nothing was verified.  A restore that
\* ends normally has dealt with every file of the snapshot.
AsRecorded ==
    \A r \in DOMAIN rest :
        LET s == rest[r]
        IN  /\ s.open => IsPrefix(dest[r][s.path], Entry(s).md5)
            /\ \A p \in s.ok \ s.unflushed : dest[r][p] = s.snap[p].md5
            /\ s.phase = "done" => DOMAIN s.snap = s.ok \cup s.kept

\* A restore of a snapshot that was there when it began finds the snapshot and
\* all its objects, and all of them verify, also when backups fail, are killed,
\* or commit under the same name meanwhile.
RestoreSucceeds == \A r \in DOMAIN rest : rest[r].phase = "threw" => ~rest[r].there

\* Every restore ends, on objects that are being written too.
RestoresEnd == \A r \in Reader : Active(r) ~> ~Active(r)

-----------------------------------------------------------------------------
(***************************************************************************)
(* Why restores succeed on S3 when no file is packed: what SafeBlocks says *)
(* of the snapshots in the store also holds of one that was loaded, even   *)
(* when its name stands for another one since, and the restored file keeps *)
(* pace with the blocks.                                                   *)
(***************************************************************************)
RestoreFields ==
    {"name", "there", "phase", "cancelled", "snap", "todo", "ok", "unflushed", "kept",
     "open", "path", "block", "fd", "old", "tmp"}

\* every file of the snapshot is in one place
SafeProgress(s) ==
    /\ s.todo \cap s.ok = {}
    /\ s.open => s.path \in DOMAIN s.snap \ (s.todo \cup s.ok)
    /\ s.phase = "load" => s.ok = {} /\ s.kept = {} /\ ~s.open
    /\ s.phase = "files" =>
          DOMAIN s.snap = s.todo \cup s.ok \cup s.kept \cup (IF s.open THEN {s.path} ELSE {})
    /\ s.phase = "done" => DOMAIN s.snap = s.ok \cup s.kept

\* a directory d holds what was restored, and the beginning of the open file
SafeDirectory(s, d) ==
    /\ s.ok \subseteq DOMAIN d
    /\ \A p \in s.ok \ s.unflushed : d[p] = s.snap[p].md5
    /\ s.open =>
          /\ s.path \in DOMAIN d
          /\ d[s.path] \in Seq(Bytes)
          /\ Len(d[s.path]) <= Len(Entry(s).md5)
          /\ \A i \in 1..Len(d[s.path]) : d[s.path][i] = Entry(s).md5[i]
          /\ s.phase = "files" => s.block = Len(d[s.path])

\* what was restored is right, the objects that are to be read being in stored
SafeWritten(s, d, stored) ==
    /\ DOMAIN s = RestoreFields
    /\ s.phase \in {"load", "files", "done", "threw", "stopped"}
    /\ s.open \in BOOLEAN
    /\ SafeSnapshot(s.snap, stored)
    /\ SafeProgress(s)
    /\ SafeDirectory(s, d)

SafeRestore(s, d, stored) ==
    /\ SafeWritten(s, d, stored)
    /\ s.fd = "no"
    /\ s.there => SnapshotPath(s.name) \in stored /\ s.phase # "threw"

\* All a restore still needs is in the store, and all it wrote is right.
SafeRestores ==
    /\ DOMAIN dest = Reader
    /\ DOMAIN rest \subseteq Reader
    /\ \A r \in DOMAIN rest : SafeRestore(rest[r], dest[r], DOMAIN files)

=============================================================================
