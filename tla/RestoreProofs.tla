--------------------------- MODULE RestoreProofs ---------------------------
(***************************************************************************)
(* Proofs about Restore when no file is packed, for any number of backups, *)
(* restores, clients, readers and faults: on either backend what is        *)
(* restored is right, and on S3 a restore finds all that it needs.         *)
(***************************************************************************)
EXTENDS Restore, ReferenceProofs

-----------------------------------------------------------------------------
(***************************************************************************)
(* Why what is restored is right on either backend, when no file is        *)
(* packed: whatever chunk a reader may find at a path was sealed for that  *)
(* path, or nobody wrote it, and only a whole seal verifies.  Nothing is   *)
(* said of what is stored, so entries may refer to any data object.        *)
(***************************************************************************)
AnyData == {"data"} \X Bytes

\* a chunk of a seal made for path
CellOf(path, cell) ==
    cell = Hole \/ SafeObject(path, compressEncryptHMAC(cell.by, cell.pay), AnyData)

CellsOf(path, cells) ==
    /\ Len(cells) \in Nat
    /\ cells = [k \in 1..Len(cells) |-> cells[k]]
    /\ \A k \in 1..Len(cells) : CellOf(path, cells[k])

SafeCells ==
    /\ \A p \in DOMAIN files : CellsOf(p, files[p])
    /\ \A c \in DOMAIN put : SafeObject(put[c].path, put[c].data, AnyData)
    /\ \A t \in late : SafeObject(t.path, t.data, AnyData)
    /\ \A c \in DOMAIN sess : SafeSession(sess[c], AnyData)

\* a get() has read chunks of what it was asked for
SafeReading(s) ==
    /\ s.fd \in {"no", "yes", "orphan"}
    /\ IF s.fd = "no"
       THEN s.tmp = <<>>
       ELSE /\ s.phase \in {"load", "files"}
            /\ BlocksToGet(s)
            /\ CellsOf(ObjectPath(s), s.tmp)
            /\ IF s.fd = "yes" THEN ObjectPath(s) \in DOMAIN files
                               ELSE CellsOf(ObjectPath(s), s.old)

SafeReads ==
    /\ DOMAIN dest = Reader
    /\ DOMAIN rest \subseteq Reader
    /\ \A r \in DOMAIN rest : SafeWritten(rest[r], dest[r], AnyData) /\ SafeReading(rest[r])

-----------------------------------------------------------------------------

-----------------------------------------------------------------------------
(* What restores leave alone *)

\* The steps of restores that touch the repository's variables
ReadOnly ==
    /\ UNCHANGED <<files, put, late, sess, started>>
    /\ UNCHANGED faults \/ Fault

\* A restore changes nothing in the repository; its failures are counted.
LEMMA RestoresReadOnly ==
    ASSUME NEW r,
           \/ \E n \in Name : DownloadFiles(r, n)
           \/ StopRestore(r)
           \/ RestoreStep(r)
           \/ RestoreError(r)
    PROVE  ReadOnly
<1>1. UNCHANGED vars => ReadOnly
  BY DEF ReadOnly, vars
<1>2. CASE \E n \in Name : DownloadFiles(r, n)
  BY <1>1, <1>2 DEF DownloadFiles
<1>3. CASE StopRestore(r)
  BY <1>1, <1>3 DEF StopRestore
<1>4. CASE GetObject(r) \/ GetOpen(r) \/ GetRead(r) \/ OpenDest(r) \/ Finish(r)
  BY <1>1, <1>4 DEF GetObject, GetOpen, GetRead, OpenDest, Finish
<1>5. CASE CloseDest(r)
  BY <1>1, <1>5 DEF CloseDest, ReadOnly
<1>6. CASE RestoreError(r)
  BY <1>6 DEF RestoreError, ReadOnly
<1> QED
  BY <1>2, <1>3, <1>4, <1>5, <1>6 DEF RestoreStep

\* Every step of a restore or of a backup, as the repository sees it
LEMMA RepositorySteps ==
    ASSUME [RestoreNext]_allVars
    PROVE  [Next]_vars \/ ReadOnly
<1>1. CASE UNCHANGED allVars
  BY <1>1 DEF allVars
<1>2. CASE BackupStep
  BY <1>2 DEF BackupStep
<1> QED
  BY <1>1, <1>2, RestoresReadOnly DEF RestoreNext

\* Restores leave the types of the repository's state alone.
LEMMA ReadOnlyTypes ==
    ASSUME TypeOK, ReadOnly
    PROVE  TypeOK'
<1>1. faults' \in 0..MaxFaults
  BY MaxFaultsAssumption DEF ReadOnly, Fault, TypeOK, StoreOK
<1> QED
  BY <1>1 DEF ReadOnly, TypeOK, StoreOK

-----------------------------------------------------------------------------
(***************************************************************************)
(* What a restore writes, wherever it reads from: stored stands for the    *)
(* objects that its snapshot may refer to.                                 *)
(***************************************************************************)

\* a restore between two calls of get()
Ready(s) == [s EXCEPT !.fd = "no", !.old = <<>>, !.tmp = <<>>]

\* a restore that has read its snapshot
Loaded(s, snap) == [Ready(s) EXCEPT !.phase = "files", !.snap = snap, !.todo = DOMAIN snap]

\* the step of r changes nothing of the other restores
Alone(r) ==
    /\ DOMAIN rest' = DOMAIN rest
    /\ DOMAIN dest' = DOMAIN dest
    /\ \A q \in DOMAIN rest \ {r} : rest'[q] = rest[q] /\ dest'[q] = dest[q]

\* what a restore is asked for, and the get() in progress, stay as they are
SameRead(s, t) ==
    /\ t.name = s.name /\ t.there = s.there
    /\ t.fd = s.fd /\ t.old = s.old /\ t.tmp = s.tmp

\* what is known of the files to restore stays as it is
SameFiles(s, t) ==
    /\ t.phase = s.phase /\ t.snap = s.snap /\ t.todo = s.todo
    /\ t.ok = s.ok /\ t.unflushed = s.unflushed /\ t.kept = s.kept
    /\ t.open = s.open /\ t.path = s.path /\ t.block = s.block

\* What was written stays right while an object is read.
LEMMA SameWritten ==
    ASSUME NEW s, NEW d, NEW stored, SafeWritten(s, d, stored),
           NEW t, DOMAIN t = RestoreFields, SameFiles(s, t)
    PROVE  SafeWritten(t, d, stored)
<1>1. SafeProgress(t)
  BY DEF SafeProgress, SafeWritten, SameFiles
<1>2. SafeDirectory(t, d)
  BY DEF SafeDirectory, Entry, SafeWritten, SameFiles
<1> QED
  BY <1>1, <1>2 DEF SafeWritten, SameFiles

\* A restore that is over wrote nothing wrong.
LEMMA EndWritten ==
    ASSUME NEW s, NEW d, NEW stored, SafeWritten(s, d, stored), NEW how \in {"threw", "stopped"}
    PROVE  LET t == End(s, how)
           IN  /\ SafeWritten(t, d, stored)
               /\ t.phase = how /\ t.name = s.name /\ t.there = s.there
               /\ t.fd = "no" /\ t.tmp = <<>>
<1> DEFINE t == End(s, how)
<1>1. /\ DOMAIN t = RestoreFields /\ t.phase = how /\ t.fd = "no" /\ t.tmp = <<>>
      /\ t.name = s.name /\ t.there = s.there /\ t.snap = s.snap /\ t.todo = s.todo
      /\ t.ok = s.ok /\ t.unflushed = s.unflushed /\ t.kept = s.kept
      /\ t.open = s.open /\ t.path = s.path /\ t.block = s.block
  BY DEF End, SafeWritten, RestoreFields
<1>2. SafeProgress(t)
  BY <1>1 DEF SafeWritten, SafeProgress
<1>3. SafeDirectory(t, d)
  BY <1>1 DEF SafeWritten, SafeDirectory, Entry
<1> QED
  BY <1>1, <1>2, <1>3 DEF SafeWritten

\* More objects in the store do a restore no harm.
LEMMA WrittenGrows ==
    ASSUME NEW s, NEW d, NEW stored, NEW more, stored \subseteq more,
           SafeWritten(s, d, stored)
    PROVE  SafeWritten(s, d, more)
BY SafetyGrows DEF SafeWritten

\* The end of a get() leaves what was written alone.
LEMMA ReadyWritten ==
    ASSUME NEW s, NEW d, NEW stored, SafeWritten(s, d, stored)
    PROVE  LET t == Ready(s)
           IN  /\ SafeWritten(t, d, stored) /\ DOMAIN t = RestoreFields /\ SameFiles(s, t)
               /\ t.name = s.name /\ t.there = s.there /\ t.fd = "no" /\ t.tmp = <<>>
<1> DEFINE t == Ready(s)
<1>1. /\ DOMAIN t = RestoreFields /\ SameFiles(s, t)
      /\ t.name = s.name /\ t.there = s.there /\ t.fd = "no" /\ t.tmp = <<>>
  BY DEF SafeWritten, RestoreFields, Ready, SameFiles
<1> HIDE DEF t
<1>2. SafeWritten(t, d, stored)
  BY <1>1, SameWritten
<1> QED
  BY <1>1, <1>2 DEF t

\* A snapshot that was read is safe to work through.
LEMMA SnapshotWritten ==
    ASSUME NEW s, NEW d, NEW stored, SafeWritten(s, d, stored), s.phase = "load",
           NEW snap, SafeSnapshot(snap, stored)
    PROVE  LET u == Loaded(s, snap)
           IN  /\ SafeWritten(u, d, stored)
               /\ u.phase = "files" /\ u.name = s.name /\ u.there = s.there
               /\ u.fd = "no" /\ u.tmp = <<>>
<1> DEFINE t == Ready(s)
           u == [t EXCEPT !.phase = "files", !.snap = snap, !.todo = DOMAIN snap]
<1>1. /\ DOMAIN t = RestoreFields /\ SameFiles(s, t)
      /\ t.name = s.name /\ t.there = s.there /\ t.fd = "no" /\ t.tmp = <<>>
  BY ReadyWritten
<1> HIDE DEF t
<1>2. /\ DOMAIN u = RestoreFields /\ u.phase = "files" /\ u.fd = "no" /\ u.tmp = <<>>
      /\ u.name = s.name /\ u.there = s.there /\ u.snap = snap /\ u.todo = DOMAIN snap
      /\ u.ok = s.ok /\ u.unflushed = s.unflushed /\ u.kept = s.kept
      /\ u.open = s.open /\ u.path = s.path /\ u.block = s.block
  BY <1>1 DEF RestoreFields, SameFiles
<1>3. s.ok = {} /\ s.kept = {} /\ ~s.open /\ s.open \in BOOLEAN
  BY DEF SafeProgress, SafeWritten
<1> HIDE DEF u
<1>4. SafeProgress(u)
  BY <1>2, <1>3 DEF SafeProgress
<1>5. SafeDirectory(u, d)
  BY <1>2, <1>3 DEF SafeDirectory
<1>6. SafeWritten(u, d, stored)
  BY <1>2, <1>3, <1>4, <1>5 DEF SafeWritten
<1> QED
  BY <1>2, <1>6 DEF u, t, Loaded

\* The next block, appended to the open file, is where it should be.
LEMMA BlockWritten ==
    ASSUME NEW s, NEW d, NEW stored, SafeWritten(s, d, stored),
           s.phase = "files", BlocksToGet(s),
           NEW piece, piece = Entry(s).md5[s.block + 1]
    PROVE  LET u == [Ready(s) EXCEPT !.block = @ + 1]
               f == [d EXCEPT ![s.path] = Append(@, piece)]
           IN  /\ SafeWritten(u, f, stored)
               /\ u.phase = "files" /\ u.name = s.name /\ u.there = s.there
               /\ u.fd = "no" /\ u.tmp = <<>>
<1> DEFINE e == Entry(s)
           i == s.block + 1
           t == Ready(s)
           u == [t EXCEPT !.block = @ + 1]
           f == [d EXCEPT ![s.path] = Append(@, piece)]
<1>1. s.open /\ s.block < Len(e.ids)
  BY DEF BlocksToGet
<1>2. /\ s.path \in DOMAIN s.snap /\ s.path \in DOMAIN d
      /\ SafeEntry(e, stored)
      /\ d[s.path] \in Seq(Bytes) /\ s.block = Len(d[s.path])
      /\ \A j \in 1..Len(d[s.path]) : d[s.path][j] = e.md5[j]
  BY <1>1 DEF SafeWritten, SafeProgress, SafeDirectory, SafeSnapshot, Entry
<1>3. e.md5 \in Seq(Bytes) /\ Len(e.ids) = Len(e.md5)
  BY <1>2 DEF SafeEntry
<1>4. i \in 1..Len(e.md5) /\ piece \in Bytes
  BY <1>1, <1>2, <1>3
<1>5. /\ DOMAIN t = RestoreFields /\ SameFiles(s, t)
      /\ t.name = s.name /\ t.there = s.there /\ t.fd = "no" /\ t.tmp = <<>>
  BY ReadyWritten
<1> HIDE DEF t
<1>6. /\ DOMAIN u = RestoreFields /\ u.phase = "files" /\ u.fd = "no" /\ u.tmp = <<>>
      /\ u.name = s.name /\ u.there = s.there /\ u.snap = s.snap /\ u.todo = s.todo
      /\ u.ok = s.ok /\ u.unflushed = s.unflushed /\ u.kept = s.kept
      /\ u.open = s.open /\ u.path = s.path /\ u.block = i
  BY <1>5 DEF RestoreFields, SameFiles
<1>7. /\ DOMAIN f = DOMAIN d
      /\ f[s.path] = Append(d[s.path], piece)
      /\ \A p \in DOMAIN d \ {s.path} : f[p] = d[p]
  BY <1>2
<1> HIDE DEF u, f
<1>8. SafeProgress(u)
  BY <1>6 DEF SafeProgress, SafeWritten
<1>9. SafeDirectory(u, f)
  <2>1. /\ u.ok \subseteq DOMAIN f
        /\ \A p \in u.ok \ u.unflushed : f[p] = u.snap[p].md5
    BY <1>1, <1>6, <1>7 DEF SafeWritten, SafeDirectory, SafeProgress
  <2>2. /\ f[u.path] \in Seq(Bytes) /\ Len(f[u.path]) = i
        /\ \A j \in 1..i : f[u.path][j] = e.md5[j]
    BY <1>2, <1>4, <1>6, <1>7
  <2>3. Entry(u) = e
    BY <1>6 DEF Entry
  <2>4. u.path \in DOMAIN f /\ u.block = Len(f[u.path])
    BY <1>2, <1>6, <1>7, <2>2
  <2>5. Len(f[u.path]) <= Len(e.md5)
    BY <1>3, <1>4, <2>2
  <2> HIDE DEF i, e
  <2> QED
    BY <2>1, <2>2, <2>3, <2>4, <2>5 DEF SafeDirectory
<1>10. SafeWritten(u, f, stored)
  BY <1>6, <1>8, <1>9 DEF SafeWritten
<1> QED
  BY <1>6, <1>10 DEF u, f, t

\* The next file is opened, or kept because it exists.
LEMMA OpenWritten ==
    ASSUME NEW r \in DOMAIN rest, r \in DOMAIN dest, NEW stored,
           SafeWritten(rest[r], dest[r], stored), OpenDest(r)
    PROVE  /\ Alone(r) /\ SafeWritten(rest'[r], dest'[r], stored)
           /\ rest'[r].phase = "files" /\ SameRead(rest[r], rest'[r])
<1> DEFINE s == rest[r]
           d == dest[r]
<1>1. /\ DOMAIN s = RestoreFields /\ s.phase = "files" /\ ~s.open
      /\ SafeSnapshot(s.snap, stored) /\ SafeProgress(s) /\ SafeDirectory(s, d)
  BY DEF SafeWritten, OpenDest
<1>2. PICK p \in s.todo :
          \/ SetRestore(r, FileOpened(s, p)) /\ dest' = [dest EXCEPT ![r] = With(d, p, <<>>)]
          \/ /\ SetRestore(r, [s EXCEPT !.todo = @ \ {p}, !.kept = @ \cup {p}])
             /\ UNCHANGED dest
  BY DEF OpenDest
<1>3. p \in DOMAIN s.snap /\ p \notin s.ok
  BY <1>1 DEF SafeProgress
<1>4. CASE /\ SetRestore(r, FileOpened(s, p))
           /\ dest' = [dest EXCEPT ![r] = With(d, p, <<>>)]
  <2> DEFINE u == FileOpened(s, p)
             f == With(d, p, <<>>)
  <2>1. /\ DOMAIN u = RestoreFields /\ u.phase = "files" /\ SameRead(s, u)
        /\ u.snap = s.snap /\ u.todo = s.todo \ {p}
        /\ u.ok = s.ok /\ u.unflushed = s.unflushed /\ u.kept = s.kept
        /\ u.open = TRUE /\ u.path = p /\ u.block = 0
    BY <1>1 DEF FileOpened, RestoreFields, SameRead
  <2>2. /\ DOMAIN f = DOMAIN d \cup {p} /\ f[p] = <<>>
        /\ \A q \in DOMAIN d \ {p} : f[q] = d[q]
    BY DEF With
  <2> HIDE DEF u, f
  <2>3. SafeProgress(u)
    BY <1>1, <1>3, <2>1 DEF SafeProgress
  <2>4. SafeDirectory(u, f)
    <3>1. /\ u.ok \subseteq DOMAIN f
          /\ \A q \in u.ok \ u.unflushed : f[q] = u.snap[q].md5
      BY <1>1, <1>3, <2>1, <2>2 DEF SafeDirectory
    <3>2. SafeEntry(Entry(u), stored)
      BY <1>1, <1>3, <2>1 DEF SafeSnapshot, Entry
    <3>3. Entry(u).md5 \in Seq(Bytes)
      BY <3>2 DEF SafeEntry
    <3> QED
      BY <2>1, <2>2, <3>1, <3>3 DEF SafeDirectory
  <2>5. SafeWritten(u, f, stored)
    BY <1>1, <2>1, <2>3, <2>4 DEF SafeWritten
  <2>6. rest'[r] = u /\ dest'[r] = f
    BY <1>4 DEF SetRestore, u, f
  <2>7. Alone(r)
    BY <1>4 DEF SetRestore, Alone
  <2> QED
    BY <2>1, <2>5, <2>6, <2>7
<1>5. CASE /\ SetRestore(r, [s EXCEPT !.todo = @ \ {p}, !.kept = @ \cup {p}])
           /\ UNCHANGED dest
  <2> DEFINE u == [s EXCEPT !.todo = @ \ {p}, !.kept = @ \cup {p}]
  <2>1. /\ DOMAIN u = RestoreFields /\ u.phase = "files" /\ SameRead(s, u)
        /\ u.snap = s.snap /\ u.todo = s.todo \ {p}
        /\ u.ok = s.ok /\ u.unflushed = s.unflushed /\ u.kept = s.kept \cup {p}
        /\ u.open = s.open /\ u.path = s.path /\ u.block = s.block
    BY <1>1 DEF RestoreFields, SameRead
  <2> HIDE DEF u
  <2>2. SafeProgress(u)
    BY <1>1, <1>3, <2>1 DEF SafeProgress
  <2>3. SafeDirectory(u, d)
    BY <1>1, <2>1 DEF SafeDirectory
  <2>4. SafeWritten(u, d, stored)
    BY <1>1, <2>1, <2>2, <2>3 DEF SafeWritten
  <2>5. rest'[r] = u /\ dest'[r] = d
    BY <1>5 DEF SetRestore, u
  <2>6. Alone(r)
    BY <1>5 DEF SetRestore, Alone
  <2> QED
    BY <2>1, <2>4, <2>5, <2>6
<1> QED
  BY <1>2, <1>4, <1>5

\* The file is closed when all its blocks are there.
LEMMA CloseWritten ==
    ASSUME NEW r \in DOMAIN rest, r \in DOMAIN dest, NEW stored,
           SafeWritten(rest[r], dest[r], stored), CloseDest(r), rest[r].fd = "no"
    PROVE  /\ Alone(r) /\ SafeWritten(rest'[r], dest'[r], stored)
           /\ rest'[r].phase \in {"files", "stopped"}
           /\ rest'[r].name = rest[r].name /\ rest'[r].there = rest[r].there
           /\ rest'[r].fd = "no" /\ rest'[r].tmp \in {rest[r].tmp, <<>>}
<1> DEFINE s == rest[r]
           d == dest[r]
           e == Entry(s)
           whole == d[s.path]
<1>1. /\ DOMAIN s = RestoreFields /\ s.phase = "files" /\ s.open
      /\ SafeSnapshot(s.snap, stored) /\ SafeProgress(s) /\ SafeDirectory(s, d)
  BY DEF SafeWritten, CloseDest
<1>2. /\ s.path \in DOMAIN s.snap \ (s.todo \cup s.ok) /\ s.path \in DOMAIN d
      /\ whole \in Seq(Bytes) /\ Len(whole) <= Len(e.md5) /\ s.block = Len(whole)
      /\ \A i \in 1..Len(whole) : whole[i] = e.md5[i]
  BY <1>1 DEF SafeProgress, SafeDirectory
<1>3. SafeEntry(e, stored)
  BY <1>1, <1>2 DEF SafeSnapshot, Entry
<1>4. e.ids \in Seq(Bytes) /\ e.md5 \in Seq(Bytes) /\ Len(e.ids) = Len(e.md5)
  BY <1>3 DEF SafeEntry
<1>5. Len(whole) = Len(e.md5)
  BY <1>1, <1>2, <1>4 DEF CloseDest, BlocksToGet
<1>6. whole = e.md5
  BY <1>2, <1>4, <1>5
<1>7. PICK content \in Seq(Bytes), lost \in {{}, {s.path}} :
          /\ Closed(r, content, lost)
          /\ lost = {} => content = whole
          /\ Len(content) <= Len(whole)
          /\ \A i \in 1..Len(content) : content[i] = e.md5[i]
  <2>1. CASE Closed(r, whole, {})
    BY <1>2, <2>1
  <2>2. CASE whole # <<>> /\ Closed(r, Front(whole), {s.path})
    <3>1. /\ Front(whole) \in Seq(Bytes)
          /\ Len(Front(whole)) <= Len(whole)
          /\ \A i \in 1..Len(Front(whole)) : Front(whole)[i] = whole[i]
      BY <1>2, <2>2 DEF Front
    <3>2. \A i \in 1..Len(Front(whole)) : Front(whole)[i] = e.md5[i]
      BY <1>2, <3>1
    <3>3. {s.path} # {} /\ {s.path} \in {{}, {s.path}}
      OBVIOUS
    <3> DEFINE content == Front(whole)
    <3>4. /\ content \in Seq(Bytes) /\ Len(content) <= Len(whole)
          /\ \A i \in 1..Len(content) : content[i] = e.md5[i]
          /\ Closed(r, content, {s.path})
      BY <2>2, <3>1, <3>2
    <3> HIDE DEF whole, content, s, e
    <3> QED
      BY <3>3, <3>4
  <2> QED
    BY <2>1, <2>2 DEF CloseDest
<1> DEFINE f == [d EXCEPT ![s.path] = content]
           u == [s EXCEPT !.open = FALSE, !.ok = @ \cup {s.path},
                          !.unflushed = @ \cup lost]
<1>8. /\ dest' = [dest EXCEPT ![r] = f]
      /\ SetRestore(r, End(s, "stopped")) \/ SetRestore(r, u)
  BY <1>7 DEF Closed
<1>9. /\ DOMAIN f = DOMAIN d /\ f[s.path] = content
      /\ \A p \in DOMAIN d \ {s.path} : f[p] = d[p]
  BY <1>2
<1>10. /\ DOMAIN u = RestoreFields /\ u.phase = "files" /\ u.fd = s.fd /\ u.tmp = s.tmp
       /\ u.name = s.name /\ u.there = s.there /\ u.snap = s.snap /\ u.todo = s.todo
       /\ u.ok = s.ok \cup {s.path} /\ u.unflushed = s.unflushed \cup lost
       /\ u.kept = s.kept /\ u.open = FALSE /\ u.path = s.path
  BY <1>1 DEF RestoreFields
<1>11. dest'[r] = f /\ Alone(r)
  BY <1>8 DEF SetRestore, Alone
<1> HIDE DEF u, f, whole
<1>12. CASE SetRestore(r, u)
  <2>1. SafeProgress(u)
    BY <1>1, <1>2, <1>10 DEF SafeProgress
  <2>2. ASSUME NEW p \in u.ok \ u.unflushed
        PROVE  f[p] = u.snap[p].md5
    <3>1. CASE p = s.path
      <4>1. lost = {}
        BY <1>7, <1>10, <3>1
      <4> QED
        BY <1>6, <1>7, <1>9, <1>10, <3>1, <4>1 DEF Entry
    <3>2. CASE p # s.path
      BY <1>1, <1>9, <1>10, <3>2 DEF SafeDirectory
    <3> QED
      BY <3>1, <3>2
  <2>3. SafeDirectory(u, f)
    BY <1>1, <1>2, <1>9, <1>10, <2>2 DEF SafeDirectory
  <2>4. SafeWritten(u, f, stored)
    BY <1>1, <1>10, <2>1, <2>3 DEF SafeWritten
  <2>5. rest'[r] = u
    BY <1>12 DEF SetRestore
  <2> QED
    BY <1>10, <1>11, <2>4, <2>5
<1>13. CASE SetRestore(r, End(s, "stopped"))
  <2> DEFINE t == End(s, "stopped")
  <2>1. /\ SafeWritten(t, d, stored) /\ t.phase = "stopped"
        /\ t.name = s.name /\ t.there = s.there /\ t.fd = "no" /\ t.tmp = <<>>
    BY EndWritten
  <2>2. /\ t.open = s.open /\ t.path = s.path /\ t.ok = s.ok /\ t.unflushed = s.unflushed
        /\ t.snap = s.snap
    BY <1>1 DEF End, RestoreFields
  <2> HIDE DEF t
  <2>3. SafeDirectory(t, f)
    <3>1. \A p \in t.ok : p # s.path /\ p \in DOMAIN d /\ f[p] = d[p]
      BY <1>1, <1>2, <1>9, <2>2 DEF SafeDirectory
    <3>2. Entry(t) = e
      BY <2>2 DEF Entry
    <3>3. Len(content) <= Len(e.md5)
      BY <1>5, <1>7
    <3> QED
      BY <1>1, <1>2, <1>7, <1>9, <2>1, <2>2, <3>1, <3>2, <3>3 DEF SafeDirectory
  <2>4. SafeWritten(t, f, stored)
    BY <2>1, <2>3 DEF SafeWritten
  <2>5. rest'[r] = t
    BY <1>13 DEF SetRestore, t
  <2> QED
    BY <1>11, <2>1, <2>4, <2>5
<1> QED
  BY <1>8, <1>12, <1>13

\* A restore that begins has written nothing.
LEMMA StartWritten ==
    ASSUME NEW n, NEW d, NEW stored
    PROVE  /\ SafeWritten(RestoreOf(n), d, stored)
           /\ RestoreOf(n).phase = "load" /\ RestoreOf(n).fd = "no" /\ RestoreOf(n).tmp = <<>>
           /\ RestoreOf(n).name = n /\ RestoreOf(n).there = Committed(n)
<1> DEFINE s == RestoreOf(n)
<1>1. /\ DOMAIN s = RestoreFields /\ s.phase = "load" /\ s.fd = "no" /\ s.name = n
      /\ s.there = Committed(n) /\ s.snap = EmptyFcn /\ s.todo = {} /\ s.ok = {}
      /\ s.unflushed = {} /\ s.kept = {} /\ s.open = FALSE /\ s.tmp = <<>>
  BY DEF RestoreOf, RestoreFields
<1> HIDE DEF s
<1>2. SafeSnapshot(s.snap, stored)
  BY <1>1 DEF SafeSnapshot, EmptyFcn
<1>3. SafeProgress(s) /\ SafeDirectory(s, d)
  BY <1>1 DEF SafeProgress, SafeDirectory
<1>4. SafeWritten(s, d, stored)
  BY <1>1, <1>2, <1>3 DEF SafeWritten
<1> QED
  BY <1>1, <1>4 DEF s

\* A request to stop changes a flag.
LEMMA StopWritten ==
    ASSUME NEW s, NEW d, NEW stored, SafeWritten(s, d, stored)
    PROVE  LET t == [s EXCEPT !.cancelled = TRUE]
           IN  SafeWritten(t, d, stored) /\ SameRead(s, t) /\ SameFiles(s, t)
<1> DEFINE t == [s EXCEPT !.cancelled = TRUE]
<1>1. DOMAIN t = RestoreFields /\ SameRead(s, t) /\ SameFiles(s, t)
  BY DEF SafeWritten, RestoreFields, SameRead, SameFiles
<1> HIDE DEF t
<1>2. SafeWritten(t, d, stored)
  BY <1>1, SameWritten
<1> QED
  BY <1>1, <1>2 DEF t

\* A restore without files left is done.
LEMMA FinishWritten ==
    ASSUME NEW s, NEW d, NEW stored, SafeWritten(s, d, stored),
           s.phase = "files", ~s.open, s.todo = {}
    PROVE  LET t == End(s, "done")
           IN  /\ SafeWritten(t, d, stored) /\ t.phase = "done"
               /\ t.name = s.name /\ t.there = s.there /\ t.fd = "no" /\ t.tmp = <<>>
<1> DEFINE t == End(s, "done")
<1>1. /\ DOMAIN t = RestoreFields /\ t.phase = "done" /\ t.fd = "no" /\ t.tmp = <<>>
      /\ t.name = s.name /\ t.there = s.there /\ t.snap = s.snap /\ t.todo = s.todo
      /\ t.ok = s.ok /\ t.unflushed = s.unflushed /\ t.kept = s.kept
      /\ t.open = s.open /\ t.path = s.path /\ t.block = s.block
  BY DEF SafeWritten, RestoreFields, End
<1> HIDE DEF t
<1>2. SafeProgress(t)
  BY <1>1 DEF SafeWritten, SafeProgress
<1>3. SafeDirectory(t, d)
  BY <1>1 DEF SafeWritten, SafeDirectory
<1>4. SafeWritten(t, d, stored)
  BY <1>1, <1>2, <1>3 DEF SafeWritten
<1> QED
  BY <1>1, <1>4 DEF t

-----------------------------------------------------------------------------
(* What can be read at a path, on either backend, when no file is packed *)

\* A safe object consists of chunks of a safe seal: itself.
LEMMA ObjectCells ==
    ASSUME NEW path, NEW cells, SafeObject(path, cells, AnyData)
    PROVE  CellsOf(path, cells)
<1> DEFINE by == cells[1].by
           pay == cells[1].pay
<1>1. cells = compressEncryptHMAC(by, pay)
  BY DEF SafeObject, VerifiesHMAC
<1>2. SealLength(pay) \in Nat
  <2>1. pay.kind = "snapshot" \/ (pay.kind = "block" /\ pay.data \in Bytes)
    BY DEF SafeObject
  <2> QED
    BY <2>1 DEF SealLength, Bytes
<1> HIDE DEF by, pay
<1>3. /\ Len(cells) = SealLength(pay) /\ cells = [k \in 1..SealLength(pay) |-> cells[k]]
      /\ \A k \in 1..SealLength(pay) : cells[k].by = by /\ cells[k].pay = pay
  BY <1>1, <1>2 DEF compressEncryptHMAC
<1>4. ASSUME NEW k \in 1..SealLength(pay)
      PROVE  CellOf(path, cells[k])
  <2>1. compressEncryptHMAC(cells[k].by, cells[k].pay) = cells
    BY <1>1, <1>3
  <2> QED
    BY <2>1 DEF CellOf
<1> QED
  BY <1>2, <1>3, <1>4 DEF CellsOf

\* Chunks that verify together are a safe object: holes do not, and chunks of
\* other seals are not found here.
LEMMA VerifiedSafe ==
    ASSUME NEW path, NEW cells, CellsOf(path, cells), VerifiesHMAC(cells)
    PROVE  SafeObject(path, cells, AnyData)
<1> DEFINE by == cells[1].by
           pay == cells[1].pay
<1>1. cells = compressEncryptHMAC(by, pay) /\ cells # <<>>
  BY DEF VerifiesHMAC
<1> HIDE DEF by, pay
<1>2. 1 \in DOMAIN cells
  <2>1. cells = [k \in 1..SealLength(pay) |-> [by |-> by, pay |-> pay, part |-> k]]
    BY <1>1 DEF compressEncryptHMAC
  <2>2. Len(cells) \in Nat /\ DOMAIN cells = 1..Len(cells)
    BY DEF CellsOf
  <2>3. ASSUME Len(cells) = 0
        PROVE  FALSE
    <3>1. DOMAIN cells = {}
      BY <2>2, <2>3
    <3>2. 1..SealLength(pay) = {}
      BY <2>1, <3>1
    <3>3. [k \in 1..SealLength(pay) |-> [by |-> by, pay |-> pay, part |-> k]] = <<>>
      BY <3>2
    <3> QED
      BY <1>1, <2>1, <3>3
  <2> QED
    BY <2>2, <2>3
<1>3. cells[1].part = 1
  <2>1. DOMAIN cells = 1..SealLength(pay)
    BY <1>1 DEF compressEncryptHMAC
  <2>2. 1 \in 1..SealLength(pay)
    BY <1>2, <2>1
  <2> QED
    BY <1>1, <2>2 DEF compressEncryptHMAC
<1>4. cells[1] # Hole
  BY <1>3 DEF Hole
<1>5. CellOf(path, cells[1])
  BY <1>2 DEF CellsOf
<1> QED
  BY <1>1, <1>4, <1>5 DEF CellOf, by, pay

\* A chunk of a safe object, written anywhere, leaves safe chunks and holes.
LEMMA WriteCells ==
    ASSUME NEW path, NEW cells, NEW data, CellsOf(path, cells), SafeObject(path, data, AnyData),
           NEW k \in Nat, k < Len(data)
    PROVE  CellsOf(path, WriteAt(cells, k + 1, data[k + 1]))
<1> DEFINE n == IF k + 1 > Len(cells) THEN k + 1 ELSE Len(cells)
           w == WriteAt(cells, k + 1, data[k + 1])
<1>1. CellsOf(path, data)
  BY ObjectCells
<1>2. CellOf(path, data[k + 1])
  BY <1>1 DEF CellsOf
<1>3. CellOf(path, Hole)
  BY DEF CellOf
<1>4. /\ Len(cells) \in Nat /\ DOMAIN cells = 1..Len(cells)
      /\ \A i \in 1..Len(cells) : CellOf(path, cells[i])
  BY DEF CellsOf
<1>5. n \in Nat /\ Len(cells) <= n
  BY <1>4
<1>6. w = [i \in 1..n |-> IF i = k + 1 THEN data[k + 1]
                          ELSE IF i <= Len(cells) THEN cells[i] ELSE Hole]
  BY DEF WriteAt
<1> HIDE DEF n, w
<1>7. Len(w) = n /\ w = [i \in 1..n |-> w[i]]
  BY <1>5, <1>6
<1>8. ASSUME NEW i \in 1..n
      PROVE  CellOf(path, w[i])
  <2>1. w[i] \in {data[k + 1], Hole} \/ (i \in 1..Len(cells) /\ w[i] = cells[i])
    BY <1>4, <1>5, <1>6
  <2> QED
    BY <1>2, <1>3, <1>4, <2>1
<1> QED
  BY <1>5, <1>7, <1>8 DEF CellsOf, w

\* An object that is replaced, emptied, added to or removed leaves the others
\* as they are.
LEMMA FilesCells ==
    ASSUME SafeCells, NEW path, NEW cells, CellsOf(path, cells),
           \/ files' = With(files, path, cells)
           \/ files' = [files EXCEPT ![path] = cells]
           \/ files' = Without(files, path)
    PROVE  \A p \in DOMAIN files' : CellsOf(p, files'[p])
<1>1. \A p \in DOMAIN files' : (p = path /\ files'[p] = cells)
                               \/ (p \in DOMAIN files /\ files'[p] = files[p])
  BY DEF With, Without
<1> QED
  BY <1>1 DEF SafeCells

\* What is stored after a step was there, or is a chunk of what a put() was
\* given.
LEMMA StoreCells ==
    ASSUME TypeOK, SafeCells, [Next]_vars
    PROVE  /\ \A p \in DOMAIN files' : CellsOf(p, files'[p])
           /\ \A t \in late' : SafeObject(t.path, t.data, AnyData)
<1> DEFINE Goal == /\ \A p \in DOMAIN files' : CellsOf(p, files'[p])
                   /\ \A t \in late' : SafeObject(t.path, t.data, AnyData)
<1> SUFFICES Goal
  OBVIOUS
<1>1. ASSUME UNCHANGED files,
             \A t \in late' :
                 \/ t \in late
                 \/ \E c \in DOMAIN put : t.path = put[c].path /\ t.data = put[c].data
      PROVE  Goal
  BY <1>1 DEF SafeCells
<1>2. ASSUME NEW path, NEW cells, CellsOf(path, cells), late' \subseteq late,
             \/ files' = With(files, path, cells)
             \/ files' = Without(files, path)
      PROVE  Goal
  BY <1>2, FilesCells DEF SafeCells
<1> HIDE DEF Goal
<1>3. ASSUME NEW c \in DOMAIN put, PutOpen(c) \/ PutStored(c)
      PROVE  Goal
  <2>1. CellsOf(put[c].path, <<>>) /\ CellsOf(put[c].path, put[c].data)
    BY ObjectCells DEF CellsOf, SafeCells
  <2> QED
    BY <1>2, <1>3, <2>1 DEF PutOpen, PutStored
<1>4. ASSUME NEW c \in DOMAIN put, PutWrite(c)
      PROVE  Goal
  <2> DEFINE t == put[c]
             w == WriteAt(files[t.path], t.pos + 1, t.data[t.pos + 1])
  <2>1. /\ t.pos \in Nat /\ t.pos < Len(t.data) /\ SafeObject(t.path, t.data, AnyData)
        /\ UNCHANGED late /\ (UNCHANGED files \/ files' = [files EXCEPT ![t.path] = w])
    BY <1>4 DEF PutWrite, TypeOK, StoreOK, TransferOK, SafeCells
  <2>2. t.path \in DOMAIN files => CellsOf(t.path, w)
    BY <2>1, WriteCells DEF SafeCells
  <2> HIDE DEF w, t
  <2>3. /\ DOMAIN files' = DOMAIN files
        /\ \A p \in DOMAIN files : files'[p] = files[p] \/ (p = t.path /\ files'[p] = w)
    BY <2>1
  <2> QED
    BY <2>1, <2>2, <2>3 DEF SafeCells, Goal
<1>5. ASSUME NEW c \in DOMAIN put,
             PutCancel(c) \/ PutReturn(c) \/ PutAbandon(c) \/ PutError(c)
      PROVE  Goal
  <2>1. CASE files' = Without(files, put[c].path) /\ UNCHANGED late
    <3>1. CellsOf(put[c].path, put[c].data)
      BY ObjectCells DEF SafeCells
    <3> QED
      BY <1>2, <2>1, <3>1
  <2>2. CASE UNCHANGED files /\ late' \subseteq late \cup {put[c]}
    BY <1>1, <2>2
  <2> QED
    BY <1>5, <2>1, <2>2 DEF PutCancel, PutReturn, PutAbandon, PutError
<1>6. CASE LateUpload
  <2>1. PICK t \in late : files' = With(files, t.path, t.data) /\ late' \subseteq late
    BY <1>6 DEF LateUpload, PutLate
  <2>2. CellsOf(t.path, t.data)
    BY ObjectCells DEF SafeCells
  <2> QED
    BY <1>2, <2>1, <2>2
<1>7. ASSUME NEW c \in Client,
             \/ Transferring(c) \/ CancelTransfer(c) \/ Transferred(c) \/ TransferError(c)
      PROVE  Goal
  <2>1. c \in DOMAIN put
    BY <1>7 DEF Transferring, CancelTransfer, Transferred, TransferError, Waiting
  <2>2. \/ PutOpen(c) \/ PutStored(c) \/ PutWrite(c) \/ PutCancel(c) \/ PutReturn(c)
        \/ PutError(c)
    BY <1>7 DEF Transferring, CancelTransfer, Transferred, TransferError
  <2> QED
    BY <1>3, <1>4, <1>5, <2>1, <2>2
<1>8. ASSUME UNCHANGED <<files, late>>
      PROVE  Goal
  BY <1>1, <1>8
<1>9. ASSUME NEW c \in Client, Crash(c)
      PROVE  Goal
  BY <1>5, <1>8, <1>9 DEF Crash, PutAbandon
<1>10. CASE \E c \in Client : \/ \E n \in Name, job \in Job : Backup(c, n, job)
                              \/ Signal(c) \/ AddToPack(c) \/ RecordFile(c) \/ NextArg(c)
  BY <1>8, <1>10 DEF Backup, Signal, AddToPack, RecordFile, NextArg, storeVars
<1>11. CASE \/ \E c \in Client : UploadBlock(c) \/ FinalizePack(c) \/ CommitSnapshot(c)
            \/ UNCHANGED vars
  BY <1>8, <1>11 DEF UploadBlock, FinalizePack, CommitSnapshot, PutStart, vars
<1>12. ASSUME NEW c \in Client, Retry(c)
       PROVE  Goal
  BY <1>1, <1>12, RetryKeeps DEF TypeOK
<1> QED
  BY <1>6, <1>7, <1>9, <1>10, <1>11, <1>12 DEF Next, Step

\* Without packs a session never has one.
LEMMA NeverToPack ==
    ASSUME NEW s, SessionOK(s), NEW stored, SafeSession(s, stored)
    PROVE  ~Finalizing(s) /\ (ArgOpen(s) => ~ToPack(s))
<1>1. ASSUME ArgOpen(s)
      PROVE  ~ToPack(s)
  <2>1. /\ 1 \in DOMAIN s.args /\ Head(s.args) = s.args[1]
        /\ s.args[1] \in Seq(File) /\ s.args[1] # <<>>
    BY <1>1 DEF ArgOpen, SessionOK
  <2>2. 1 \in DOMAIN s.args[1] /\ CurrentFile(s) = s.args[1][1]
    BY <2>1 DEF CurrentFile
  <2> QED
    BY <2>1, <2>2 DEF SafeSession, ToPack
<1> QED
  BY <1>1 DEF SafeSession, Finalizing

\* Every put() is given a safe object.
LEMMA PutsSafe ==
    ASSUME TypeOK, SafeCells, [Next]_vars, NEW d \in DOMAIN put'
    PROVE  SafeObject(put'[d].path, put'[d].data, AnyData)
<1> DEFINE Goal == SafeObject(put'[d].path, put'[d].data, AnyData)
<1> SUFFICES Goal
  OBVIOUS
<1>1. ASSUME d \in DOMAIN put /\ put'[d].path = put[d].path /\ put'[d].data = put[d].data
      PROVE  Goal
  BY <1>1 DEF SafeCells
<1>2. ASSUME NEW c, NEW path, NEW data, PutStart(c, path, data), SafeObject(path, data, AnyData)
      PROVE  Goal
  <2>1. d = c \/ (d \in DOMAIN put /\ put'[d] = put[d])
    BY <1>2 DEF PutStart, With
  <2>2. CASE d = c
    <3>1. put'[d].path = path /\ put'[d].data = data
      BY <1>2, <2>2 DEF PutStart, With, Transfer
    <3> QED
      BY <1>2, <3>1
  <2> QED
    BY <1>1, <2>1, <2>2
<1> HIDE DEF Goal
<1>3. ASSUME UNCHANGED put
      PROVE  Goal
  BY <1>1, <1>3
<1>4. ASSUME NEW c \in Client, UploadBlock(c)
      PROVE  Goal
  <2> DEFINE s == sess[c]
             data == compressEncryptHMAC(c, Block(CurrentFile(s).comp, NextBlock(s)))
  <2>1. SessionOK(s) /\ ArgOpen(s) /\ BlocksLeft(s)
    BY <1>4 DEF UploadBlock, Running, Uploading, TypeOK
  <2>2. SafeObject(DataPath(NextBlockId(s)), data, AnyData)
    BY <2>1, NextBlockType, SealedBlockSafe DEF NextBlockId
  <2>3. UNCHANGED put \/ PutStart(c, DataPath(NextBlockId(s)), data)
    BY <1>4 DEF UploadBlock
  <2> QED
    BY <1>2, <1>3, <2>2, <2>3
<1>5. ASSUME NEW c \in Client, FinalizePack(c)
      PROVE  Goal
  <2>1. SessionOK(sess[c]) /\ SafeSession(sess[c], AnyData) /\ Finalizing(sess[c])
    BY <1>5 DEF FinalizePack, Running, TypeOK, SafeCells
  <2> QED
    BY <2>1, NeverToPack
<1>6. ASSUME NEW c \in Client, CommitSnapshot(c)
      PROVE  Goal
  <2>1. SafeSnapshot(sess[c].snap, AnyData)
    BY <1>6 DEF CommitSnapshot, Running, SafeCells, SafeSession
  <2> QED
    BY <1>2, <1>6, <2>1, SealedSnapshotSafe DEF CommitSnapshot
<1>7. ASSUME NEW c \in Client, \/ Transferring(c) \/ CancelTransfer(c) \/ Transferred(c)
                              \/ TransferError(c) \/ Crash(c)
      PROVE  Goal
  <2>1. \/ PutOpen(c) \/ PutStored(c) \/ PutWrite(c) \/ PutCancel(c) \/ PutReturn(c)
        \/ PutAbandon(c) \/ PutError(c) \/ UNCHANGED put
    BY <1>7 DEF Transferring, CancelTransfer, Transferred, TransferError, Crash
  <2> QED
    BY <1>1, <1>3, <2>1, PutKeeps DEF TypeOK
<1>8. CASE \/ \E c \in Client : \/ \E n \in Name, job \in Job : Backup(c, n, job)
                                \/ Signal(c) \/ AddToPack(c) \/ RecordFile(c) \/ NextArg(c)
                                \/ Retry(c)
           \/ LateUpload \/ UNCHANGED vars
  BY <1>3, <1>8 DEF Backup, Signal, AddToPack, RecordFile, NextArg, Retry, PutRetry,
                    LateUpload, PutLate, storeVars, vars
<1> QED
  BY <1>4, <1>5, <1>6, <1>7, <1>8 DEF Next, Step

\* Every session records the blocks of its files, in order.
LEMMA SessionsSafe ==
    ASSUME NoPacks, TypeOK, TypeOK', SafeCells, [Next]_vars, NEW d \in DOMAIN sess'
    PROVE  SafeSession(sess'[d], AnyData)
<1> DEFINE Goal == SafeSession(sess'[d], AnyData)
<1> SUFFICES Goal
  OBVIOUS
<1>1. ASSUME d \in DOMAIN sess, sess'[d] = sess[d]
      PROVE  Goal
  BY <1>1 DEF SafeCells
<1>2. ASSUME NEW c \in DOMAIN sess, NEW s, SetSession(c, s), SafeSession(s, AnyData)
      PROVE  Goal
  BY <1>1, <1>2 DEF SetSession
<1> HIDE DEF Goal
<1>3. ASSUME NEW c, EndSession(c)
      PROVE  Goal
  BY <1>1, <1>3 DEF EndSession, Without
<1>4. ASSUME UNCHANGED sess
      PROVE  Goal
  BY <1>1, <1>4
<1>5. ASSUME NEW c \in DOMAIN sess, Uploading(sess[c]), BlocksLeft(sess[c]),
             SetSession(c, [sess[c] EXCEPT !.ids = Append(@, NextBlockId(sess[c]))])
      PROVE  Goal
  <2> DEFINE s == sess[c]
  <2>1. SessionOK(s) /\ SafeSession(s, AnyData) /\ ArgOpen(s)
    BY <1>5 DEF TypeOK, SafeCells, Uploading
  <2>2. DataPath(NextBlockId(s)) \in AnyData
    BY <1>5, <2>1, NextBlockType DEF DataPath, AnyData
  <2>3. SafeSession([s EXCEPT !.ids = Append(@, NextBlockId(s))], AnyData)
    BY <1>5, <2>1, <2>2, NextIdSafe
  <2> QED
    BY <1>2, <1>5, <2>3
<1>6. ASSUME NEW c \in Client, NEW n \in Name, NEW job \in Job, Backup(c, n, job)
      PROVE  Goal
  <2> DEFINE s == Session(n, job)
  <2>1. SessionOK(s)
    BY JobAssumption DEF Session, SessionOK, EmptyFcn
  <2>2. /\ s.ids = <<>> /\ s.pack = <<>> /\ ~s.writePack
        /\ s.snap = EmptyFcn /\ s.args = job.args /\ s.job = job
    BY DEF Session
  <2>3. SafeSnapshot(s.snap, AnyData)
    BY <2>2 DEF SafeSnapshot, EmptyFcn
  <2>4. sess' = With(sess, c, s)
    BY <1>6 DEF Backup
  <2> HIDE DEF s
  <2>5. SafeSession(s, AnyData)
    BY <2>1, <2>2, <2>3, FreshSessionSafe DEF NoPacks
  <2> QED
    BY <1>1, <2>4, <2>5 DEF With, Goal
<1>7. ASSUME NEW c \in Client, Signal(c)
      PROVE  Goal
  <2> DEFINE s == sess[c]
             t == [s EXCEPT !.cancelled = TRUE]
  <2>1. SessionOK(s) /\ SafeSession(s, AnyData) /\ c \in DOMAIN sess /\ SetSession(c, t)
    BY <1>7 DEF Signal, TypeOK, SafeCells, SetSession
  <2>2. /\ t.args = s.args /\ t.job = s.job /\ t.pack = s.pack /\ t.ids = s.ids
        /\ t.writePack = s.writePack /\ t.snap = s.snap
    BY <2>1 DEF SessionOK
  <2> HIDE DEF t
  <2>3. SafeSession(t, AnyData)
    BY <2>1, <2>2 DEF SafeSession, ArgOpen, CurrentFile
  <2> QED
    BY <1>2, <2>1, <2>3
<1>8. ASSUME NEW c \in Client, AddToPack(c) \/ FinalizePack(c)
      PROVE  FALSE
  BY <1>8, NeverToPack DEF AddToPack, FinalizePack, Running, TypeOK, SafeCells
<1>9. ASSUME NEW c \in Client, UploadBlock(c)
      PROVE  Goal
  BY <1>3, <1>4, <1>5, <1>9 DEF UploadBlock, Running
<1>10. ASSUME NEW c \in Client, RecordFile(c)
       PROVE  Goal
  <2> DEFINE s == sess[c]
             f == CurrentFile(s)
             e == FileEntry(s.ids, f.comp, 0, 0, f.blocks)
             snap == addFileEntry(s.snap, f.path, e)
             t == [s EXCEPT !.args = NextFile(@), !.ids = <<>>, !.snap = snap]
  <2>1. /\ SessionOK(s) /\ ArgOpen(s) /\ ~BlocksLeft(s) /\ c \in DOMAIN sess
        /\ SafeSession(s, AnyData)
    BY <1>10 DEF RecordFile, Running, Uploading, TypeOK, SafeCells
  <2>2. f \in File /\ NextFile(s.args) \in Seq(Seq(File))
    BY <2>1, CurrentFileType
  <2>3. SafeEntry(e, AnyData)
    <3>1. /\ e.ids = s.ids /\ e.comp = f.comp /\ e.packLength = 0 /\ e.md5 = f.blocks
      BY DEF FileEntry
    <3>2. f.comp \in {0, 1} /\ f.blocks \in Seq(Bytes) /\ s.ids \in Seq(Bytes)
      BY <2>1, <2>2 DEF File, SessionOK
    <3>3. StoredBlocks(s.ids, f.comp, f.blocks, AnyData) /\ Len(s.ids) = Len(f.blocks)
      BY <2>1, <3>2 DEF SafeSession, StoredBlocks, BlocksLeft
    <3> HIDE DEF e
    <3> QED
      BY <3>1, <3>2, <3>3 DEF SafeEntry
  <2>4. SafeSnapshot(snap, AnyData)
    BY <2>1, <2>3 DEF SafeSnapshot, SafeSession, addFileEntry, With
  <2>5. SetSession(c, t)
    BY <1>10 DEF RecordFile
  <2>6. SessionOK(t)
    BY <2>1, <2>5 DEF TypeOK, SetSession
  <2> HIDE DEF snap
  <2>7. /\ t.args = NextFile(s.args) /\ t.job = s.job /\ t.pack = s.pack /\ t.ids = <<>>
        /\ t.writePack = s.writePack /\ t.snap = snap
    BY <2>1 DEF SessionOK
  <2> HIDE DEF t
  <2>8. ASSUME NEW a \in DOMAIN NextFile(s.args), NEW i \in DOMAIN NextFile(s.args)[a]
        PROVE  ~(s.job.packed /\ NextFile(s.args)[a][i].small)
    <3>1. PICK b \in DOMAIN s.args : \E j \in DOMAIN s.args[b] :
              s.args[b][j] = NextFile(s.args)[a][i]
      BY <2>1, <2>8, NextFileKeeps
    <3> QED
      BY <2>1, <3>1 DEF SafeSession
  <2>9. SafeSession(t, AnyData)
    BY <2>1, <2>4, <2>6, <2>7, <2>8, FreshSessionSafe DEF SafeSession
  <2> QED
    BY <1>2, <2>1, <2>5, <2>9
<1>11. ASSUME NEW c \in Client, NextArg(c)
       PROVE  Goal
  <2> DEFINE s == sess[c]
             t == [s EXCEPT !.args = Tail(@)]
  <2>1. /\ SessionOK(s) /\ s.args # <<>> /\ ~ArgOpen(s) /\ c \in DOMAIN sess
        /\ SafeSession(s, AnyData)
    BY <1>11 DEF NextArg, Running, ArgDone, ArgOpen, TypeOK, SafeCells
  <2>2. /\ t.args = Tail(s.args) /\ t.job = s.job /\ t.pack = s.pack /\ t.ids = s.ids
        /\ t.writePack = s.writePack /\ t.snap = s.snap
    BY <2>1 DEF SessionOK
  <2>3. SessionOK(t) /\ SetSession(c, t)
    BY <1>11, <2>1 DEF NextArg, SetSession, SessionOK
  <2> HIDE DEF t
  <2>4. ASSUME NEW a \in DOMAIN Tail(s.args), NEW i \in DOMAIN Tail(s.args)[a]
        PROVE  ~(s.job.packed /\ Tail(s.args)[a][i].small)
    <3>1. a + 1 \in DOMAIN s.args /\ s.args[a + 1] = Tail(s.args)[a]
      BY <2>1, <2>4, NextArgKeeps
    <3> QED
      BY <2>1, <2>4, <3>1 DEF SafeSession
  <2>5. s.ids = <<>> /\ s.pack = <<>> /\ ~s.writePack /\ SafeSnapshot(s.snap, AnyData)
    BY <2>1 DEF SafeSession
  <2>6. SafeSession(t, AnyData)
    BY <2>2, <2>3, <2>4, <2>5, FreshSessionSafe
  <2> QED
    BY <1>2, <2>1, <2>3, <2>6
<1>12. ASSUME NEW c \in Client, Transferred(c)
       PROVE  Goal
  <2>1. /\ c \in DOMAIN sess /\ SessionOK(sess[c]) /\ SafeSession(sess[c], AnyData)
        /\ Uploading(sess[c]) => BlocksLeft(sess[c])
    BY <1>12 DEF Transferred, Waiting, TypeOK, SafeCells
  <2> QED
    BY <1>3, <1>5, <1>12, <2>1, NeverToPack DEF Transferred
<1>13. ASSUME NEW c \in Client, CancelTransfer(c) \/ TransferError(c) \/ Crash(c)
       PROVE  Goal
  BY <1>3, <1>13 DEF CancelTransfer, TransferError, Crash
<1>14. CASE \/ \E c \in Client : CommitSnapshot(c) \/ Transferring(c) \/ Retry(c)
            \/ LateUpload \/ UNCHANGED vars
  BY <1>4, <1>14 DEF CommitSnapshot, Transferring, Retry, LateUpload, repoVars, vars
<1> QED
  BY <1>6, <1>7, <1>8, <1>9, <1>10, <1>11, <1>12, <1>13, <1>14 DEF Next, Step

\* Every step of a backup keeps SafeCells.
LEMMA NextCells ==
    ASSUME NoPacks, TypeOK, SafeCells, [Next]_vars
    PROVE  TypeOK' /\ SafeCells'
<1>1. TypeOK'
  BY NextTypes
<1> QED
  BY <1>1, StoreCells, PutsSafe, SessionsSafe DEF SafeCells

\* Restores change nothing that it is about.
LEMMA CellsKept ==
    ASSUME NoPacks, TypeOK, SafeCells, [RestoreNext]_allVars
    PROVE  TypeOK' /\ SafeCells'
<1>1. CASE [Next]_vars
  BY <1>1, NextCells
<1>2. CASE ReadOnly
  BY <1>2, ReadOnlyTypes DEF ReadOnly, SafeCells
<1> QED
  BY <1>1, <1>2, RepositorySteps

-----------------------------------------------------------------------------
(* What a restore reads, on either backend *)

\* The object that is read is the same until it was read.
LEMMA SameObject ==
    ASSUME NEW s, NEW t, SameFiles(s, t), t.name = s.name
    PROVE  ObjectPath(t) = ObjectPath(s) /\ BlocksToGet(t) = BlocksToGet(s)
BY DEF SameFiles, ObjectPath, BlocksToGet, Entry

\* Chunks that were read at the path of an object, and verify, are the snapshot
\* or the block that was asked for; others make the restore throw.
LEMMA GotWritten ==
    ASSUME NEW r \in DOMAIN rest, r \in DOMAIN dest, SafeWritten(rest[r], dest[r], AnyData),
           rest[r].phase \in {"load", "files"}, BlocksToGet(rest[r]),
           NEW cells, CellsOf(ObjectPath(rest[r]), cells), Got(r, cells)
    PROVE  /\ Alone(r) /\ SafeWritten(rest'[r], dest'[r], AnyData)
           /\ rest'[r].fd = "no" /\ rest'[r].tmp = <<>>
<1> DEFINE s == rest[r]
           d == dest[r]
           t == Ready(s)
           pay == cells[1].pay
           isSnapshot == VerifiesHMAC(cells) /\ pay.kind = "snapshot"
           range == RangeOfEntry(Entry(t), cells)
<1>1. /\ SafeWritten(t, d, AnyData) /\ SameFiles(s, t)
      /\ t.name = s.name /\ t.fd = "no" /\ t.tmp = <<>>
  BY ReadyWritten
<1>2. t.phase = s.phase /\ Entry(t) = Entry(s) /\ t.path = s.path
  BY <1>1 DEF SameFiles, Entry
<1>3. \/ /\ s.phase = "load" /\ isSnapshot
         /\ SetRestore(r, [t EXCEPT !.phase = "files", !.snap = pay.snap,
                                    !.todo = DOMAIN pay.snap])
         /\ UNCHANGED dest
      \/ /\ s.phase = "files" /\ Opens(Entry(t), range)
         /\ SetRestore(r, [t EXCEPT !.block = @ + 1])
         /\ dest' = [dest EXCEPT ![r][s.path] =
                         Append(@, decompressDecryptHMAC(Entry(t).comp, range))]
      \/ SetRestore(r, End(t, "threw")) /\ UNCHANGED dest
  BY <1>2, Zenon DEF Got, Ready
<1>4. ASSUME NEW u, NEW f, SetRestore(r, u), dest' = [dest EXCEPT ![r] = f],
             SafeWritten(u, f, AnyData), u.fd = "no", u.tmp = <<>>
      PROVE  /\ Alone(r) /\ SafeWritten(rest'[r], dest'[r], AnyData)
             /\ rest'[r].fd = "no" /\ rest'[r].tmp = <<>>
  BY <1>4 DEF SetRestore, Alone
<1>5. ASSUME NEW u, SetRestore(r, u), UNCHANGED dest,
             SafeWritten(u, d, AnyData), u.fd = "no", u.tmp = <<>>
      PROVE  /\ Alone(r) /\ SafeWritten(rest'[r], dest'[r], AnyData)
             /\ rest'[r].fd = "no" /\ rest'[r].tmp = <<>>
  BY <1>5 DEF SetRestore, Alone
<1>6. ASSUME VerifiesHMAC(cells)
      PROVE  SafeObject(ObjectPath(s), cells, AnyData)
  BY <1>6, VerifiedSafe
<1>7. CASE /\ s.phase = "load" /\ isSnapshot
           /\ SetRestore(r, [t EXCEPT !.phase = "files", !.snap = pay.snap,
                                      !.todo = DOMAIN pay.snap])
           /\ UNCHANGED dest
  <2> DEFINE snap == pay.snap
             u == Loaded(s, snap)
  <2>1. SafeSnapshot(snap, AnyData) /\ s.phase = "load" /\ SafeWritten(s, d, AnyData)
    BY <1>6, <1>7 DEF SafeObject
  <2>2. SetRestore(r, u) /\ UNCHANGED dest
    BY <1>7 DEF Loaded
  <2> HIDE DEF s, d, snap
  <2>3. SafeWritten(u, d, AnyData) /\ u.fd = "no" /\ u.tmp = <<>>
    BY <2>1, SnapshotWritten
  <2> HIDE DEF u
  <2> QED
    BY <1>5, <2>2, <2>3
<1>8. CASE /\ s.phase = "files" /\ Opens(Entry(t), range)
           /\ SetRestore(r, [t EXCEPT !.block = @ + 1])
           /\ dest' = [dest EXCEPT ![r][s.path] =
                           Append(@, decompressDecryptHMAC(Entry(t).comp, range))]
  <2> DEFINE e == Entry(s)
             i == s.block + 1
             piece == decompressDecryptHMAC(e.comp, range)
             u == [t EXCEPT !.block = @ + 1]
             f == [d EXCEPT ![s.path] = Append(@, piece)]
  <2>1. s.open /\ s.block < Len(e.ids) /\ ObjectPath(s) = DataPath(e.ids[i])
    BY <1>8 DEF BlocksToGet, ObjectPath
  <2>2. SafeEntry(e, AnyData) /\ d[s.path] \in Seq(Bytes) /\ s.block = Len(d[s.path])
    BY <1>8, <2>1 DEF SafeWritten, SafeProgress, SafeDirectory, SafeSnapshot, Entry
  <2>3. /\ e.packLength = 0 /\ e.comp \in {0, 1} /\ e.ids \in Seq(Bytes)
        /\ e.md5 \in Seq(Bytes) /\ Len(e.ids) = Len(e.md5)
        /\ StoredBlocks(e.ids, e.comp, e.md5, AnyData)
    BY <2>2 DEF SafeEntry
  <2>4. i \in 1..Len(e.ids)
    BY <2>1, <2>2, <2>3
  <2>5. e.md5[i] \in Bytes /\ e.ids[i] = BlockId(e.comp, e.md5[i])
    BY <2>3, <2>4 DEF StoredBlocks
  <2>6. range = cells
    BY <1>2, <2>3 DEF RangeOfEntry
  <2>7. SafeObject(DataPath(BlockId(e.comp, e.md5[i])), cells, AnyData)
    BY <1>6, <1>8, <2>1, <2>5, <2>6 DEF Opens
  <2>8. piece = e.md5[i]
    BY <2>3, <2>5, <2>6, <2>7, SafeObjectReads
  <2> HIDE DEF piece
  <2>9. SafeWritten(u, f, AnyData) /\ u.fd = "no" /\ u.tmp = <<>>
    BY <1>8, <2>8, BlockWritten
  <2>10. dest' = [dest EXCEPT ![r] = f]
    BY <1>2, <1>8 DEF piece
  <2> HIDE DEF u, f
  <2> QED
    BY <1>4, <1>8, <2>9, <2>10 DEF u
<1>9. CASE SetRestore(r, End(t, "threw")) /\ UNCHANGED dest
  <2>1. /\ SafeWritten(End(t, "threw"), d, AnyData)
        /\ End(t, "threw").fd = "no" /\ End(t, "threw").tmp = <<>>
    BY <1>1, EndWritten
  <2> QED
    BY <1>5, <1>9, <2>1
<1> QED
  BY <1>3, <1>7, <1>8, <1>9

\* One more chunk of an object behind those that were read
LEMMA AppendCells ==
    ASSUME NEW path, NEW cells, CellsOf(path, cells), NEW cell, CellOf(path, cell)
    PROVE  CellsOf(path, Append(cells, cell))
<1> DEFINE n == Len(cells)
           S == {cells[k] : k \in 1..n} \cup {cell}
           more == Append(cells, cell)
<1>1. n \in Nat /\ cells = [k \in 1..n |-> cells[k]] /\ \A k \in 1..n : CellOf(path, cells[k])
  BY DEF CellsOf
<1> HIDE DEF n
<1>2. [k \in 1..n |-> cells[k]] \in Seq(S)
  BY <1>1
<1>3. cells \in Seq(S) /\ cell \in S
  BY <1>1, <1>2
<1> HIDE DEF S
<1>4. more \in Seq(S) /\ Len(more) = n + 1
      /\ \A k \in 1..(n + 1) : more[k] = IF k = n + 1 THEN cell ELSE cells[k]
  BY <1>1, <1>3 DEF n
<1> HIDE DEF more
<1>5. more = [k \in 1..(n + 1) |-> more[k]]
  BY <1>1, <1>4
<1>6. ASSUME NEW k \in 1..(n + 1)
      PROVE  CellOf(path, more[k])
  <2>1. k = n + 1 \/ k \in 1..n
    BY <1>1
  <2>2. more[k] = IF k = n + 1 THEN cell ELSE cells[k]
    BY <1>4
  <2> QED
    BY <1>1, <2>1, <2>2
<1> QED
  BY <1>1, <1>4, <1>5, <1>6 DEF CellsOf, more

\* A get() from the file backend reads chunks that were written for the object
\* it was asked for, from a file that others write, truncate or remove.
LEMMA GetReadSafe ==
    ASSUME SafeCells, SafeReads, NEW r \in DOMAIN rest, GetRead(r)
    PROVE  Alone(r) /\ SafeWritten(rest'[r], dest'[r], AnyData) /\ SafeReading(rest[r])'
<1> DEFINE s == rest[r]
           d == dest[r]
           path == ObjectPath(s)
<1>1. /\ SafeWritten(s, d, AnyData) /\ SafeReading(s) /\ r \in DOMAIN dest
      /\ s.fd \in {"yes", "orphan"} /\ s.phase \in {"load", "files"} /\ BlocksToGet(s)
      /\ CellsOf(path, s.tmp)
  BY DEF SafeReads, GetRead, SafeReading
<1>2. CellsOf(path, Contents(s))
  BY <1>1 DEF Contents, SafeReading, SafeCells
<1>3. UNCHANGED files
  BY DEF GetRead, vars
<1>4. ASSUME rest'[r].fd = "no", rest'[r].tmp = <<>>
      PROVE  SafeReading(rest[r])'
  BY <1>4 DEF SafeReading
<1>5. ASSUME NEW how \in {"threw", "stopped"}, SetRestore(r, End(s, how)), UNCHANGED dest
      PROVE  Alone(r) /\ SafeWritten(rest'[r], dest'[r], AnyData) /\ SafeReading(rest[r])'
  <2>1. SafeWritten(End(s, how), d, AnyData) /\ End(s, how).fd = "no" /\ End(s, how).tmp = <<>>
    BY <1>1, EndWritten
  <2>2. rest'[r] = End(s, how) /\ Alone(r)
    BY <1>5 DEF SetRestore, Alone
  <2> QED
    BY <1>4, <1>5, <2>1, <2>2
<1>6. CASE Got(r, s.tmp)
  BY <1>1, <1>4, <1>6, GotWritten
<1>7. CASE Interrupt(r)
  BY <1>5, <1>7 DEF Interrupt
<1>8. CASE SetRestore(r, End(s, "threw")) /\ UNCHANGED dest
  BY <1>5, <1>8
<1>9. CASE /\ Len(s.tmp) < Len(Contents(s)) /\ UNCHANGED dest
           /\ SetRestore(r, [s EXCEPT !.tmp = Append(@, Contents(s)[Len(s.tmp) + 1])])
  <2> DEFINE cell == Contents(s)[Len(s.tmp) + 1]
             more == Append(s.tmp, cell)
             t == [s EXCEPT !.tmp = more]
  <2>1. CellOf(path, cell)
    BY <1>1, <1>2, <1>9 DEF CellsOf
  <2>2. CellsOf(path, more)
    BY <1>1, <2>1, AppendCells
  <2>3. SetRestore(r, t)
    BY <1>9
  <2> HIDE DEF more
  <2>4. /\ DOMAIN t = RestoreFields /\ SameFiles(s, t) /\ t.name = s.name
        /\ t.fd = s.fd /\ t.old = s.old /\ t.tmp = more
    BY <1>1 DEF SafeWritten, RestoreFields, SameFiles
  <2> HIDE DEF t
  <2>5. SafeWritten(t, d, AnyData) /\ ObjectPath(t) = path /\ BlocksToGet(t)
    BY <1>1, <2>4, SameWritten, SameObject
  <2>6. rest'[r] = t /\ dest'[r] = d /\ Alone(r)
    BY <1>9, <2>3 DEF SetRestore, Alone
  <2>7. ObjectPath(rest[r])' = path /\ BlocksToGet(rest[r])'
    BY <2>5, <2>6 DEF ObjectPath, BlocksToGet, Entry
  <2>8. SafeReading(rest[r])'
    BY <1>1, <1>3, <2>2, <2>4, <2>6, <2>7 DEF SafeReading, SameFiles
  <2> QED
    BY <2>5, <2>6, <2>8
<1> QED
  BY <1>6, <1>7, <1>8, <1>9 DEF GetRead

\* A backup that removes the file a reader has open leaves it to the reader.
LEMMA BackupReads ==
    ASSUME SafeCells, SafeReads, BackupStep
    PROVE  SafeReads'
<1>1. DOMAIN rest' = DOMAIN rest /\ UNCHANGED dest
      /\ \A r \in DOMAIN rest : rest'[r] = Removed(rest[r])
  BY DEF BackupStep
<1>2. ASSUME NEW r \in DOMAIN rest
      PROVE  SafeWritten(rest'[r], dest'[r], AnyData) /\ SafeReading(rest[r])'
  <2> DEFINE s == rest[r]
             d == dest[r]
             path == ObjectPath(s)
  <2>1. SafeWritten(s, d, AnyData) /\ SafeReading(s)
    BY DEF SafeReads
  <2>2. CASE s.fd = "yes" /\ path \notin DOMAIN files'
    <3> DEFINE t == [s EXCEPT !.fd = "orphan", !.old = files[path]]
    <3>1. rest'[r] = t
      BY <1>1, <2>2 DEF Removed
    <3>2. /\ DOMAIN t = RestoreFields /\ SameFiles(s, t) /\ t.name = s.name
          /\ t.fd = "orphan" /\ t.old = files[path] /\ t.tmp = s.tmp
      BY <2>1 DEF SafeWritten, RestoreFields, SameFiles
    <3> HIDE DEF t
    <3>3. SafeWritten(t, d, AnyData) /\ ObjectPath(t) = path /\ BlocksToGet(t) = BlocksToGet(s)
      BY <2>1, <3>2, SameWritten, SameObject
    <3>4. path \in DOMAIN files /\ CellsOf(path, files[path])
      BY <2>1, <2>2 DEF SafeReading, SafeCells
    <3>5. ObjectPath(rest[r])' = path /\ BlocksToGet(rest[r])' = BlocksToGet(s)
      BY <3>1, <3>3 DEF ObjectPath, BlocksToGet, Entry
    <3>6. SafeReading(rest[r])'
      BY <2>1, <2>2, <3>1, <3>2, <3>4, <3>5 DEF SafeReading, SameFiles
    <3> QED
      BY <1>1, <3>1, <3>3, <3>6
  <2>3. CASE ~(s.fd = "yes" /\ path \notin DOMAIN files')
    <3>1. rest'[r] = s
      BY <1>1, <2>3 DEF Removed
    <3>2. ObjectPath(rest[r])' = path /\ BlocksToGet(rest[r])' = BlocksToGet(s)
      BY <3>1 DEF ObjectPath, BlocksToGet, Entry
    <3>3. SafeReading(rest[r])'
      BY <2>1, <2>3, <3>1, <3>2 DEF SafeReading
    <3> QED
      BY <1>1, <2>1, <3>1, <3>3
  <2> QED
    BY <2>2, <2>3
<1> QED
  BY <1>1, <1>2 DEF SafeReads

\* Every step keeps SafeReads.
LEMMA NextReads ==
    ASSUME SafeCells, SafeReads, [RestoreNext]_allVars
    PROVE  SafeReads'
<1>1. ASSUME NEW q \in DOMAIN rest, rest'[q] = rest[q], dest'[q] = dest[q], UNCHANGED files
      PROVE  SafeWritten(rest'[q], dest'[q], AnyData) /\ SafeReading(rest[q])'
  <2>1. SafeWritten(rest[q], dest[q], AnyData) /\ SafeReading(rest[q])
    BY DEF SafeReads
  <2>2. /\ ObjectPath(rest[q])' = ObjectPath(rest[q])
        /\ BlocksToGet(rest[q])' = BlocksToGet(rest[q])
    BY <1>1 DEF ObjectPath, BlocksToGet, Entry
  <2> QED
    BY <1>1, <2>1, <2>2 DEF SafeReading
\* what is left to show when one restore moves
<1>2. ASSUME NEW r \in DOMAIN rest, Alone(r), UNCHANGED files,
             SafeWritten(rest'[r], dest'[r], AnyData), SafeReading(rest[r])'
      PROVE  SafeReads'
  <2>1. \A q \in DOMAIN rest : SafeWritten(rest'[q], dest'[q], AnyData) /\ SafeReading(rest[q])'
    BY <1>1, <1>2 DEF Alone
  <2> QED
    BY <1>2, <2>1 DEF SafeReads, Alone
\* and when it reads nothing then
<1>3. ASSUME NEW r \in DOMAIN rest, NEW t, SetRestore(r, t), UNCHANGED <<files, dest>>,
             SafeWritten(t, dest[r], AnyData), t.fd = "no", t.tmp = <<>>
      PROVE  SafeReads'
  <2>1. rest'[r] = t /\ Alone(r)
    BY <1>3 DEF SetRestore, Alone
  <2>2. SafeReading(rest[r])'
    BY <1>3, <2>1 DEF SafeReading
  <2> QED
    BY <1>2, <1>3, <2>1, <2>2
<1>4. ASSUME NEW r \in DOMAIN rest, NEW how \in {"threw", "stopped"},
             SetRestore(r, End(rest[r], how)), UNCHANGED <<files, dest>>
      PROVE  SafeReads'
  <2>1. /\ SafeWritten(End(rest[r], how), dest[r], AnyData)
        /\ End(rest[r], how).fd = "no" /\ End(rest[r], how).tmp = <<>>
    BY EndWritten DEF SafeReads
  <2> QED
    BY <1>3, <1>4, <2>1
<1>5. CASE UNCHANGED allVars
  <2>1. UNCHANGED <<files, rest, dest>>
    BY <1>5 DEF allVars, vars, restVars
  <2>2. \A q \in DOMAIN rest : SafeWritten(rest'[q], dest'[q], AnyData) /\ SafeReading(rest[q])'
    BY <1>1, <2>1
  <2> QED
    BY <2>1, <2>2 DEF SafeReads
<1>6. ASSUME NEW r \in Reader, NEW n \in Name, DownloadFiles(r, n)
      PROVE  SafeReads'
  <2> DEFINE s == RestoreOf(n)
  <2>1. rest' = With(rest, r, s) /\ UNCHANGED <<files, dest>>
    BY <1>6 DEF DownloadFiles, vars
  <2>2. SafeWritten(s, dest[r], AnyData) /\ s.fd = "no" /\ s.tmp = <<>>
    BY StartWritten
  <2> HIDE DEF s
  <2>3. rest'[r] = s /\ DOMAIN rest' = DOMAIN rest \cup {r}
        /\ \A q \in DOMAIN rest \ {r} : rest'[q] = rest[q]
    BY <2>1 DEF With
  <2>4. SafeWritten(rest'[r], dest'[r], AnyData) /\ SafeReading(rest[r])'
    BY <2>1, <2>2, <2>3 DEF SafeReading
  <2>5. \A q \in DOMAIN rest \ {r} :
           SafeWritten(rest'[q], dest'[q], AnyData) /\ SafeReading(rest[q])'
    BY <1>1, <2>1, <2>3
  <2> QED
    BY <2>1, <2>3, <2>4, <2>5 DEF SafeReads
<1>7. ASSUME NEW r \in Reader, StopRestore(r)
      PROVE  SafeReads'
  <2> DEFINE s == rest[r]
             t == [s EXCEPT !.cancelled = TRUE]
  <2>1. r \in DOMAIN rest /\ SetRestore(r, t) /\ UNCHANGED <<files, dest>>
    BY <1>7 DEF StopRestore, Active, vars
  <2>2. SafeWritten(s, dest[r], AnyData) /\ SafeReading(s)
    BY <2>1 DEF SafeReads
  <2>3. SafeWritten(t, dest[r], AnyData) /\ SameRead(s, t) /\ SameFiles(s, t)
    BY <2>2, StopWritten
  <2> HIDE DEF t
  <2>4. ObjectPath(t) = ObjectPath(s) /\ BlocksToGet(t) = BlocksToGet(s)
    BY <2>3, SameObject DEF SameRead
  <2>5. rest'[r] = t /\ Alone(r)
    BY <2>1 DEF SetRestore, Alone
  <2>6. ObjectPath(rest[r])' = ObjectPath(t) /\ BlocksToGet(rest[r])' = BlocksToGet(t)
    BY <2>5 DEF ObjectPath, BlocksToGet, Entry
  <2>7. SafeReading(rest[r])'
    BY <2>1, <2>2, <2>3, <2>4, <2>5, <2>6 DEF SafeReading, SameRead, SameFiles
  <2> QED
    BY <1>2, <2>1, <2>3, <2>5, <2>7
<1>8. ASSUME NEW r \in Reader, RestoreStep(r)
      PROVE  SafeReads'
  <2> DEFINE s == rest[r]
  <2>1. r \in DOMAIN rest /\ r \in DOMAIN dest /\ s.phase \in {"load", "files"}
    BY <1>8
    DEF RestoreStep, GetObject, GetOpen, GetRead, OpenDest, CloseDest, Finish, Active, SafeReads
  <2>2. SafeWritten(s, dest[r], AnyData) /\ SafeReading(s)
    BY <2>1 DEF SafeReads
  <2>3. UNCHANGED files
    BY <1>8, RestoresReadOnly DEF ReadOnly
  <2>4. CASE GetObject(r)
    <3>1. CASE Missing(r)
      BY <1>4, <2>1, <2>3, <3>1 DEF Missing
    <3>2. CASE Interrupt(r)
      BY <1>4, <2>1, <2>3, <3>2 DEF Interrupt
    <3>3. CASE ObjectPath(s) \in DOMAIN files /\ Got(r, files[ObjectPath(s)])
      <4>1. CellsOf(ObjectPath(s), files[ObjectPath(s)]) /\ BlocksToGet(s)
        BY <2>4, <3>3 DEF SafeCells, GetObject
      <4>2. /\ Alone(r) /\ SafeWritten(rest'[r], dest'[r], AnyData)
            /\ rest'[r].fd = "no" /\ rest'[r].tmp = <<>>
        BY <2>1, <2>2, <3>3, <4>1, GotWritten
      <4>3. SafeReading(rest[r])'
        BY <4>2 DEF SafeReading
      <4> QED
        BY <1>2, <2>1, <2>3, <4>2, <4>3
    <3> QED
      BY <2>4, <3>1, <3>2, <3>3 DEF GetObject
  <2>5. CASE GetOpen(r)
    <3>1. CASE Missing(r)
      BY <1>4, <2>1, <2>3, <3>1 DEF Missing
    <3>2. CASE /\ ObjectPath(s) \in DOMAIN files /\ UNCHANGED dest
               /\ SetRestore(r, [s EXCEPT !.fd = "yes"])
      <4> DEFINE t == [s EXCEPT !.fd = "yes"]
      <4>1. /\ DOMAIN t = RestoreFields /\ SameFiles(s, t) /\ t.name = s.name
            /\ t.fd = "yes" /\ t.tmp = s.tmp
        BY <2>2 DEF SafeWritten, RestoreFields, SameFiles
      <4>2. s.tmp = <<>> /\ BlocksToGet(s)
        BY <2>2, <2>5 DEF GetOpen, SafeReading
      <4>3. CellsOf(ObjectPath(s), <<>>)
        BY DEF CellsOf
      <4>4. rest'[r] = t /\ dest'[r] = dest[r] /\ Alone(r)
        BY <2>1, <3>2 DEF SetRestore, Alone
      <4> HIDE DEF t
      <4>5. /\ SafeWritten(t, dest[r], AnyData) /\ ObjectPath(t) = ObjectPath(s)
            /\ BlocksToGet(t) = BlocksToGet(s)
        BY <2>2, <4>1, SameWritten, SameObject
      <4>6. ObjectPath(rest[r])' = ObjectPath(s) /\ BlocksToGet(rest[r])' = BlocksToGet(s)
        BY <4>4, <4>5 DEF ObjectPath, BlocksToGet, Entry
      <4>7. SafeReading(rest[r])'
        BY <2>1, <2>3, <3>2, <4>1, <4>2, <4>3, <4>4, <4>6 DEF SafeReading, SameFiles
      <4> QED
        BY <1>2, <2>1, <2>3, <4>4, <4>5, <4>7
    <3> QED
      BY <2>5, <3>1, <3>2 DEF GetOpen
  <2>6. CASE GetRead(r)
    BY <1>2, <2>1, <2>3, <2>6, GetReadSafe
  <2>7. CASE OpenDest(r)
    <3>1. s.fd = "no" /\ s.tmp = <<>>
      BY <2>2, <2>7 DEF OpenDest, SafeReading, BlocksToGet
    <3>2. /\ Alone(r) /\ SafeWritten(rest'[r], dest'[r], AnyData) /\ SameRead(s, rest'[r])
      BY <2>1, <2>2, <2>7, OpenWritten
    <3>3. SafeReading(rest[r])'
      BY <3>1, <3>2 DEF SafeReading, SameRead
    <3> QED
      BY <1>2, <2>1, <2>3, <3>2, <3>3
  <2>8. CASE CloseDest(r)
    <3>1. s.fd = "no" /\ s.tmp = <<>>
      BY <2>2, <2>8 DEF CloseDest, SafeReading
    <3>2. /\ Alone(r) /\ SafeWritten(rest'[r], dest'[r], AnyData)
          /\ rest'[r].fd = "no" /\ rest'[r].tmp = <<>>
      BY <2>1, <2>2, <2>8, <3>1, CloseWritten
    <3>3. SafeReading(rest[r])'
      BY <3>2 DEF SafeReading
    <3> QED
      BY <1>2, <2>1, <2>3, <3>2, <3>3
  <2>9. CASE Finish(r)
    <3>1. s.phase = "files" /\ ~s.open /\ s.todo = {}
          /\ SetRestore(r, End(s, "done")) /\ UNCHANGED dest
      BY <2>9 DEF Finish
    <3>2. /\ SafeWritten(End(s, "done"), dest[r], AnyData)
          /\ End(s, "done").fd = "no" /\ End(s, "done").tmp = <<>>
      BY <2>2, <3>1, FinishWritten
    <3> QED
      BY <1>3, <2>1, <2>3, <3>1, <3>2
  <2> QED
    BY <1>8, <2>4, <2>5, <2>6, <2>7, <2>8, <2>9 DEF RestoreStep
<1>9. ASSUME NEW r \in Reader, RestoreError(r)
      PROVE  SafeReads'
  BY <1>4, <1>9 DEF RestoreError, Active
<1> QED
  BY <1>5, <1>6, <1>7, <1>8, <1>9, BackupReads DEF RestoreNext

\* At the start nothing is stored and nothing restored.
LEMMA InitReads == RestoreInit => TypeOK /\ SafeCells /\ SafeReads
<1>1. RestoreInit => TypeOK
  BY InitTypes DEF RestoreInit
<1>2. RestoreInit => SafeCells
  BY DEF RestoreInit, Init, StoreInit, EmptyFcn, SafeCells
<1> QED
  BY <1>1, <1>2 DEF RestoreInit, SafeReads, EmptyFcn

-----------------------------------------------------------------------------
\* Without packs, on either backend: whatever others truncate, write or remove
\* under a reader, all it has read was sealed for the object it was asked for,
\* and all it wrote is right.
THEOREM ReadsSafe ==
    ASSUME NoPacks
    PROVE  RestoreSpec => []SafeReads
<1>1. TypeOK /\ SafeCells /\ SafeReads /\ [RestoreNext]_allVars
         => TypeOK' /\ SafeCells' /\ SafeReads'
  BY CellsKept, NextReads
<1> QED
  BY <1>1, InitReads, PTL DEF RestoreSpec

\* What downloadFiles writes is what was backed up, with --no-verify too, from
\* a directory that is being written as well as from S3.
THEOREM RestoreIsRight ==
    ASSUME NoPacks
    PROVE  RestoreSpec => []AsRecorded
<1>1. SafeReads => AsRecorded
  <2> SUFFICES ASSUME SafeReads, NEW r \in DOMAIN rest
               PROVE  LET s == rest[r]
                      IN  /\ s.open => IsPrefix(dest[r][s.path], Entry(s).md5)
                          /\ \A p \in s.ok \ s.unflushed : dest[r][p] = s.snap[p].md5
                          /\ s.phase = "done" => DOMAIN s.snap = s.ok \cup s.kept
    BY DEF AsRecorded
  <2> DEFINE s == rest[r]
             d == dest[r]
  <2>1. SafeProgress(s) /\ SafeDirectory(s, d) /\ SafeSnapshot(s.snap, AnyData)
    BY DEF SafeReads, SafeWritten
  <2>2. ASSUME s.open PROVE IsPrefix(d[s.path], Entry(s).md5)
    <3>1. /\ d[s.path] \in Seq(Bytes) /\ Len(d[s.path]) <= Len(Entry(s).md5)
          /\ \A i \in 1..Len(d[s.path]) : d[s.path][i] = Entry(s).md5[i]
          /\ s.path \in DOMAIN s.snap
      BY <2>1, <2>2 DEF SafeDirectory, SafeProgress
    <3>2. Entry(s).md5 \in Seq(Bytes)
      BY <2>1, <3>1 DEF SafeSnapshot, SafeEntry, Entry
    <3> QED
      BY <3>1, <3>2 DEF IsPrefix
  <2> QED
    BY <2>1, <2>2 DEF SafeProgress, SafeDirectory
<1> QED
  BY <1>1, ReadsSafe, PTL


-----------------------------------------------------------------------------
(* What a restore needs, on S3 *)

\* The repository's invariants are not disturbed by restores.
LEMMA RepositoryKept ==
    ASSUME Backend = "s3", NoPacks, TypeOK, SafeBlocks, [RestoreNext]_allVars
    PROVE  TypeOK' /\ SafeBlocks' /\ DOMAIN files \subseteq DOMAIN files'
<1>1. CASE [Next]_vars
  BY <1>1, NextTypes, NextSafe, StoreOnlyGrows
<1>2. CASE ReadOnly
  <2>1. SafeBlocks'
    BY <1>2 DEF ReadOnly, SafeBlocks
  <2> QED
    BY <1>2, <2>1, ReadOnlyTypes DEF ReadOnly
<1> QED
  BY <1>1, <1>2, RepositorySteps

\* A safe block of an entry is opened, and gives the piece its md5 is of.
LEMMA SafeBlockOpens ==
    ASSUME SafeBlocks, NEW e, SafeEntry(e, DOMAIN files), NEW i \in 1..Len(e.ids)
    PROVE  LET path == DataPath(e.ids[i])
               range == RangeOfEntry(e, files[path])
           IN  /\ path \in DOMAIN files
               /\ Opens(e, range)
               /\ decompressDecryptHMAC(e.comp, range) = e.md5[i]
               /\ e.md5[i] \in Bytes
               /\ Len(e.ids) = Len(e.md5)
<1> DEFINE path == DataPath(e.ids[i])
           cells == files[path]
           pay == cells[1].pay
<1>1. /\ e.packLength = 0 /\ e.comp \in {0, 1}
      /\ e.ids \in Seq(Bytes) /\ e.md5 \in Seq(Bytes) /\ Len(e.ids) = Len(e.md5)
      /\ StoredBlocks(e.ids, e.comp, e.md5, DOMAIN files)
  BY DEF SafeEntry
<1>2. i \in DOMAIN e.ids /\ i \in DOMAIN e.md5 /\ e.md5[i] \in Bytes
  BY <1>1
<1>3. e.ids[i] = BlockId(e.comp, e.md5[i]) /\ path \in DOMAIN files
  BY <1>1, <1>2 DEF StoredBlocks
<1>4. SafeObject(path, cells, DOMAIN files)
  BY <1>3 DEF SafeBlocks
<1>5. RangeOfEntry(e, cells) = cells
  BY <1>1 DEF RangeOfEntry
<1>6. decompressDecryptHMAC(e.comp, cells) = e.md5[i]
  BY <1>1, <1>2, <1>3, <1>4, SafeObjectReads
<1>7. Opens(e, cells)
  <2>1. path[1] = "data"
    BY DEF DataPath
  <2>2. /\ VerifiesHMAC(cells)
        /\ pay.kind = "block" /\ pay.comp \in {0, 1} /\ pay.data \in Bytes
        /\ path = DataPath(BlockId(pay.comp, pay.data))
    BY <1>4, <2>1 DEF SafeObject
  <2>3. BlockId(pay.comp, pay.data) = BlockId(e.comp, e.md5[i])
    BY <1>3, <2>2 DEF DataPath
  <2>4. pay.comp = e.comp
    BY <1>1, <1>2, <2>2, <2>3, BlockIdInjective
  <2> QED
    BY <2>2, <2>4 DEF Opens
<1> QED
  BY <1>1, <1>2, <1>3, <1>5, <1>6, <1>7

\* A get() on S3 gives a restore what it needs, and leaves it safe.
LEMMA GetSafe ==
    ASSUME SafeBlocks, SafeRestores, NEW r \in DOMAIN rest, GetObject(r)
    PROVE  Alone(r) /\ SafeRestore(rest'[r], dest'[r], DOMAIN files)
<1> DEFINE s == rest[r]
           d == dest[r]
           path == ObjectPath(s)
           cells == files[path]
           t == Ready(s)
<1>1. /\ SafeRestore(s, d, DOMAIN files) /\ SafeWritten(s, d, DOMAIN files)
      /\ s.phase \in {"load", "files"} /\ BlocksToGet(s) /\ r \in DOMAIN dest
  BY DEF SafeRestores, SafeRestore, GetObject, Active
<1>2. SameFiles(s, t) /\ t.name = s.name /\ Entry(t) = Entry(s)
  BY <1>1, ReadyWritten DEF SameFiles, Entry
<1>3. ASSUME NEW u, SetRestore(r, u), UNCHANGED dest, SafeRestore(u, d, DOMAIN files)
      PROVE  Alone(r) /\ SafeRestore(rest'[r], dest'[r], DOMAIN files)
  BY <1>3 DEF SetRestore, Alone
<1>4. ASSUME NEW how \in {"threw", "stopped"}, how = "threw" => ~s.there,
             SetRestore(r, End(s, how)), UNCHANGED dest
      PROVE  Alone(r) /\ SafeRestore(rest'[r], dest'[r], DOMAIN files)
  <2> DEFINE u == End(s, how)
  <2>1. /\ SafeWritten(u, d, DOMAIN files) /\ u.phase = how
        /\ u.name = s.name /\ u.there = s.there /\ u.fd = "no"
    BY <1>1, EndWritten
  <2>2. SetRestore(r, u)
    BY <1>4
  <2> HIDE DEF u
  <2>3. SafeRestore(u, d, DOMAIN files)
    BY <1>1, <1>4, <2>1 DEF SafeRestore
  <2> QED
    BY <1>3, <1>4, <2>2, <2>3
<1>5. CASE s.phase = "load"
  <2>1. path = SnapshotPath(s.name)
    BY <1>5 DEF ObjectPath
  <2>2. CASE Missing(r)
    BY <1>1, <1>4, <2>1, <2>2 DEF Missing, SafeRestore
  <2>3. CASE path \in DOMAIN files /\ Got(r, cells)
    <3>1. Committed(s.name) /\ SafeSnapshot(loadSnapshot(s.name), DOMAIN files)
      BY <2>1, <2>3, SafeSnapshotsLoad
    <3>2. cells = get(SnapshotPath(s.name))
      BY <2>1, <2>3 DEF get
    <3> DEFINE snap == cells[1].pay.snap
               u == Loaded(s, snap)
    <3>3. /\ VerifiesHMAC(cells) /\ cells[1].pay.kind = "snapshot"
          /\ SafeSnapshot(snap, DOMAIN files)
      BY <3>1, <3>2 DEF Committed, loadSnapshot
    <3>4. SetRestore(r, u) /\ UNCHANGED dest
      BY <1>2, <1>5, <2>3, <3>3 DEF Got, Loaded, Ready, SameFiles
    <3>5. /\ SafeWritten(s, d, DOMAIN files) /\ SafeSnapshot(snap, DOMAIN files)
          /\ s.phase = "load"
      BY <1>1, <1>5, <3>3
    <3> HIDE DEF snap, s, d
    <3>6. /\ SafeWritten(u, d, DOMAIN files) /\ u.phase = "files"
          /\ u.name = s.name /\ u.there = s.there /\ u.fd = "no"
      BY <3>5, SnapshotWritten
    <3> HIDE DEF u
    <3>7. SafeRestore(u, d, DOMAIN files)
      BY <1>1, <3>6 DEF SafeRestore
    <3> QED
      BY <1>3, <3>4, <3>7
  <2>4. ~Interrupt(r)
    BY <1>5 DEF Interrupt
  <2> QED
    BY <2>2, <2>3, <2>4 DEF GetObject
<1>6. CASE s.phase = "files"
  <2> DEFINE e == Entry(s)
             i == s.block + 1
             range == RangeOfEntry(e, cells)
             piece == decompressDecryptHMAC(e.comp, range)
  <2>1. s.open /\ s.block < Len(e.ids) /\ path = DataPath(e.ids[i])
    BY <1>1, <1>6 DEF BlocksToGet, ObjectPath
  <2>2. SafeEntry(e, DOMAIN files) /\ d[s.path] \in Seq(Bytes) /\ s.block = Len(d[s.path])
    BY <1>1, <1>6, <2>1 DEF SafeWritten, SafeProgress, SafeDirectory, SafeSnapshot, Entry
  <2>3. e.ids \in Seq(Bytes)
    BY <2>2 DEF SafeEntry
  <2>4. i \in 1..Len(e.ids)
    BY <2>1, <2>2, <2>3
  <2>5. path \in DOMAIN files /\ Opens(e, range) /\ piece = e.md5[i]
    BY <2>1, <2>2, <2>4, SafeBlockOpens
  <2>6. ~Missing(r)
    BY <2>5 DEF Missing
  <2>7. CASE Interrupt(r)
    BY <1>4, <2>7 DEF Interrupt
  <2>8. CASE Got(r, cells)
    <3> DEFINE u == [t EXCEPT !.block = @ + 1]
               f == [d EXCEPT ![s.path] = Append(@, piece)]
    <3>1. RangeOfEntry(Entry(t), cells) = range /\ t.phase = "files" /\ t.path = s.path
      BY <1>2, <1>6 DEF SameFiles
    <3>2. SetRestore(r, u) /\ dest' = [dest EXCEPT ![r] = f]
      BY <1>2, <2>5, <2>8, <3>1, Zenon DEF Got, Ready
    <3>3. piece = e.md5[i] /\ SafeWritten(s, d, DOMAIN files) /\ s.phase = "files"
          /\ BlocksToGet(s)
      BY <1>1, <1>6, <2>5
    <3> HIDE DEF piece
    <3>4. /\ SafeWritten(u, f, DOMAIN files) /\ u.phase = "files"
          /\ u.name = s.name /\ u.there = s.there /\ u.fd = "no"
      BY <3>3, BlockWritten
    <3> HIDE DEF u, f
    <3>5. SafeRestore(u, f, DOMAIN files)
      BY <1>1, <3>4 DEF SafeRestore
    <3>6. rest'[r] = u /\ dest'[r] = f /\ Alone(r)
      BY <1>1, <3>2 DEF SetRestore, Alone
    <3> QED
      BY <3>5, <3>6
  <2> QED
    BY <2>5, <2>6, <2>7, <2>8 DEF GetObject
<1> QED
  BY <1>1, <1>5, <1>6

\* Every step keeps SafeRestores.
LEMMA NextSafeRestores ==
    ASSUME Backend = "s3", NoPacks, TypeOK, SafeBlocks, SafeRestores,
           [RestoreNext]_allVars
    PROVE  SafeRestores'
<1>1. DOMAIN files \subseteq DOMAIN files'
  BY RepositoryKept
<1>2. ASSUME NEW s, NEW d, SafeRestore(s, d, DOMAIN files)
      PROVE  SafeRestore(s, d, DOMAIN files')
  BY <1>1, <1>2, WrittenGrows DEF SafeRestore
\* what is left to show when one restore moves
<1>3. ASSUME NEW r \in DOMAIN rest, Alone(r), SafeRestore(rest'[r], dest'[r], DOMAIN files)
      PROVE  SafeRestores'
  <2>1. \A q \in DOMAIN rest : SafeRestore(rest'[q], dest'[q], DOMAIN files)
    BY <1>3 DEF SafeRestores, Alone
  <2>2. \A q \in DOMAIN rest : SafeRestore(rest'[q], dest'[q], DOMAIN files')
    BY <1>2, <2>1
  <2> QED
    BY <1>3, <2>2 DEF SafeRestores, Alone
<1>4. ASSUME NEW r \in DOMAIN rest, NEW s, SetRestore(r, s), UNCHANGED dest,
             SafeWritten(s, dest[r], DOMAIN files), s.fd = "no",
             s.name = rest[r].name, s.there = rest[r].there, s.phase # "threw"
      PROVE  SafeRestores'
  <2>1. rest'[r] = s /\ dest'[r] = dest[r] /\ Alone(r)
    BY <1>4 DEF SetRestore, Alone
  <2>2. SafeRestore(s, dest[r], DOMAIN files)
    BY <1>4 DEF SafeRestores, SafeRestore
  <2> QED
    BY <1>3, <2>1, <2>2
<1>5. CASE UNCHANGED allVars
  BY <1>5 DEF allVars, vars, restVars, SafeRestores
<1>6. CASE BackupStep
  <2>1. \A r \in DOMAIN rest : Removed(rest[r]) = rest[r]
    BY DEF Removed, SafeRestores, SafeRestore
  <2>2. /\ DOMAIN rest' = DOMAIN rest /\ UNCHANGED dest
        /\ \A r \in DOMAIN rest : rest'[r] = rest[r]
    BY <1>6, <2>1 DEF BackupStep
  <2>3. \A r \in DOMAIN rest : SafeRestore(rest'[r], dest[r], DOMAIN files')
    BY <1>2, <2>2 DEF SafeRestores
  <2> QED
    BY <2>2, <2>3 DEF SafeRestores
<1>7. ASSUME NEW r \in Reader, NEW n \in Name, DownloadFiles(r, n)
      PROVE  SafeRestores'
  <2> DEFINE s == RestoreOf(n)
  <2>1. Committed(n) => SnapshotPath(n) \in DOMAIN files
    BY DEF Committed, get, VerifiesHMAC
  <2>2. SafeRestore(s, dest[r], DOMAIN files)
    BY <2>1, StartWritten DEF SafeRestore
  <2>3. /\ rest' = With(rest, r, s) /\ UNCHANGED <<files, dest>>
    BY <1>7 DEF DownloadFiles, vars
  <2> HIDE DEF s
  <2> QED
    BY <2>2, <2>3 DEF SafeRestores, With
<1>8. ASSUME NEW r \in Reader, StopRestore(r)
      PROVE  SafeRestores'
  <2> DEFINE s == rest[r]
             t == [s EXCEPT !.cancelled = TRUE]
  <2>1. /\ r \in DOMAIN rest /\ SetRestore(r, t) /\ UNCHANGED dest
        /\ s.phase \in {"load", "files"}
    BY <1>8 DEF StopRestore, Active
  <2>2. SafeWritten(s, dest[r], DOMAIN files) /\ s.fd = "no"
    BY <2>1 DEF SafeRestores, SafeRestore
  <2>3. SafeWritten(t, dest[r], DOMAIN files) /\ SameRead(s, t) /\ SameFiles(s, t)
    BY <2>2, StopWritten
  <2> HIDE DEF t
  <2> QED
    BY <1>4, <2>1, <2>2, <2>3 DEF SameRead, SameFiles
<1>9. ASSUME NEW r \in DOMAIN rest, NEW how \in {"stopped", "done"},
             LET s == End(rest[r], how)
             IN  /\ SetRestore(r, s) /\ UNCHANGED dest
                 /\ SafeWritten(s, dest[r], DOMAIN files) /\ s.phase = how
                 /\ s.name = rest[r].name /\ s.there = rest[r].there /\ s.fd = "no"
      PROVE  SafeRestores'
  <2> DEFINE s == End(rest[r], how)
  <2>1. /\ SetRestore(r, s) /\ UNCHANGED dest
        /\ SafeWritten(s, dest[r], DOMAIN files) /\ s.phase = how
        /\ s.name = rest[r].name /\ s.there = rest[r].there /\ s.fd = "no"
    BY <1>9
  <2> HIDE DEF s
  <2> QED
    BY <1>4, <2>1
<1>10. ASSUME NEW r \in Reader, RestoreStep(r)
       PROVE  SafeRestores'
  <2> DEFINE s == rest[r]
             d == dest[r]
  <2>1. r \in DOMAIN rest
    BY <1>10
    DEF RestoreStep, GetObject, GetOpen, GetRead, OpenDest, CloseDest, Finish, Active
  <2>2. /\ SafeRestore(s, d, DOMAIN files) /\ SafeWritten(s, d, DOMAIN files)
        /\ s.fd = "no" /\ r \in DOMAIN dest
    BY <2>1 DEF SafeRestores, SafeRestore
  <2>3. CASE GetObject(r)
    BY <1>3, <2>1, <2>3, GetSafe
  <2>4. CASE OpenDest(r)
    <3>1. /\ Alone(r) /\ SafeWritten(rest'[r], dest'[r], DOMAIN files)
          /\ rest'[r].phase = "files" /\ SameRead(s, rest'[r])
      BY <2>1, <2>2, <2>4, OpenWritten
    <3>2. SafeRestore(rest'[r], dest'[r], DOMAIN files)
      BY <2>2, <3>1 DEF SafeRestore, SameRead
    <3> QED
      BY <1>3, <2>1, <3>1, <3>2
  <2>5. CASE CloseDest(r)
    <3>1. /\ Alone(r) /\ SafeWritten(rest'[r], dest'[r], DOMAIN files)
          /\ rest'[r].phase \in {"files", "stopped"}
          /\ rest'[r].name = s.name /\ rest'[r].there = s.there /\ rest'[r].fd = "no"
      BY <2>1, <2>2, <2>5, CloseWritten
    <3>2. SafeRestore(rest'[r], dest'[r], DOMAIN files)
      BY <2>2, <3>1 DEF SafeRestore
    <3> QED
      BY <1>3, <2>1, <3>1, <3>2
  <2>6. ~GetOpen(r) /\ ~GetRead(r)
    BY <2>2 DEF GetOpen, GetRead
  <2>7. CASE Finish(r)
    <3> DEFINE t == End(s, "done")
    <3>1. SetRestore(r, t) /\ UNCHANGED dest /\ s.phase = "files" /\ ~s.open /\ s.todo = {}
      BY <2>7 DEF Finish
    <3>2. /\ SafeWritten(t, d, DOMAIN files) /\ t.phase = "done"
          /\ t.name = s.name /\ t.there = s.there /\ t.fd = "no"
      BY <2>2, <3>1, FinishWritten
    <3> QED
      BY <1>9, <2>1, <3>1, <3>2
  <2> QED
    BY <1>10, <2>3, <2>4, <2>5, <2>6, <2>7 DEF RestoreStep
<1>11. ASSUME NEW r \in Reader, RestoreError(r)
       PROVE  SafeRestores'
  <2> DEFINE t == End(rest[r], "stopped")
  <2>1. r \in DOMAIN rest /\ SetRestore(r, t) /\ UNCHANGED dest
    BY <1>11 DEF RestoreError, Active
  <2>2. SafeWritten(rest[r], dest[r], DOMAIN files)
    BY <2>1 DEF SafeRestores, SafeRestore
  <2>3. /\ SafeWritten(t, dest[r], DOMAIN files) /\ t.phase = "stopped"
        /\ t.name = rest[r].name /\ t.there = rest[r].there /\ t.fd = "no"
    BY <2>2, EndWritten
  <2> QED
    BY <1>9, <2>1, <2>3
<1> QED
  BY <1>5, <1>6, <1>7, <1>8, <1>10, <1>11 DEF RestoreNext

\* At the start nothing is stored and nothing restored.
LEMMA InitSafeRestores == RestoreInit => TypeOK /\ SafeBlocks /\ SafeRestores
BY InitTypes, InitSafe DEF RestoreInit, SafeRestores, EmptyFcn

\* On S3 and without packs, all that a running restore still needs is in the
\* store and all that it wrote is right, at every moment.
THEOREM RestoresSafe ==
    ASSUME Backend = "s3", NoPacks
    PROVE  RestoreSpec => []SafeRestores
<1>1. TypeOK /\ SafeBlocks /\ SafeRestores /\ [RestoreNext]_allVars
         => TypeOK' /\ SafeBlocks' /\ SafeRestores'
  BY RepositoryKept, NextSafeRestores
<1> QED
  BY <1>1, InitSafeRestores, PTL DEF RestoreSpec

\* A restore from S3 of a snapshot that is there never fails for want of data,
\* whatever is backed up, overwritten, abandoned or stored late meanwhile.
THEOREM RestoreNeverFails ==
    ASSUME Backend = "s3", NoPacks
    PROVE  RestoreSpec => []RestoreSucceeds
<1>1. SafeRestores => RestoreSucceeds
  BY DEF SafeRestores, SafeRestore, RestoreSucceeds
<1> QED
  BY <1>1, RestoresSafe, PTL

=============================================================================
