-------------------------- MODULE ReferenceProofs --------------------------
(***************************************************************************)
(* Proofs about what a repository with packs refers to and stores.  On S3  *)
(* nothing that a snapshot refers to is missing and no snapshot is lost,   *)
(* although a pack that is found in the store may be another one than its  *)
(* name was computed from; and every data object is complete, there always *)
(* and in a directory until something fails.  A directory that nothing     *)
(* disturbs restores what was packed, unless a pack was found in it.       *)
(***************************************************************************)
EXTENDS RepositoryProofs, WellFoundedInduction

-----------------------------------------------------------------------------
(***************************************************************************)
(* Why data objects are complete.  Whatever put() is given is.  On S3 that *)
(* is all there ever is at a path.  In a directory it is there when put()  *)
(* returns, if nothing fails and nobody else writes: until then the first  *)
(* chunks of it are.                                                       *)
(***************************************************************************)
WholeAt(path, cells) ==
    path[1] = "data" => path = DataPath(path[2]) /\ WholeObject(path[2], cells)

SafeObjects ==
    /\ \A p \in DOMAIN files : WholeAt(p, files[p])
    /\ \A c \in DOMAIN put : WholeAt(put[c].path, put[c].data)
    /\ \A t \in late : WholeAt(t.path, t.data)

\* no fault so far, and backups one after the other
Undisturbed == faults = 0 /\ (started <= 1 \/ \A c, d \in Client : c = d)

\* the first n chunks of what a put() was given
Beginning(t, n) == [k \in 1..n |-> t.data[k]]

WholePut(t) ==
    /\ Len(t.data) \in Nat
    /\ t.data = Beginning(t, Len(t.data))
    /\ WholeAt(t.path, t.data)

\* put() has not begun, or has written some of them
SafeWrite(t) ==
    \/ t.open = "no" /\ t.pos = 0
    \/ /\ t.open = "yes"
       /\ t.pos <= Len(t.data)
       /\ t.path \in DOMAIN files
       /\ files[t.path] = Beginning(t, t.pos)

\* the paths at which nothing is being written
AtRest == DOMAIN files \ {put[c].path : c \in {d \in DOMAIN put : put[d].open # "no"}}

SafeWrites ==
    /\ late = {}
    /\ started = 0 => DOMAIN sess = {}
    /\ \A c \in DOMAIN put : WholePut(put[c])
    /\ Undisturbed =>
          /\ \A c, d \in DOMAIN sess : c = d
          /\ \A c \in DOMAIN put : SafeWrite(put[c])
          /\ \A p \in AtRest : WholeAt(p, files[p])

-----------------------------------------------------------------------------
(***************************************************************************)
(* Why what is in a directory can be restored, packs included, as long as  *)
(* nothing fails, backups run one after the other and none finds a pack:   *)
(* objects that entries refer to are at rest and stay as they are, the     *)
(* ranges of a pack are those of the file its put() has written, and an    *)
(* object that is there and not a pack is the block that it is taken for.  *)
(***************************************************************************)
\* finalizePack does not find its pack, nor uploadFile one in place of a block
NoPackFound ==
    \A c \in DOMAIN sess : Running(c) =>
        LET s == sess[c]
            block == DataPath(NextBlockId(s))
        IN  /\ Finalizing(s) => DataPath(PackId(s.pack)) \notin DOMAIN files
            /\ Uploading(s) /\ BlocksLeft(s) /\ block \in DOMAIN files =>
                  \/ NextBlockId(s) # PackId(SealedIn(files[block]))
                  \/ SafeObject(block, files[block], {})

\* cells are a block or a pack, and path is its id
SealedAt(path, cells) ==
    path[1] = "data" =>
        SafeObject(path, cells, {}) \/ path = DataPath(PackId(SealedIn(cells)))

\* downloadFile gives what was backed up, from these objects, and finds one
\* seal in the range of a pack
EntryReads(e, objects) ==
    /\ \A i \in DOMAIN e.ids : DataPath(e.ids[i]) \in DOMAIN objects
    /\ e.md5 = [i \in DOMAIN e.ids |-> PieceOf(e, objects[DataPath(e.ids[i])])]
    /\ e.packLength > 0 =>
          /\ 1 \in DOMAIN e.ids
          /\ VerifiesHMAC(RangeOf(objects[DataPath(e.ids[1])], e.offset, e.packLength))

ReadsBack(snap, objects) == \A p \in DOMAIN snap : EntryReads(snap[p], objects)

\* and so do the blocks of the current file that were uploaded
SafeUpload(s, objects) ==
    IF ArgOpen(s) /\ ~ToPack(s)
    THEN /\ Len(s.ids) <= Len(CurrentFile(s).blocks)
         /\ \A i \in DOMAIN s.ids :
               /\ DataPath(s.ids[i]) \in DOMAIN objects
               /\ decompressDecryptHMAC(CurrentFile(s).comp, objects[DataPath(s.ids[i])])
                     = CurrentFile(s).blocks[i]
    ELSE s.ids = <<>>

SafeBackup(s, objects) ==
    /\ ReadsBack(s.snap, objects)
    /\ SafeUpload(s, objects)
    /\ s.args = <<>> => s.pack = <<>>

\* a put() is given what its session will refer to
SafeSent(c, s, t) ==
    /\ SealedAt(t.path, t.data)
    /\ Uploading(s) =>
          /\ t.path = DataPath(NextBlockId(s))
          /\ t.data = compressEncryptHMAC(c, Block(CurrentFile(s).comp, NextBlock(s)))
    /\ Finalizing(s) =>
          /\ t.path = DataPath(PackId(s.pack))
          /\ t.data = FlattenSeq(PackSeals(c, s.pack))
    /\ t.path[1] = "snapshot" => t.data = compressEncryptHMAC(c, SnapshotFile(s.snap))

\* what nobody is writing
Resting == [p \in AtRest |-> files[p]]

\* put() truncates no data object
OpensNothing(t) == t.path[1] = "snapshot" \/ t.open # "no" \/ t.path \notin DOMAIN files

SafePacks ==
    Undisturbed =>
        /\ \A p \in AtRest :
              IF p[1] = "snapshot" THEN ReadsBack(files[p][1].pay.snap, Resting)
                                   ELSE SealedAt(p, files[p])
        /\ \A c \in DOMAIN sess : SafeBackup(sess[c], Resting)
        /\ \A c \in DOMAIN put : SafeSent(c, sess[c], put[c]) /\ OpensNothing(put[c])

-----------------------------------------------------------------------------

\* More objects in the store make no reference worse.
LEMMA CommitGrows ==
    ASSUME NEW stored, NEW more, stored \subseteq more, NEW path, NEW cells,
           SafeCommit(path, cells, stored)
    PROVE  SafeCommit(path, cells, more)
BY DEF SafeCommit

\* Data objects are no snapshots.
LEMMA DataCommit ==
    ASSUME NEW id, NEW cells, NEW stored
    PROVE  SafeCommit(DataPath(id), cells, stored)
BY DEF SafeCommit, DataPath

\* A sealed snapshot is as good as what it refers to.
LEMMA SealedCommit ==
    ASSUME NEW by, NEW path, NEW snap, NEW stored, Referred(snap) \subseteq stored
    PROVE  SafeCommit(path, compressEncryptHMAC(by, SnapshotFile(snap)), stored)
<1> DEFINE cells == compressEncryptHMAC(by, SnapshotFile(snap))
<1>1. VerifiesHMAC(cells) /\ cells[1].pay = SnapshotFile(snap)
  BY SealVerifies, SealLengths
<1>2. SnapshotFile(snap).kind = "snapshot" /\ SnapshotFile(snap).snap = snap
  BY DEF SnapshotFile
<1> HIDE DEF cells
<1> QED
  BY <1>1, <1>2 DEF SafeCommit, cells

\* An entry adds the ids it has to what a snapshot refers to.
LEMMA EntryReferred ==
    ASSUME NEW snap, NEW path, NEW ids, NEW comp, NEW md5, NEW stored,
           Referred(snap) \subseteq stored,
           \A i \in DOMAIN ids : DataPath(ids[i]) \in stored
    PROVE  Referred(addFileEntry(snap, path, FileEntry(ids, comp, 0, 0, md5))) \subseteq stored
<1> DEFINE e == FileEntry(ids, comp, 0, 0, md5)
           new == addFileEntry(snap, path, e)
<1>1. e.ids = ids
  BY DEF FileEntry
<1> HIDE DEF e
<1>2. \A p \in DOMAIN new : (p \in DOMAIN snap /\ new[p] = snap[p]) \/ new[p] = e
  BY DEF addFileEntry, With
<1> HIDE DEF new
<1>3. \A p \in DOMAIN new : \A i \in DOMAIN new[p].ids : DataPath(new[p].ids[i]) \in stored
  BY <1>1, <1>2 DEF Referred
<1> QED
  BY <1>3 DEF Referred, new, e

\* The entries of a pack refer to the pack.
LEMMA PackReferred ==
    ASSUME NEW snap, NEW pack, NEW offset, NEW packLength, NEW stored,
           Referred(snap) \subseteq stored, DataPath(PackId(pack)) \in stored
    PROVE  Referred(AddPackEntries(snap, pack, offset, packLength)) \subseteq stored
<1> DEFINE new == AddPackEntries(snap, pack, offset, packLength)
<1>1. ASSUME NEW p \in DOMAIN new
      PROVE  (p \in DOMAIN snap /\ new[p] = snap[p]) \/ new[p].ids = <<PackId(pack)>>
  BY DEF AddPackEntries, FileEntry
<1> HIDE DEF new
<1>2. ASSUME NEW p \in DOMAIN new, NEW i \in DOMAIN new[p].ids
      PROVE  DataPath(new[p].ids[i]) \in stored
  BY <1>1, <1>2 DEF Referred
<1> QED
  BY <1>2 DEF Referred, new

\* Initially nothing refers to anything.
LEMMA InitReferences == Init => SafeReferences
BY DEF Init, StoreInit, EmptyFcn, SafeReferences

\* Every step keeps SafeReferences.
LEMMA NextReferences ==
    ASSUME Backend = "s3", TypeOK, SafeReferences, [Next]_vars
    PROVE  SafeReferences'
<1> DEFINE Grows == /\ DOMAIN files \subseteq DOMAIN files'
                    /\ \A p \in DOMAIN files' : SafeCommit(p, files'[p], DOMAIN files')
                    /\ \A t \in late' : SafeCommit(t.path, t.data, DOMAIN files')
           Kept == \A d \in DOMAIN put' : d \in DOMAIN put /\ put'[d] = put[d]
           Refers(s) == /\ Referred(s.snap) \subseteq DOMAIN files'
                        /\ \A i \in DOMAIN s.ids : DataPath(s.ids[i]) \in DOMAIN files'
                        /\ s.args = <<>> => s.pack = <<>>
           Serves(s, path) == /\ Uploading(s) => path = DataPath(NextBlockId(s))
                              /\ Finalizing(s) => path = DataPath(PackId(s.pack))
<1>1. ASSUME UNCHANGED <<files, late>>
      PROVE  Grows
  BY <1>1 DEF SafeReferences
<1>2. ASSUME UNCHANGED vars
      PROVE  SafeReferences'
  BY <1>2 DEF vars, SafeReferences
\* what was safe stays safe as the store grows
<1>3. ASSUME DOMAIN files \subseteq DOMAIN files'
      PROVE  /\ \A d \in DOMAIN sess : Refers(sess[d])
             /\ \A d \in DOMAIN put : SafeCommit(put[d].path, put[d].data, DOMAIN files')
             /\ \A t \in late : SafeCommit(t.path, t.data, DOMAIN files')
             /\ \A p \in DOMAIN files : SafeCommit(p, files[p], DOMAIN files')
             /\ \A d \in DOMAIN put : Serves(sess[d], put[d].path)
             /\ \A d \in DOMAIN put : put[d].open # "no" => put[d].path \in DOMAIN files'
  BY <1>3, CommitGrows DEF SafeReferences
\* what is left to show when nobody's transfer is new and sessions changed
<1>4. ASSUME Grows, Kept, \A d \in DOMAIN sess' : Refers(sess'[d]),
             \A d \in DOMAIN put' : Serves(sess'[d], put'[d].path)
      PROVE  SafeReferences'
  <2>1. /\ \A d \in DOMAIN put' : SafeCommit(put'[d].path, put'[d].data, DOMAIN files')
        /\ \A d \in DOMAIN put' : put'[d].open # "no" => put'[d].path \in DOMAIN files'
    BY <1>3, <1>4
  <2> QED
    BY <1>4, <2>1 DEF SafeReferences
\* when a client's session is replaced by s
<1>5. ASSUME NEW c \in DOMAIN sess, NEW s, SetSession(c, s), Grows, Kept, Refers(s),
             c \notin DOMAIN put'
      PROVE  SafeReferences'
  <2>1. /\ \A d \in DOMAIN sess' : d \in DOMAIN sess /\ (sess'[d] = s \/ sess'[d] = sess[d])
        /\ \A d \in DOMAIN put' : sess'[d] = sess[d]
    BY <1>5 DEF SetSession, TypeOK
  <2> HIDE DEF Refers, Serves
  <2>2. \A d \in DOMAIN sess' : Refers(sess'[d])
    BY <1>3, <1>5, <2>1
  <2>3. \A d \in DOMAIN put' : Serves(sess'[d], put'[d].path)
    BY <1>3, <1>5, <2>1
  <2> QED
    BY <1>4, <1>5, <2>2, <2>3
\* when it ends
<1>6. ASSUME NEW c, EndSession(c), Grows, Kept, c \notin DOMAIN put'
      PROVE  SafeReferences'
  <2>1. /\ \A d \in DOMAIN sess' : d \in DOMAIN sess /\ sess'[d] = sess[d]
        /\ \A d \in DOMAIN put' : sess'[d] = sess[d]
    BY <1>6 DEF EndSession, Without, TypeOK
  <2> HIDE DEF Refers, Serves
  <2>2. \A d \in DOMAIN sess' : Refers(sess'[d])
    BY <1>3, <1>6, <2>1
  <2>3. \A d \in DOMAIN put' : Serves(sess'[d], put'[d].path)
    BY <1>3, <1>6, <2>1
  <2> QED
    BY <1>4, <1>6, <2>2, <2>3
\* and when it begins a put()
<1>7. ASSUME NEW c \in DOMAIN sess, NEW path, NEW data, PutStart(c, path, data),
             UNCHANGED sess, SafeCommit(path, data, DOMAIN files), Serves(sess[c], path)
      PROVE  SafeReferences'
  <2>1. \A d \in DOMAIN put' : put'[d] = IF d = c THEN Transfer(path, data) ELSE put[d]
    BY <1>7 DEF PutStart, With
  <2>2. DOMAIN put' = DOMAIN put \cup {c}
    BY <1>7 DEF PutStart, With
  <2>3. /\ Transfer(path, data).path = path /\ Transfer(path, data).data = data
        /\ Transfer(path, data).open = "no"
    BY DEF Transfer
  <2>4. UNCHANGED <<files, late>>
    BY <1>7 DEF PutStart
  <2> QED
    BY <1>7, <2>1, <2>2, <2>3, <2>4 DEF SafeReferences
<1>8. ASSUME NEW c \in DOMAIN put, PutAbandon(c) \/ PutReturn(c)
      PROVE  Grows /\ Kept /\ c \notin DOMAIN put'
  <2>1. UNCHANGED files /\ put' = Without(put, c) /\ late' \subseteq late \cup {put[c]}
    BY <1>8 DEF PutAbandon, PutReturn
  <2>2. Grows
    BY <2>1 DEF SafeReferences
  <2> QED
    BY <2>1, <2>2 DEF Without
\* an object that was on its way is stored
<1>9. ASSUME NEW t, SafeCommit(t.path, t.data, DOMAIN files),
             files' = With(files, t.path, t.data), late' \subseteq late
      PROVE  Grows /\ t.path \in DOMAIN files'
  <2>1. DOMAIN files \subseteq DOMAIN files' /\ t.path \in DOMAIN files'
    BY <1>9 DEF With
  <2>2. SafeCommit(t.path, t.data, DOMAIN files')
    BY <1>9, <2>1, CommitGrows
  <2> QED
    BY <1>3, <1>9, <2>1, <2>2 DEF With
<1>10. ASSUME NEW c \in Client, NEW n \in Name, NEW job \in Job, Backup(c, n, job)
       PROVE  SafeReferences'
  <2> DEFINE s == Session(n, job)
  <2>1. /\ c \notin DOMAIN sess /\ UNCHANGED <<files, put, late>>
        /\ sess' = With(sess, c, s)
    BY <1>10 DEF Backup, storeVars
  <2>2. s.snap = EmptyFcn /\ s.ids = <<>> /\ s.pack = <<>>
    BY DEF Session
  <2>3. Refers(s)
    BY <2>2 DEF Referred, EmptyFcn
  <2>4. /\ \A d \in DOMAIN sess' : (d \in DOMAIN sess /\ sess'[d] = sess[d]) \/ sess'[d] = s
        /\ \A d \in DOMAIN put' : sess'[d] = sess[d]
    BY <2>1 DEF With, TypeOK
  <2> HIDE DEF Refers, Serves, s
  <2>5. \A d \in DOMAIN sess' : Refers(sess'[d])
    BY <1>3, <2>1, <2>3, <2>4
  <2>6. \A d \in DOMAIN put' : Serves(sess'[d], put'[d].path)
    BY <1>3, <2>1, <2>4
  <2> QED
    BY <1>1, <1>4, <2>1, <2>5, <2>6
<1>11. ASSUME NEW c \in Client, Signal(c)
       PROVE  SafeReferences'
  <2> DEFINE s == sess[c]
             t == [s EXCEPT !.cancelled = TRUE]
  <2>1. SessionOK(s) /\ c \in DOMAIN sess
    BY <1>11 DEF Signal, TypeOK
  <2>2. /\ t.args = s.args /\ t.job = s.job /\ t.pack = s.pack /\ t.ids = s.ids
        /\ t.writePack = s.writePack /\ t.snap = s.snap
    BY <2>1 DEF SessionOK
  <2>3. /\ UNCHANGED <<files, put, late>>
        /\ DOMAIN sess' = DOMAIN sess
        /\ \A d \in DOMAIN sess : sess'[d] = IF d = c THEN t ELSE sess[d]
    BY <1>11 DEF Signal, storeVars
  <2> HIDE DEF t
  <2>4. ASSUME NEW path
        PROVE  Serves(s, path) => Serves(t, path)
    BY <2>2 DEF Uploading, ArgOpen, ArgDone, CurrentFile, ToPack, NextBlockId, NextBlock,
                Finalizing
  <2>5. Refers(s) => Refers(t)
    BY <2>2
  <2> HIDE DEF Refers, Serves
  <2>6. \A d \in DOMAIN sess' : Refers(sess'[d])
    BY <1>3, <2>3, <2>5
  <2>7. \A d \in DOMAIN put' : Serves(sess'[d], put'[d].path)
    BY <1>3, <2>3, <2>4 DEF TypeOK
  <2> QED
    BY <1>1, <1>4, <2>3, <2>6, <2>7
<1>12. ASSUME NEW c \in Client, AddToPack(c)
       PROVE  SafeReferences'
  <2> DEFINE s == sess[c]
             f == CurrentFile(s)
             added == [s EXCEPT
                         !.args = NextFile(@),
                         !.pack = Append(@, [path |-> f.path, comp |-> f.comp,
                                             data |-> f.blocks[1]])]
             full == [added EXCEPT !.writePack = TRUE]
  <2>1. /\ SessionOK(s) /\ ArgOpen(s) /\ c \in DOMAIN sess /\ c \notin DOMAIN put
        /\ UNCHANGED <<files, put, late>>
    BY <1>12 DEF AddToPack, Running, TypeOK, storeVars
  <2>2. NextFile(s.args) # <<>>
    BY <2>1 DEF NextFile, SessionOK, ArgOpen
  <2>3. /\ added.snap = s.snap /\ added.ids = s.ids /\ added.args # <<>>
        /\ full.snap = s.snap /\ full.ids = s.ids /\ full.args # <<>>
    BY <2>1, <2>2 DEF SessionOK
  <2>4. Refers(s)
    BY <1>3, <2>1
  <2>5. Refers(added) /\ Refers(full)
    BY <2>3, <2>4
  <2>6. SetSession(c, added) \/ SetSession(c, full) \/ EndSession(c)
    BY <1>12 DEF AddToPack
  <2> HIDE DEF Refers, added, full
  <2> QED
    BY <1>1, <1>5, <1>6, <2>1, <2>5, <2>6
\* the id of an object that is stored is added to those of the file
<1>13. ASSUME NEW c \in DOMAIN sess, DataPath(NextBlockId(sess[c])) \in DOMAIN files',
              Uploading(sess[c]), BlocksLeft(sess[c]), DOMAIN files \subseteq DOMAIN files'
       PROVE  Refers([sess[c] EXCEPT !.ids = Append(@, NextBlockId(sess[c]))])
  <2> DEFINE s == sess[c]
             id == NextBlockId(s)
             t == [s EXCEPT !.ids = Append(@, id)]
  <2>1. SessionOK(s) /\ Refers(s) /\ id \in Bytes /\ s.args # <<>>
    BY <1>3, <1>13, NextBlockType DEF TypeOK, Uploading, ArgOpen
  <2>2. t.snap = s.snap /\ t.args = s.args /\ t.ids = Append(s.ids, id)
    BY <2>1 DEF SessionOK
  <2>3. s.ids \in Seq(Bytes)
    BY <2>1 DEF SessionOK
  <2> HIDE DEF id, t
  <2>4. ASSUME NEW i \in DOMAIN t.ids
        PROVE  DataPath(t.ids[i]) \in DOMAIN files'
    <3>1. (i \in DOMAIN s.ids /\ t.ids[i] = s.ids[i]) \/ t.ids[i] = id
      BY <2>1, <2>2, <2>3, <2>4
    <3> QED
      BY <1>13, <2>1, <3>1 DEF id
  <2> QED
    BY <2>1, <2>2, <2>4 DEF t, id
<1>14. ASSUME NEW c \in Client, UploadBlock(c)
       PROVE  SafeReferences'
  <2> DEFINE s == sess[c]
             id == NextBlockId(s)
             data == compressEncryptHMAC(c, Block(CurrentFile(s).comp, NextBlock(s)))
             t == [s EXCEPT !.ids = Append(@, id)]
  <2>1. /\ Uploading(s) /\ BlocksLeft(s) /\ c \in DOMAIN sess /\ c \notin DOMAIN put
    BY <1>14 DEF UploadBlock, Running
  <2>2. CASE exist(DataPath(id), TRUE) /\ UNCHANGED <<files, put, late>> /\ SetSession(c, t)
    <3>1. DataPath(id) \in DOMAIN files'
      BY <2>2 DEF exist, HeadFails
    <3>2. Refers(t)
      BY <1>13, <2>1, <2>2, <3>1
    <3> HIDE DEF Refers, t
    <3> QED
      BY <1>1, <1>5, <2>1, <2>2, <3>2
  <2>3. CASE UNCHANGED <<files, put, late>> /\ EndSession(c)
    BY <1>1, <1>6, <2>1, <2>3
  <2>4. CASE UNCHANGED sess /\ PutStart(c, DataPath(id), data)
    <3>1. SafeCommit(DataPath(id), data, DOMAIN files)
      BY DataCommit
    <3>2. Serves(s, DataPath(id))
      BY <2>1 DEF Uploading, Finalizing, ArgOpen, ArgDone
    <3> HIDE DEF Serves
    <3> QED
      BY <1>7, <2>1, <2>4, <3>1, <3>2
  <2> QED
    BY <1>14, <2>2, <2>3, <2>4 DEF UploadBlock
<1>15. ASSUME NEW c \in Client, RecordFile(c)
       PROVE  SafeReferences'
  <2> DEFINE s == sess[c]
             f == CurrentFile(s)
             snap == addFileEntry(s.snap, f.path, FileEntry(s.ids, f.comp, 0, 0, f.blocks))
             t == [s EXCEPT !.args = NextFile(@), !.ids = <<>>, !.snap = snap]
  <2>1. /\ SessionOK(s) /\ ArgOpen(s) /\ c \in DOMAIN sess /\ c \notin DOMAIN put
        /\ UNCHANGED <<files, put, late>> /\ SetSession(c, t)
    BY <1>15 DEF RecordFile, Running, Uploading, TypeOK, storeVars
  <2>2. NextFile(s.args) # <<>>
    BY <2>1 DEF NextFile, SessionOK, ArgOpen
  <2>3. Referred(snap) \subseteq DOMAIN files'
    <3>1. Refers(s)
      BY <1>3, <2>1
    <3> QED
      BY <3>1, EntryReferred
  <2> HIDE DEF snap
  <2>4. t.args # <<>> /\ t.ids = <<>> /\ t.snap = snap
    BY <2>1, <2>2 DEF SessionOK
  <2>5. Refers(t)
    BY <2>3, <2>4
  <2> HIDE DEF Refers, t
  <2> QED
    BY <1>1, <1>5, <2>1, <2>5
\* finalizePack ends with the pack stored
<1>16. ASSUME NEW c \in DOMAIN sess, NEW offset, NEW packLength,
              DataPath(PackId(sess[c].pack)) \in DOMAIN files',
              DOMAIN files \subseteq DOMAIN files'
       PROVE  Refers(PackFinalized(sess[c], offset, packLength))
  <2> DEFINE s == sess[c]
             snap == AddPackEntries(s.snap, s.pack, offset, packLength)
             t == PackFinalized(s, offset, packLength)
  <2>1. SessionOK(s) /\ Refers(s)
    BY <1>3, <1>16 DEF TypeOK
  <2>2. Referred(snap) \subseteq DOMAIN files'
    BY <1>16, <2>1, PackReferred
  <2> HIDE DEF snap
  <2>3. t.snap = snap /\ t.ids = s.ids /\ t.pack = <<>>
    BY <2>1 DEF SessionOK, PackFinalized, snap
  <2> HIDE DEF t
  <2>4. Refers(t)
    BY <2>1, <2>2, <2>3
  <2> QED
    BY <2>4 DEF t
<1>17. ASSUME NEW c \in Client, FinalizePack(c)
       PROVE  SafeReferences'
  <2> DEFINE s == sess[c]
             path == DataPath(PackId(s.pack))
             index == [i \in DOMAIN s.pack |-> i - 1]
             data == FlattenSeq(PackSeals(c, s.pack))
  <2>1. c \in DOMAIN sess /\ c \notin DOMAIN put /\ Finalizing(s)
    BY <1>17 DEF FinalizePack, Running
  <2>2. ASSUME exist(path, TRUE), UNCHANGED <<files, put, late>>,
               NEW packLength, SetSession(c, PackFinalized(s, index, packLength))
        PROVE  SafeReferences'
    <3>1. path \in DOMAIN files'
      BY <2>2 DEF exist, HeadFails
    <3>2. Refers(PackFinalized(s, index, packLength))
      BY <1>16, <2>1, <2>2, <3>1
    <3> HIDE DEF Refers
    <3> QED
      BY <1>1, <1>5, <2>1, <2>2, <3>2
  <2>3. CASE UNCHANGED sess /\ PutStart(c, path, data)
    <3>1. SafeCommit(path, data, DOMAIN files)
      BY DataCommit
    <3>2. Serves(s, path)
      BY <2>1 DEF Uploading, Finalizing, ArgOpen, ArgDone
    <3> HIDE DEF Serves, path, data
    <3> QED
      BY <1>7, <2>1, <2>3, <3>1, <3>2
  <2> QED
    BY <1>17, <2>2, <2>3 DEF FinalizePack
<1>18. ASSUME NEW c \in Client, NextArg(c)
       PROVE  SafeReferences'
  <2> DEFINE s == sess[c]
             t == [s EXCEPT !.args = Tail(@)]
  <2>1. /\ SessionOK(s) /\ c \in DOMAIN sess /\ c \notin DOMAIN put
        /\ s.pack = <<>>
        /\ UNCHANGED <<files, put, late>> /\ SetSession(c, t)
    BY <1>18 DEF NextArg, Running, Finalizing, TypeOK, storeVars, SetSession
  <2>2. t.ids = s.ids /\ t.snap = s.snap /\ t.pack = s.pack
    BY <2>1 DEF SessionOK
  <2>3. Refers(s)
    BY <1>3, <2>1
  <2>4. Refers(t)
    BY <2>1, <2>2, <2>3
  <2> HIDE DEF Refers, t
  <2> QED
    BY <1>1, <1>5, <2>1, <2>4
<1>19. ASSUME NEW c \in Client, CommitSnapshot(c)
       PROVE  SafeReferences'
  <2> DEFINE s == sess[c]
             data == compressEncryptHMAC(c, SnapshotFile(s.snap))
  <2>1. /\ c \in DOMAIN sess /\ s.args = <<>> /\ s.pack = <<>> /\ UNCHANGED sess
        /\ PutStart(c, SnapshotPath(s.name), data)
        /\ Referred(s.snap) \subseteq DOMAIN files
    BY <1>19 DEF CommitSnapshot, Running, SafeReferences
  <2>2. SafeCommit(SnapshotPath(s.name), data, DOMAIN files)
    BY <2>1, SealedCommit
  <2>3. Serves(s, SnapshotPath(s.name))
    BY <2>1 DEF Uploading, Finalizing, ArgOpen
  <2> HIDE DEF Serves, data
  <2> QED
    BY <1>7, <2>1, <2>2, <2>3
<1>20. ASSUME NEW c \in Client, Transferring(c)
       PROVE  SafeReferences'
  <2>1. c \in DOMAIN put /\ PutStored(c) /\ UNCHANGED sess
    BY <1>20 DEF Transferring, Waiting, PutOpen, PutWrite, Writing, repoVars
  <2>2. files' = With(files, put[c].path, put[c].data) /\ UNCHANGED late
    BY <2>1 DEF PutStored
  <2>3. Grows /\ put[c].path \in DOMAIN files'
    BY <1>9, <2>1, <2>2 DEF SafeReferences
  <2>4. /\ DOMAIN put' = DOMAIN put
        /\ \A d \in DOMAIN put : put'[d].path = put[d].path /\ put'[d].data = put[d].data
        /\ \A d \in DOMAIN put \ {c} : put'[d] = put[d]
    BY <2>1 DEF PutStored, TypeOK, StoreOK, TransferOK
  <2>5. /\ \A d \in DOMAIN put' : SafeCommit(put'[d].path, put'[d].data, DOMAIN files')
        /\ \A d \in DOMAIN put' : put'[d].open # "no" => put'[d].path \in DOMAIN files'
    BY <1>3, <2>3, <2>4
  <2>6. /\ \A d \in DOMAIN sess' : Refers(sess'[d])
        /\ \A d \in DOMAIN put' : Serves(sess'[d], put'[d].path)
    <3> HIDE DEF Refers, Serves
    <3> QED
      BY <1>3, <2>1, <2>3, <2>4
  <2> QED
    BY <2>3, <2>5, <2>6 DEF SafeReferences
<1>21. ASSUME NEW c \in Client, CancelTransfer(c) \/ TransferError(c)
       PROVE  SafeReferences'
  <2>1. c \in DOMAIN put /\ PutAbandon(c) /\ EndSession(c)
    BY <1>21 DEF CancelTransfer, TransferError, Waiting, PutCancel, PutError, Writing
  <2> QED
    BY <1>6, <1>8, <2>1
<1>22. ASSUME NEW c \in Client, Transferred(c)
       PROVE  SafeReferences'
  <2> DEFINE s == sess[c]
             t == [s EXCEPT !.ids = Append(@, NextBlockId(s))]
             u == PackFinalized(s, PackOffsets(s.pack), PackLengths(s.pack))
  <2>1. c \in DOMAIN sess /\ c \in DOMAIN put /\ PutReturn(c)
    BY <1>22 DEF Transferred, Waiting
  <2>2. Grows /\ Kept /\ c \notin DOMAIN put'
    BY <1>8, <2>1
  <2>3. put[c].path \in DOMAIN files' /\ Serves(s, put[c].path)
    BY <1>3, <2>1, <2>2 DEF PutReturn, Writing
  <2>4. CASE Uploading(s) /\ SetSession(c, t)
    <3>1. BlocksLeft(s)
      BY <2>1, <2>4 DEF TypeOK
    <3>2. Refers(t)
      BY <1>13, <2>1, <2>2, <2>3, <2>4, <3>1
    <3> HIDE DEF Refers, Grows, Kept, t
    <3> QED
      BY <1>5, <2>1, <2>2, <2>4, <3>2
  <2>5. CASE Finalizing(s) /\ SetSession(c, u)
    <3>1. Refers(u)
      BY <1>16, <2>1, <2>2, <2>3, <2>5
    <3> HIDE DEF Refers, Grows, Kept, u
    <3> QED
      BY <1>5, <2>1, <2>2, <2>5, <3>1
  <2>6. CASE EndSession(c)
    BY <1>6, <2>2, <2>6
  <2> QED
    BY <1>22, <2>4, <2>5, <2>6 DEF Transferred
<1>23. ASSUME NEW c \in Client, Crash(c)
       PROVE  SafeReferences'
  <2>1. CASE PutAbandon(c)
    BY <1>6, <1>8, <1>23, <2>1 DEF Crash, PutAbandon
  <2>2. CASE c \notin DOMAIN put /\ UNCHANGED <<files, put, late>>
    BY <1>1, <1>6, <1>23, <2>2 DEF Crash
  <2> QED
    BY <1>23, <2>1, <2>2 DEF Crash
<1>24. ASSUME LateUpload
       PROVE  SafeReferences'
  <2>1. PICK t \in late : PutLate(t) /\ UNCHANGED sess
    BY <1>24 DEF LateUpload, repoVars
  <2>2. files' = With(files, t.path, t.data) /\ late' \subseteq late /\ UNCHANGED put
    BY <2>1 DEF PutLate
  <2>3. Grows
    BY <1>9, <2>2 DEF SafeReferences
  <2> HIDE DEF Refers, Serves, Grows
  <2>4. /\ \A d \in DOMAIN sess' : Refers(sess'[d])
        /\ \A d \in DOMAIN put' : Serves(sess'[d], put'[d].path)
    BY <1>3, <2>1, <2>2, <2>3 DEF Grows
  <2> QED
    BY <1>4, <2>2, <2>3, <2>4
<1>25. ASSUME NEW c \in Client, Retry(c)
       PROVE  SafeReferences'
  BY <1>25, RetryKeeps DEF TypeOK, SafeReferences
<1> QED
  BY <1>2, <1>10, <1>11, <1>12, <1>14, <1>15, <1>17, <1>18, <1>19, <1>20, <1>21, <1>22,
     <1>23, <1>24, <1>25
  DEF Next, Step

\* On S3 the inductive invariant holds throughout, with packs or without.
THEOREM ReferencesSafe ==
    ASSUME Backend = "s3"
    PROVE  Spec => []SafeReferences
<1>1. TypeOK /\ SafeReferences /\ [Next]_vars => SafeReferences'
  BY NextReferences
<1> QED
  BY <1>1, InitReferences, TypeCorrect, PTL DEF Spec

\* On S3, no snapshot, committed or being built, ever names an object that is
\* not in the store.
THEOREM NoDanglingReference ==
    ASSUME Backend = "s3"
    PROVE  Spec => []ReferencesExist
<1>1. SafeReferences => ReferencesExist
  <2> SUFFICES ASSUME SafeReferences PROVE ReferencesExist
    OBVIOUS
  <2>1. ASSUME NEW snap, Referred(snap) \subseteq DOMAIN files,
               NEW p \in DOMAIN snap, NEW i \in DOMAIN snap[p].ids
        PROVE  DataPath(snap[p].ids[i]) \in DOMAIN files
    BY <2>1 DEF Referred
  <2>2. ASSUME NEW n \in Name, Committed(n)
        PROVE  Referred(loadSnapshot(n)) \subseteq DOMAIN files
    <3>1. SnapshotPath(n) \in DOMAIN files /\ SnapshotPath(n)[1] = "snapshot"
      BY <2>2 DEF Committed, get, VerifiesHMAC, SnapshotPath
    <3> QED
      BY <3>1 DEF SafeReferences, SafeCommit, loadSnapshot, get
  <2>3. \A c \in DOMAIN sess : Referred(sess[c].snap) \subseteq DOMAIN files
    BY DEF SafeReferences
  <2> QED
    BY <2>1, <2>2, <2>3 DEF ReferencesExist
<1> QED
  BY <1>1, ReferencesSafe, PTL

\* On S3, a snapshot that can be loaded can be loaded for ever after, also
\* while it is overwritten, and whatever happens to the overwriting backup.
THEOREM SnapshotsNeverLost ==
    ASSUME Backend = "s3"
    PROVE  Spec => SnapshotsStay
<1>1. ASSUME SafeReferences', [Next]_vars, NEW n \in Name, Committed(n)
      PROVE  Committed(n)'
  <2>1. SnapshotPath(n) \in DOMAIN files /\ SnapshotPath(n)[1] = "snapshot"
    BY <1>1 DEF Committed, get, VerifiesHMAC, SnapshotPath
  <2>2. SnapshotPath(n) \in DOMAIN files'
    BY <1>1, <2>1, StoreOnlyGrows
  <2>3. SafeCommit(SnapshotPath(n), files'[SnapshotPath(n)], DOMAIN files')
    BY <1>1, <2>2 DEF SafeReferences
  <2> QED
    BY <2>1, <2>2, <2>3 DEF SafeCommit, Committed, get
<1>2. SafeReferences' /\ [Next]_vars => [\A n \in Name : Committed(n) => Committed(n)']_vars
  BY <1>1
<1> QED
  BY <1>2, ReferencesSafe, PTL DEF Spec, SnapshotsStay

-----------------------------------------------------------------------------
(***************************************************************************)
(* FlattenSeq, by which packs and their ids are made, is a recursive       *)
(* function of the number of sequences joined so far.  Facts about it are  *)
(* shown for the least number for which they could fail.                   *)
(***************************************************************************)

\* A set of natural numbers that is not empty has a least element.
LEMMA LeastCount ==
    ASSUME NEW T, T \subseteq Nat, T # {}
    PROVE  \E x \in T : \A y \in T : x <= y
<1> DEFINE R == OpToRel(<, Nat)
<1>1. \E x \in T : \A y \in T : ~ (<<y, x>> \in R)
  BY WFMin, NatLessThanWellFounded
<1>2. R = {ss \in Nat \X Nat : ss[1] < ss[2]}
  BY DEF OpToRel
<1> HIDE DEF R
<1>3. \A x, y \in Nat : y < x => <<y, x>> \in R
  BY <1>2
<1>4. PICK x \in T : \A y \in T : ~ (<<y, x>> \in R)
  BY <1>1
<1>5. \A y \in T : ~(y < x)
  BY <1>3, <1>4, Zenon
<1> QED
  BY <1>5

\* g[i] joins the first i of seqs
Joins(seqs, n, g) ==
    g = [i \in 1..n |-> IF i = 1 THEN seqs[i] ELSE g[i - 1] \o seqs[i]]

\* Such a function is known by its values.
LEMMA JoinsValues ==
    ASSUME NEW seqs, NEW n \in Nat, NEW g
    PROVE  Joins(seqs, n, g) <=>
               /\ g = [i \in 1..n |-> g[i]]
               /\ \A i \in 1..n : g[i] = IF i = 1 THEN seqs[i] ELSE g[i - 1] \o seqs[i]
<1> DEFINE e(i) == IF i = 1 THEN seqs[i] ELSE g[i - 1] \o seqs[i]
           h == [i \in 1..n |-> e(i)]
<1>1. ASSUME g = h
      PROVE  g = [i \in 1..n |-> g[i]] /\ \A i \in 1..n : g[i] = e(i)
  <2>1. DOMAIN h = 1..n /\ \A i \in 1..n : h[i] = e(i)
    BY Zenon
  <2>2. h = [i \in 1..n |-> h[i]]
    BY <2>1, Zenon
  <2> HIDE DEF h
  <2> QED
    BY <1>1, <2>1, <2>2
<1>2. ASSUME g = [i \in 1..n |-> g[i]], \A i \in 1..n : g[i] = e(i)
      PROVE  g = h
  <2> HIDE DEF e
  <2> QED
    BY <1>2
<1> QED
  BY <1>1, <1>2 DEF Joins

\* One more sequence is joined by appending it to what the others gave.
LEMMA JoinsStep ==
    ASSUME NEW seqs, NEW n \in Nat, NEW g, Joins(seqs, n, g), NEW i \in 1..n
    PROVE  g[i] = IF i = 1 THEN seqs[i] ELSE g[i - 1] \o seqs[i]
BY JoinsValues

\* There is one for every list of sequences.
LEMMA JoinsExists ==
    ASSUME NEW seqs, NEW n \in Nat
    PROVE  \E g : Joins(seqs, n, g)
<1> DEFINE T == {m \in Nat : ~\E g : Joins(seqs, m, g)}
<1> SUFFICES ASSUME T # {}
             PROVE  FALSE
  OBVIOUS
<1>1. PICK m \in T : \A k \in T : m <= k
  BY LeastCount
<1>2. m # 0
  <2>1. Joins(seqs, 0, [i \in 1..0 |-> seqs[i]])
    BY DEF Joins
  <2> QED
    BY <2>1
<1>3. m - 1 \in Nat /\ m - 1 \notin T /\ m \in Nat /\ m \in 1..m
  BY <1>1, <1>2
<1>4. PICK g : Joins(seqs, m - 1, g)
  BY <1>3
<1> DEFINE last == IF m = 1 THEN seqs[m] ELSE g[m - 1] \o seqs[m]
           h == [i \in 1..m |-> IF i = m THEN last ELSE g[i]]
<1>5. h = [i \in 1..m |-> h[i]]
  OBVIOUS
<1>6. h[m] = last /\ \A i \in 1..m : i # m => h[i] = g[i]
  BY <1>3
<1> HIDE DEF h
<1>7. ASSUME NEW i \in 1..m
      PROVE  h[i] = IF i = 1 THEN seqs[i] ELSE h[i - 1] \o seqs[i]
  <2>1. CASE i = m
    <3>1. m # 1 => h[m - 1] = g[m - 1]
      BY <1>3, <1>6
    <3> QED
      BY <1>6, <2>1, <3>1
  <2>2. CASE i # m
    <3>1. i \in 1..(m - 1) /\ (i # 1 => i - 1 \in 1..m /\ i - 1 # m)
      BY <1>3, <2>2
    <3>2. g[i] = IF i = 1 THEN seqs[i] ELSE g[i - 1] \o seqs[i]
      BY <1>3, <1>4, <3>1, JoinsValues
    <3>3. h[i] = g[i] /\ (i # 1 => h[i - 1] = g[i - 1])
      BY <1>6, <2>2, <3>1
    <3> QED
      BY <3>2, <3>3
  <2> QED
    BY <2>1, <2>2
<1>8. Joins(seqs, m, h)
  BY <1>3, <1>5, <1>7, JoinsValues
<1> QED
  BY <1>8

\* FlattenSeq is the last value of any such function.
LEMMA FlattenJoins ==
    ASSUME NEW seqs, Len(seqs) \in Nat \ {0}, NEW g, Joins(seqs, Len(seqs), g)
    PROVE  FlattenSeq(seqs) = g[Len(seqs)]
<1> DEFINE n == Len(seqs)
           f == CHOOSE h : Joins(seqs, n, h)
<1>1. n \in Nat /\ n # 0 /\ n \in 1..n
  OBVIOUS
<1>2. FlattenSeq(seqs)
         = (CHOOSE h : h = [i \in 1..n |-> IF i = 1 THEN seqs[i] ELSE h[i - 1] \o seqs[i]])[n]
  BY <1>1 DEF FlattenSeq
<1>3. FlattenSeq(seqs) = f[n]
  BY <1>2 DEF Joins
<1>4. Joins(seqs, n, f) /\ Joins(seqs, n, g)
  BY Zenon
<1> HIDE DEF f, n
<1> DEFINE T == {i \in 1..n : f[i] # g[i]}
<1>5. T = {}
  <2> SUFFICES ASSUME T # {}
               PROVE  FALSE
    OBVIOUS
  <2>1. PICK m \in T : \A k \in T : m <= k
    <3>1. T \subseteq Nat
      OBVIOUS
    <3> QED
      BY <3>1, LeastCount
  <2>2. m \in 1..n /\ f[m] # g[m]
    OBVIOUS
  <2>3. m # 1 => m - 1 \in 1..n /\ m - 1 \notin T
    BY <1>1, <2>1, <2>2
  <2>4. m # 1 => f[m - 1] = g[m - 1]
    BY <2>3
  <2>5. /\ f[m] = IF m = 1 THEN seqs[m] ELSE f[m - 1] \o seqs[m]
        /\ g[m] = IF m = 1 THEN seqs[m] ELSE g[m - 1] \o seqs[m]
    BY <1>1, <1>4, <2>2, JoinsValues
  <2> QED
    BY <2>2, <2>4, <2>5
<1> QED
  BY <1>1, <1>3, <1>5 DEF n

-----------------------------------------------------------------------------
(* What finalizePack puts together is complete seals and nothing else *)

BlockPay == [kind : {"block"}, comp : {0, 1}, data : Bytes]

BlockCell(by) == [by : {by}, pay : BlockPay, part : Nat]

\* every cell is followed by the rest of its seal
Chain(cells) ==
    \A k \in DOMAIN cells :
        IF cells[k].part = SealLength(cells[k].pay)
        THEN k < Len(cells) => IsHead(cells[k + 1])
        ELSE k < Len(cells) /\ cells[k + 1] = [cells[k] EXCEPT !.part = @ + 1]

\* the list of payloads that SealedIn joins
HeadList(cells) == [k \in DOMAIN cells |-> IF IsHead(cells[k]) THEN <<cells[k].pay>> ELSE <<>>]

\* The cells of the seal of a block.
LEMMA SealCells ==
    ASSUME NEW by, NEW pay \in BlockPay
    PROVE  LET seal == compressEncryptHMAC(by, pay)
           IN  /\ seal \in Seq(BlockCell(by))
               /\ Len(seal) = SealLength(pay)
               /\ SealLength(pay) \in Nat \ {0}
               /\ \A k \in 1..Len(seal) :
                     seal[k].by = by /\ seal[k].pay = pay /\ seal[k].part = k
               /\ Chain(seal)
<1> DEFINE n == SealLength(pay)
           cell(k) == [by |-> by, pay |-> pay, part |-> k]
           seal == [k \in 1..n |-> cell(k)]
<1>1. n \in Nat \ {0}
  BY DEF SealLength, BlockPay, Bytes
<1>2. \A k \in Nat : cell(k) \in BlockCell(by)
  BY DEF BlockCell
<1>3. \A k \in Nat : cell(k).by = by /\ cell(k).pay = pay /\ cell(k).part = k
  OBVIOUS
<1>9. \A k \in Nat : cell(k + 1) = [cell(k) EXCEPT !.part = @ + 1]
  OBVIOUS
<1> HIDE DEF n, cell
<1>4. seal \in Seq(BlockCell(by)) /\ Len(seal) = n /\ DOMAIN seal = 1..n
  BY <1>1, <1>2
<1>5. \A k \in 1..n : seal[k] = cell(k)
  OBVIOUS
<1> HIDE DEF seal
<1>6. ASSUME NEW k \in 1..n
      PROVE  seal[k].by = by /\ seal[k].pay = pay /\ seal[k].part = k
  BY <1>1, <1>3, <1>5
<1>7. Chain(seal)
  <2> SUFFICES ASSUME NEW k \in 1..n
               PROVE  k = n \/ (k < n /\ seal[k + 1] = [seal[k] EXCEPT !.part = @ + 1])
    BY <1>4, <1>6 DEF Chain, n
  <2>1. CASE k # n
    <3>1. k < n /\ k + 1 \in 1..n
      BY <1>1, <2>1
    <3> QED
      BY <1>5, <1>9, <3>1
  <2> QED
    BY <2>1
<1>8. compressEncryptHMAC(by, pay) = seal
  BY DEF compressEncryptHMAC, seal, cell, n
<1> QED
  BY <1>1, <1>4, <1>6, <1>7, <1>8 DEF n

\* One whole seal behind others.
LEMMA ChainConcat ==
    ASSUME NEW S, NEW f \in Seq(S), NEW t \in Seq(S), t # <<>>,
           Chain(f), Chain(t), IsHead(t[1])
    PROVE  Chain(f \o t)
<1> DEFINE m == Len(f)
           n == Len(t)
           u == f \o t
<1>1. /\ m \in Nat /\ n \in Nat \ {0} /\ u \in Seq(S) /\ Len(u) = m + n
      /\ DOMAIN u = 1..(m + n) /\ DOMAIN f = 1..m /\ DOMAIN t = 1..n
  OBVIOUS
<1>2. /\ \A k \in 1..m : u[k] = f[k]
      /\ \A k \in 1..n : u[m + k] = t[k]
  OBVIOUS
<1> HIDE DEF u, m, n
<1> SUFFICES ASSUME NEW k \in 1..(m + n)
             PROVE  IF u[k].part = SealLength(u[k].pay)
                    THEN k < m + n => IsHead(u[k + 1])
                    ELSE k < m + n /\ u[k + 1] = [u[k] EXCEPT !.part = @ + 1]
  BY <1>1 DEF Chain, u
<1>3. CASE k \in 1..m
  <2>1. u[k] = f[k]
    BY <1>2, <1>3
  <2>2. IF f[k].part = SealLength(f[k].pay)
        THEN k < m => IsHead(f[k + 1])
        ELSE k < m /\ f[k + 1] = [f[k] EXCEPT !.part = @ + 1]
    BY <1>1, <1>3 DEF Chain, m
  <2>3. CASE k = m
    <3>1. u[k + 1] = t[1]
      BY <1>1, <1>2, <2>3
    <3> QED
      BY <1>1, <2>1, <2>2, <2>3, <3>1
  <2>4. CASE k # m
    <3>1. k < m /\ k < m + n /\ u[k + 1] = f[k + 1]
      BY <1>1, <1>2, <1>3, <2>4
    <3> QED
      BY <2>1, <2>2, <3>1
  <2> QED
    BY <2>3, <2>4
<1>4. CASE k \notin 1..m
  <2> DEFINE j == k - m
  <2>1. j \in 1..n /\ k = m + j /\ u[k] = t[j]
    <3>1. j \in 1..n /\ k = m + j
      BY <1>1, <1>4
    <3> QED
      BY <1>2, <3>1
  <2> HIDE DEF j
  <2>2. IF t[j].part = SealLength(t[j].pay)
        THEN j < n => IsHead(t[j + 1])
        ELSE j < n /\ t[j + 1] = [t[j] EXCEPT !.part = @ + 1]
    BY <1>1, <2>1 DEF Chain, n
  <2>3. j < n => u[k + 1] = t[j + 1]
    <3>1. ASSUME j < n
          PROVE  j + 1 \in 1..n /\ k + 1 = m + (j + 1)
      BY <1>1, <2>1, <3>1
    <3> QED
      BY <1>2, <3>1
  <2>4. k < m + n <=> j < n
    BY <1>1, <2>1
  <2> QED
    BY <2>1, <2>2, <2>3, <2>4
<1> QED
  BY <1>3, <1>4

\* The payloads of the seals in cells, and of one seal behind them.
LEMMA SealedConcat ==
    ASSUME NEW by, NEW f \in Seq(BlockCell(by)), NEW pay \in BlockPay
    PROVE  LET seal == compressEncryptHMAC(by, pay)
           IN  /\ SealedIn(seal) = <<pay>>
               /\ f # <<>> /\ SealedIn(f) \in Seq(BlockPay)
                      => SealedIn(f \o seal) = Append(SealedIn(f), pay)
<1> DEFINE seal == compressEncryptHMAC(by, pay)
           n == Len(seal)
<1>1. /\ seal \in Seq(BlockCell(by)) /\ n \in Nat \ {0} /\ DOMAIN seal = 1..n
      /\ \A k \in 1..n : seal[k].pay = pay /\ seal[k].part = k
  BY SealCells
<1> HIDE DEF seal, n
<1>2. ASSUME NEW u \in Seq(BlockCell(by)), u # <<>>, NEW h, Joins(HeadList(u), Len(u), h)
      PROVE  SealedIn(u) = h[Len(u)]
  <2>1. Len(HeadList(u)) = Len(u) /\ Len(u) \in Nat \ {0}
    BY <1>2 DEF HeadList
  <2> QED
    BY <1>2, <2>1, FlattenJoins DEF SealedIn, HeadList
\* behind the payloads in sealed, the head of the seal adds one and no other cell does
<1>3. ASSUME NEW sealed \in Seq(BlockPay)
      PROVE  /\ sealed \o <<pay>> = Append(sealed, pay)
             /\ Append(sealed, pay) \o <<>> = Append(sealed, pay)
  OBVIOUS
<1>4. SealedIn(seal) = <<pay>>
  <2> DEFINE h == [k \in 1..n |-> <<pay>>]
             list == HeadList(seal)
  <2>1. \A k \in 1..n : list[k] = IF k = 1 THEN <<pay>> ELSE <<>>
    BY <1>1 DEF HeadList, IsHead
  <2>2. h = [k \in 1..n |-> h[k]] /\ \A k \in 1..n : h[k] = <<pay>>
    OBVIOUS
  <2>3. <<pay>> \o <<>> = <<pay>>
    OBVIOUS
  <2> HIDE DEF h, list
  <2>4. ASSUME NEW k \in 1..n
        PROVE  h[k] = IF k = 1 THEN list[k] ELSE h[k - 1] \o list[k]
    <3>1. k # 1 => k - 1 \in 1..n
      BY <1>1
    <3> QED
      BY <2>1, <2>2, <2>3, <3>1
  <2>5. Joins(list, n, h)
    BY <1>1, <2>2, <2>4, JoinsValues
  <2>6. seal # <<>> /\ n \in 1..n
    BY <1>1 DEF n
  <2>7. Joins(HeadList(seal), Len(seal), h) /\ h[Len(seal)] = <<pay>>
    BY <2>2, <2>5, <2>6 DEF list, n
  <2> QED
    BY <1>1, <1>2, <2>6, <2>7
<1>5. ASSUME f # <<>>, SealedIn(f) \in Seq(BlockPay)
      PROVE  SealedIn(f \o seal) = Append(SealedIn(f), pay)
  <2> DEFINE m == Len(f)
             u == f \o seal
             list == HeadList(u)
  <2>1. m \in Nat \ {0} /\ DOMAIN f = 1..m
    BY <1>5
  <2>2. /\ u \in Seq(BlockCell(by)) /\ Len(u) = m + n /\ DOMAIN u = 1..(m + n) /\ u # <<>>
        /\ \A k \in 1..m : u[k] = f[k]
        /\ \A k \in 1..n : u[m + k] = seal[k]
    BY <1>1, <2>1 DEF n
  <2>3. PICK g : Joins(HeadList(f), m, g)
    BY <2>1, JoinsExists
  <2>4. g[m] = SealedIn(f)
    BY <1>2, <1>5, <2>3
  <2> HIDE DEF m, u
  <2> DEFINE all == Append(SealedIn(f), pay)
             h == [k \in 1..(m + n) |-> IF k <= m THEN g[k] ELSE all]
  <2>5. /\ \A k \in 1..m : list[k] = HeadList(f)[k]
        /\ \A k \in 1..n : list[m + k] = IF k = 1 THEN <<pay>> ELSE <<>>
    <3>1. \A k \in 1..(m + n) : list[k] = IF IsHead(u[k]) THEN <<u[k].pay>> ELSE <<>>
      BY <2>2 DEF HeadList
    <3>2. \A k \in 1..m : HeadList(f)[k] = IF IsHead(f[k]) THEN <<f[k].pay>> ELSE <<>>
      BY <2>1 DEF HeadList
    <3>3. \A k \in 1..m : k \in 1..(m + n)
      BY <1>1, <2>1
    <3>4. \A k \in 1..n : m + k \in 1..(m + n)
      BY <1>1, <2>1
    <3> HIDE DEF list
    <3>5. \A k \in 1..m : list[k] = HeadList(f)[k]
      BY <2>2, <3>1, <3>2, <3>3
    <3>6. ASSUME NEW k \in 1..n
          PROVE  list[m + k] = IF k = 1 THEN <<pay>> ELSE <<>>
      BY <1>1, <2>2, <3>1, <3>4 DEF IsHead
    <3> QED
      BY <3>5, <3>6
  <2> HIDE DEF list
  <2>6. h = [k \in 1..(m + n) |-> h[k]]
    OBVIOUS
  <2>7. /\ \A k \in 1..m : h[k] = g[k]
        /\ \A k \in 1..n : h[m + k] = all
    BY <1>1, <2>1
  <2> HIDE DEF h, all
  <2>8. SealedIn(f) \o <<pay>> = all /\ all \o <<>> = all
    BY <1>3, <1>5 DEF all
  <2>9. ASSUME NEW k \in 1..(m + n)
        PROVE  h[k] = IF k = 1 THEN list[k] ELSE h[k - 1] \o list[k]
    <3>1. CASE k \in 1..m
      <4>1. g[k] = IF k = 1 THEN HeadList(f)[k] ELSE g[k - 1] \o HeadList(f)[k]
        BY <2>1, <2>3, <3>1, JoinsValues
      <4>2. k # 1 => k - 1 \in 1..m
        BY <2>1, <3>1
      <4> QED
        BY <2>5, <2>7, <3>1, <4>1, <4>2
    <3>2. CASE k = m + 1
      <4>1. k # 1 /\ k - 1 = m /\ m \in 1..m /\ 1 \in 1..n
        BY <1>1, <2>1, <3>2
      <4>2. h[k] = all /\ h[k - 1] = SealedIn(f) /\ list[k] = <<pay>>
        BY <2>4, <2>5, <2>7, <3>2, <4>1
      <4> QED
        BY <2>8, <4>1, <4>2
    <3>3. CASE k \notin 1..(m + 1)
      <4> DEFINE j == k - m
      <4>1. j \in 1..n /\ j # 1 /\ j - 1 \in 1..n /\ k = m + j /\ k - 1 = m + (j - 1) /\ k # 1
        BY <1>1, <2>1, <3>3
      <4> HIDE DEF j
      <4>2. h[k] = all /\ h[k - 1] = all /\ list[k] = <<>>
        BY <2>5, <2>7, <4>1
      <4> QED
        BY <2>8, <4>1, <4>2
    <3>4. k \in 1..m \/ k = m + 1 \/ k \notin 1..(m + 1)
      BY <2>1
    <3> QED
      BY <3>1, <3>2, <3>3, <3>4
  <2>10. Joins(list, m + n, h)
    <3> DEFINE both == m + n
    <3>1. both \in Nat
      BY <1>1, <2>1
    <3>2. h = [k \in 1..both |-> h[k]]
      BY <2>6
    <3> HIDE DEF both
    <3>3. \A k \in 1..both : h[k] = IF k = 1 THEN list[k] ELSE h[k - 1] \o list[k]
      BY <2>9 DEF both
    <3>4. Joins(list, both, h)
      BY <3>1, <3>2, <3>3, JoinsValues
    <3> QED
      BY <3>4 DEF both
  <2>11. h[m + n] = all
    BY <1>1, <2>7
  <2> QED
    BY <1>2, <2>2, <2>10, <2>11 DEF list, all, u
<1> QED
  BY <1>4, <1>5 DEF seal

\* the block that file i of a pack is sealed as
PackBlock(pack, i) == Block(pack[i].comp, pack[i].data)

\* What there is to know of the cells of a pack: they are whole seals, of the
\* files of the pack in order, and begin where addFile's lengths say.
LEMMA PackCells ==
    ASSUME NEW by, NEW pack \in Seq(PackFile), NEW g, Joins(PackSeals(by, pack), Len(pack), g),
           NEW n \in 1..Len(pack)
    PROVE  /\ g[n] \in Seq(BlockCell(by))
           /\ g[n] # <<>>
           /\ IsHead(g[n][1])
           /\ Chain(g[n])
           /\ SealedIn(g[n]) = [i \in 1..n |-> PackBlock(pack, i)]
<1> DEFINE seals == PackSeals(by, pack)
           blocks(k) == [i \in 1..k |-> PackBlock(pack, i)]
           Good(k) == /\ g[k] \in Seq(BlockCell(by))
                      /\ g[k] # <<>>
                      /\ IsHead(g[k][1])
                      /\ Chain(g[k])
                      /\ SealedIn(g[k]) = blocks(k)
           T == {k \in 1..Len(pack) : ~Good(k)}
<1> SUFFICES ASSUME T # {}
             PROVE  FALSE
  OBVIOUS
<1>1. PICK m \in T : \A k \in T : m <= k
  <2>1. T \subseteq Nat
    OBVIOUS
  <2> QED
    BY <2>1, LeastCount
<1>2. m \in 1..Len(pack) /\ ~Good(m) /\ Len(pack) \in Nat
  OBVIOUS
<1> DEFINE pay == PackBlock(pack, m)
           seal == compressEncryptHMAC(by, pay)
<1> HIDE DEF T
<1>3. ASSUME NEW i \in 1..Len(pack)
      PROVE  PackBlock(pack, i) \in BlockPay
  <2>1. pack[i] \in PackFile
    OBVIOUS
  <2> QED
    BY <2>1 DEF PackFile, PackBlock, Block, BlockPay
<1>4. /\ seals[m] = seal
      /\ g[m] = IF m = 1 THEN seals[m] ELSE g[m - 1] \o seals[m]
  <2>1. seals[m] = seal
    BY <1>2 DEF PackSeals, PackBlock
  <2> HIDE DEF seals
  <2>2. Joins(seals, Len(pack), g)
    BY DEF seals
  <2> HIDE DEF Good
  <2>3. g[m] = IF m = 1 THEN seals[m] ELSE g[m - 1] \o seals[m]
    BY <1>2, <2>2, JoinsStep
  <2> QED
    BY <2>1, <2>3
<1>5. /\ seal \in Seq(BlockCell(by)) /\ seal # <<>> /\ IsHead(seal[1]) /\ Chain(seal)
  <2>1. /\ seal \in Seq(BlockCell(by)) /\ Len(seal) \in Nat \ {0} /\ Chain(seal)
        /\ \A k \in 1..Len(seal) : seal[k].part = k
    BY <1>2, <1>3, SealCells
  <2> HIDE DEF seal
  <2> QED
    BY <2>1 DEF IsHead
<1>6. pay \in BlockPay
  BY <1>2, <1>3
<1> HIDE DEF seal, seals, pay
<1>7. CASE m = 1
  <2>1. SealedIn(seal) = <<pay>>
    BY <1>5, <1>6, SealedConcat DEF seal
  <2>2. blocks(1) = <<pay>>
    BY <1>7 DEF pay
  <2> QED
    BY <1>2, <1>4, <1>5, <1>7, <2>1, <2>2
<1>8. CASE m # 1
  <2>1. m - 1 \in 1..Len(pack) /\ Good(m - 1)
    BY <1>1, <1>2, <1>8 DEF T
  <2> DEFINE f == g[m - 1]
  <2>2. blocks(m - 1) \in Seq(BlockPay)
    <3>1. m - 1 \in Nat /\ \A i \in 1..(m - 1) : i \in 1..Len(pack)
      BY <1>2, <2>1
    <3> QED
      BY <1>3, <3>1
  <2>3. SealedIn(f \o seal) = Append(blocks(m - 1), pay)
    BY <1>6, <2>1, <2>2, SealedConcat DEF seal
  <2>4. Append(blocks(m - 1), pay) = blocks(m)
    <3> DEFINE a == Append(blocks(m - 1), pay)
    <3>1. m \in Nat /\ m - 1 \in Nat
      BY <1>2, <1>8
    <3>2. Len(blocks(m - 1)) = m - 1
      BY <3>1
    <3>3. a = [i \in 1..m |-> IF i = m THEN pay ELSE blocks(m - 1)[i]]
      BY <2>2, <3>1, <3>2
    <3>4. \A i \in 1..m : (IF i = m THEN pay ELSE blocks(m - 1)[i]) = PackBlock(pack, i)
      BY <3>1 DEF pay
    <3> HIDE DEF a
    <3> QED
      BY <3>3, <3>4 DEF a
  <2>5. g[m] = f \o seal
    BY <1>4, <1>8
  <2>6. Chain(f \o seal)
    BY <1>5, <2>1, ChainConcat
  <2>7. f \o seal \in Seq(BlockCell(by)) /\ f \o seal # <<>> /\ (f \o seal)[1] = f[1]
    BY <1>5, <2>1
  <2> QED
    BY <1>2, <2>1, <2>3, <2>4, <2>5, <2>6, <2>7
<1> QED
  BY <1>7, <1>8

\* What finalizePack uploads is a whole object, under the id it computed.
LEMMA PackWhole ==
    ASSUME NEW by, NEW pack \in Seq(PackFile), pack # <<>>
    PROVE  /\ WholeAt(DataPath(PackId(pack)), FlattenSeq(PackSeals(by, pack)))
           /\ FlattenSeq(PackSeals(by, pack)) \in Seq(BlockCell(by))
           /\ PackId(SealedIn(FlattenSeq(PackSeals(by, pack)))) = PackId(pack)
<1> DEFINE n == Len(pack)
           seals == PackSeals(by, pack)
           cells == FlattenSeq(seals)
           blocks == [i \in 1..n |-> PackBlock(pack, i)]
<1>1. n \in Nat \ {0} /\ n \in 1..n /\ Len(seals) = n /\ DOMAIN pack = 1..n
  BY DEF PackSeals
<1>2. PICK g : Joins(seals, n, g)
  BY <1>1, JoinsExists
<1> HIDE DEF seals, n
<1>3. cells = g[n]
  BY <1>1, <1>2, FlattenJoins
<1> HIDE DEF cells
<1>4. /\ cells \in Seq(BlockCell(by))
      /\ cells # <<>> /\ IsHead(cells[1]) /\ Chain(cells) /\ SealedIn(cells) = blocks
  <2>1. Joins(PackSeals(by, pack), Len(pack), g) /\ n \in 1..Len(pack)
    BY <1>1, <1>2 DEF seals, n
  <2> HIDE DEF blocks
  <2>2. /\ g[n] \in Seq(BlockCell(by))
        /\ g[n] # <<>> /\ IsHead(g[n][1]) /\ Chain(g[n])
        /\ SealedIn(g[n]) = [i \in 1..n |-> PackBlock(pack, i)]
    BY <2>1, PackCells
  <2> QED
    BY <1>3, <2>2, Zenon DEF blocks
<1>5. PackId(blocks) = PackId(pack)
  <2>1. \A i \in 1..n : blocks[i].data = pack[i].data
    BY DEF PackBlock, Block
  <2>2. DOMAIN blocks = 1..n
    OBVIOUS
  <2> HIDE DEF blocks
  <2>3. [i \in DOMAIN blocks |-> blocks[i].data \o blocks[i].data]
          = [i \in DOMAIN pack |-> pack[i].data \o pack[i].data]
    BY <1>1, <2>1, <2>2
  <2> QED
    BY <2>3 DEF PackId
<1>6. WholeObject(PackId(pack), cells)
  BY <1>4, <1>5 DEF WholeObject, Chain
<1> QED
  BY <1>4, <1>5, <1>6 DEF WholeAt, DataPath, cells, seals

\* What compressEncryptAndUploadBlock uploads is a whole object.
LEMMA BlockWhole ==
    ASSUME NEW by, NEW comp \in {0, 1}, NEW d \in Bytes
    PROVE  /\ WholeAt(DataPath(BlockId(comp, d)), compressEncryptHMAC(by, Block(comp, d)))
           /\ compressEncryptHMAC(by, Block(comp, d)) \in Seq(BlockCell(by))
<1> DEFINE pay == Block(comp, d)
           seal == compressEncryptHMAC(by, pay)
<1>1. pay \in BlockPay /\ pay.comp = comp /\ pay.data = d
  BY DEF Block, BlockPay
<1> HIDE DEF pay
<1>2. /\ seal \in Seq(BlockCell(by)) /\ Len(seal) \in Nat \ {0} /\ Chain(seal)
      /\ \A k \in 1..Len(seal) : seal[k].part = k
  BY <1>1, SealCells
<1>3. SealedIn(seal) = <<pay>>
  BY <1>1, <1>2, SealedConcat
<1> HIDE DEF seal
<1>4. seal # <<>> /\ IsHead(seal[1])
  BY <1>2 DEF IsHead
<1>5. WholeObject(BlockId(comp, d), seal)
  BY <1>1, <1>2, <1>3, <1>4 DEF WholeObject, Chain
<1> QED
  BY <1>2, <1>5 DEF WholeAt, DataPath, seal, pay

-----------------------------------------------------------------------------
(* Data objects on S3, with packs: whatever is stored is complete *)

\* A transfer keeps what it was given.
LEMMA PutKeeps ==
    ASSUME StoreOK, NEW c, NEW d \in DOMAIN put',
           \/ PutOpen(c) \/ PutStored(c) \/ PutWrite(c)
           \/ PutCancel(c) \/ PutReturn(c) \/ PutAbandon(c) \/ PutError(c)
    PROVE  d \in DOMAIN put /\ put'[d].path = put[d].path /\ put'[d].data = put[d].data
<1>1. CASE PutOpen(c) \/ PutStored(c)
  BY <1>1 DEF PutOpen, PutStored, StoreOK, TransferOK
<1>2. CASE PutWrite(c)
  BY <1>2 DEF PutWrite, Writing, StoreOK, TransferOK
<1>3. CASE PutCancel(c)
  BY <1>3 DEF PutCancel, PutAbandon, Writing, Without, StoreOK, TransferOK
<1>4. CASE PutReturn(c) \/ PutAbandon(c) \/ PutError(c)
  BY <1>4 DEF PutReturn, PutAbandon, PutError, Without
<1> QED
  BY <1>1, <1>2, <1>3, <1>4

\* Every put(), of a block, of a pack or of a snapshot, is given a whole object.
LEMMA PutsWhole ==
    ASSUME TypeOK, [Next]_vars, NEW d \in DOMAIN put'
    PROVE  \/ d \in DOMAIN put /\ put'[d].path = put[d].path /\ put'[d].data = put[d].data
           \/ WholePut(put'[d])
<1> DEFINE Kept == d \in DOMAIN put /\ put'[d].path = put[d].path /\ put'[d].data = put[d].data
<1>1. ASSUME UNCHANGED put
      PROVE  Kept
  BY <1>1
<1>2. ASSUME NEW c, NEW path, NEW data, NEW S, data \in Seq(S),
             PutStart(c, path, data), WholeAt(path, data)
      PROVE  Kept \/ WholePut(put'[d])
  <2>1. d = c \/ (d \in DOMAIN put /\ put'[d] = put[d])
    BY <1>2 DEF PutStart, With
  <2>2. CASE d = c
    <3>1. put'[d].path = path /\ put'[d].data = data
      BY <1>2, <2>2 DEF PutStart, With, Transfer
    <3>2. Len(data) \in Nat /\ data = [k \in 1..Len(data) |-> data[k]]
      BY <1>2
    <3> QED
      BY <1>2, <3>1, <3>2 DEF WholePut, Beginning
  <2> QED
    BY <2>1, <2>2
<1>3. ASSUME NEW c \in Client, UploadBlock(c)
      PROVE  Kept \/ WholePut(put'[d])
  <2> DEFINE s == sess[c]
             data == compressEncryptHMAC(c, Block(CurrentFile(s).comp, NextBlock(s)))
  <2>1. SessionOK(s) /\ ArgOpen(s) /\ BlocksLeft(s)
    BY <1>3 DEF UploadBlock, Running, Uploading, TypeOK
  <2>2. WholeAt(DataPath(NextBlockId(s)), data) /\ data \in Seq(BlockCell(c))
    BY <2>1, NextBlockType, BlockWhole DEF NextBlockId
  <2>3. UNCHANGED put \/ PutStart(c, DataPath(NextBlockId(s)), data)
    BY <1>3 DEF UploadBlock
  <2> QED
    BY <1>1, <1>2, <2>2, <2>3
<1>4. ASSUME NEW c \in Client, FinalizePack(c)
      PROVE  Kept \/ WholePut(put'[d])
  <2> DEFINE s == sess[c]
             path == DataPath(PackId(s.pack))
             data == FlattenSeq(PackSeals(c, s.pack))
  <2>1. s.pack \in Seq(PackFile) /\ s.pack # <<>>
    BY <1>4 DEF FinalizePack, Running, Finalizing, TypeOK, SessionOK
  <2>2. WholeAt(path, data) /\ data \in Seq(BlockCell(c))
    BY <2>1, PackWhole
  <2>3. UNCHANGED put \/ PutStart(c, path, data)
    BY <1>4 DEF FinalizePack
  <2> QED
    BY <1>1, <1>2, <2>2, <2>3
<1>5. ASSUME NEW c \in Client, CommitSnapshot(c)
      PROVE  Kept \/ WholePut(put'[d])
  <2> DEFINE data == compressEncryptHMAC(c, SnapshotFile(sess[c].snap))
  <2>1. WholeAt(SnapshotPath(sess[c].name), data)
    BY DEF WholeAt, SnapshotPath
  <2>2. data \in Seq({data[k] : k \in 1..2})
    BY DEF compressEncryptHMAC, SealLength, SnapshotFile
  <2>3. PutStart(c, SnapshotPath(sess[c].name), data)
    BY <1>5 DEF CommitSnapshot
  <2> HIDE DEF data
  <2> QED
    BY <1>2, <2>1, <2>2, <2>3
<1>6. ASSUME NEW c, \/ Transferring(c) \/ CancelTransfer(c) \/ Transferred(c)
                    \/ TransferError(c) \/ Crash(c)
      PROVE  Kept
  <2>1. \/ PutOpen(c) \/ PutStored(c) \/ PutWrite(c) \/ PutCancel(c) \/ PutReturn(c)
        \/ PutAbandon(c) \/ PutError(c) \/ UNCHANGED put
    BY <1>6 DEF Transferring, CancelTransfer, Transferred, TransferError, Crash
  <2> QED
    BY <1>1, <2>1, PutKeeps DEF TypeOK
<1>7. CASE \/ \E c \in Client : \/ \E n \in Name, job \in Job : Backup(c, n, job)
                                \/ Signal(c) \/ AddToPack(c) \/ RecordFile(c) \/ NextArg(c)
           \/ LateUpload \/ UNCHANGED vars
  BY <1>1, <1>7 DEF Backup, Signal, AddToPack, RecordFile, NextArg, LateUpload, PutLate,
                    storeVars, vars
<1>8. ASSUME NEW c, Retry(c)
      PROVE  Kept
  BY <1>1, <1>8, RetryKeeps DEF TypeOK
<1> HIDE DEF Kept
<1> QED
  BY <1>3, <1>4, <1>5, <1>6, <1>7, <1>8 DEF Next, Step, Kept

\* What a step adds to the store of S3, or to the requests that nobody waits
\* for, was asked for by a transfer or such a request before.
LEMMA StoredWasSent ==
    ASSUME Backend = "s3", TypeOK, [Next]_vars
    PROVE  /\ \/ UNCHANGED files
              \/ \E c \in DOMAIN put : files' = With(files, put[c].path, put[c].data)
              \/ \E t \in late : files' = With(files, t.path, t.data)
           /\ \A t \in late' :
                 \/ t \in late
                 \/ \E c \in DOMAIN put : t.path = put[c].path /\ t.data = put[c].data
<1> DEFINE Sent == /\ \/ UNCHANGED files
                      \/ \E c \in DOMAIN put : files' = With(files, put[c].path, put[c].data)
                      \/ \E t \in late : files' = With(files, t.path, t.data)
                   /\ \A t \in late' :
                         \/ t \in late
                         \/ \E c \in DOMAIN put :
                               t.path = put[c].path /\ t.data = put[c].data
<1> SUFFICES Sent
  OBVIOUS
<1>1. ASSUME UNCHANGED <<files, late>>
      PROVE  Sent
  BY <1>1
<1>2. ASSUME NEW c, PutAbandon(c) \/ PutCancel(c) \/ PutError(c) \/ PutReturn(c)
      PROVE  Sent
  BY <1>2 DEF PutAbandon, PutCancel, PutError, PutReturn, Writing
<1>3. ASSUME NEW c, Transferring(c)
      PROVE  Sent
  <2>1. c \in DOMAIN put /\ files' = With(files, put[c].path, put[c].data) /\ UNCHANGED late
    BY <1>3 DEF Transferring, PutOpen, PutWrite, PutStored, Writing
  <2> QED
    BY <2>1
<1>4. CASE LateUpload
  BY <1>4 DEF LateUpload, PutLate
<1>8. ASSUME NEW c, Retry(c)
      PROVE  Sent
  BY <1>8, RetryKeeps DEF TypeOK
<1> HIDE DEF Sent
<1>5. CASE \/ \E c \in Client : CancelTransfer(c) \/ Transferred(c) \/ TransferError(c) \/ Crash(c)
  BY <1>1, <1>2, <1>5 DEF CancelTransfer, Transferred, TransferError, Crash
<1>6. CASE \/ \E c \in Client : \/ \E n \in Name, job \in Job : Backup(c, n, job)
                                \/ Signal(c) \/ AddToPack(c) \/ RecordFile(c) \/ NextArg(c)
           \/ UNCHANGED vars
  <2>1. UNCHANGED <<files, late>>
    BY <1>6 DEF Backup, Signal, AddToPack, RecordFile, NextArg, storeVars, vars
  <2> QED
    BY <1>1, <2>1
<1>7. CASE \E c \in Client : UploadBlock(c) \/ FinalizePack(c) \/ CommitSnapshot(c)
  <2>1. UNCHANGED <<files, late>>
    BY <1>7 DEF UploadBlock, FinalizePack, CommitSnapshot, PutStart
  <2> QED
    BY <1>1, <2>1
<1> QED
  BY <1>3, <1>4, <1>5, <1>6, <1>7, <1>8 DEF Next, Step

\* On S3, with packs or without: an object that is stored, on its way or given
\* up is complete and holds what its path is the HMAC of.
THEOREM ObjectsSafe ==
    ASSUME Backend = "s3"
    PROVE  Spec => []SafeObjects
<1>1. Init => SafeObjects
  BY DEF Init, StoreInit, EmptyFcn, SafeObjects
<1>2. ASSUME TypeOK, SafeObjects, [Next]_vars
      PROVE  SafeObjects'
  <2>1. \A d \in DOMAIN put' : WholeAt(put'[d].path, put'[d].data)
    BY <1>2, PutsWhole DEF SafeObjects, WholePut
  <2>2. \A t \in late' : WholeAt(t.path, t.data)
    BY <1>2, StoredWasSent DEF SafeObjects
  <2>3. ASSUME NEW path, NEW data, WholeAt(path, data), files' = With(files, path, data)
        PROVE  \A p \in DOMAIN files' : WholeAt(p, files'[p])
    BY <1>2, <2>3 DEF SafeObjects, With
  <2>4. \A p \in DOMAIN files' : WholeAt(p, files'[p])
    BY <1>2, <2>3, StoredWasSent DEF SafeObjects
  <2> QED
    BY <2>1, <2>2, <2>4 DEF SafeObjects
<1> QED
  BY <1>1, <1>2, TypeCorrect, PTL DEF Spec

\* On S3 a data object that a skipped upload relies on is complete, at every
\* moment: also while others upload it again, and after they were killed.
THEOREM ExistingObjectsComplete ==
    ASSUME Backend = "s3"
    PROVE  Spec => []ExistingObjectComplete
<1>1. SafeObjects => ExistingObjectComplete
  <2> SUFFICES ASSUME SafeObjects, NEW id \in DataIds
               PROVE  WholeObject(id, files[DataPath(id)])
    BY DEF ExistingObjectComplete
  <2>1. PICK p \in DOMAIN files : p[1] = "data" /\ id = p[2]
    BY DEF DataIds
  <2> QED
    BY <2>1 DEF SafeObjects, WholeAt
<1> QED
  BY <1>1, ObjectsSafe, PTL

\* On S3 no step, of whatever process, removes a complete data object or
\* replaces it by an incomplete one.
THEOREM ObjectsStayComplete ==
    ASSUME Backend = "s3"
    PROVE  Spec => CompleteStaysComplete
<1>1. ASSUME SafeObjects, SafeObjects', [Next]_vars, NEW id \in DataIds
      PROVE  DataPath(id) \in DOMAIN files' /\ WholeObject(id, files'[DataPath(id)])
  <2>1. PICK p \in DOMAIN files : p[1] = "data" /\ id = p[2]
    BY <1>1 DEF DataIds
  <2>2. p = DataPath(id)
    BY <1>1, <2>1 DEF SafeObjects, WholeAt
  <2>3. p \in DOMAIN files'
    BY <1>1, StoreOnlyGrows
  <2> QED
    BY <1>1, <2>1, <2>2, <2>3 DEF SafeObjects, WholeAt
<1>2. SafeObjects /\ SafeObjects' /\ [Next]_vars =>
          [\A id \in DataIds :
              WholeObject(id, files[DataPath(id)]) =>
                  /\ DataPath(id) \in DOMAIN files'
                  /\ WholeObject(id, files'[DataPath(id)])]_vars
  BY <1>1
<1> QED
  BY <1>2, ObjectsSafe, PTL DEF Spec, CompleteStaysComplete

-----------------------------------------------------------------------------
(* Data objects in a directory, with packs: complete unless something failed *)

\* Faults and backups are only ever added, the latter with a session.
LEMMA CountsGrow ==
    ASSUME TypeOK, [Next]_vars
    PROVE  /\ faults \in Nat /\ faults' \in Nat /\ faults <= faults'
           /\ \/ UNCHANGED started /\ DOMAIN sess' \subseteq DOMAIN sess
              \/ /\ started \in Nat /\ started' = started + 1
                 /\ UNCHANGED storeVars
                 /\ \E c \in Client : DOMAIN sess' = DOMAIN sess \cup {c}
<1> DEFINE More == /\ \/ UNCHANGED faults \/ faults' = faults + 1
                   /\ \/ UNCHANGED started /\ DOMAIN sess' \subseteq DOMAIN sess
                      \/ /\ started \in Nat /\ started' = started + 1
                         /\ UNCHANGED storeVars
                         /\ \E c \in Client : DOMAIN sess' = DOMAIN sess \cup {c}
<1>1. faults \in Nat /\ started \in Nat
  BY MaxFaultsAssumption, MaxBackupsAssumption DEF TypeOK, StoreOK
<1> SUFFICES More
  BY <1>1
<1> USE DEF Fault, NoFault
<1>2. ASSUME NEW c, NEW s, SetSession(c, s) \/ EndSession(c) \/ UNCHANGED sess
      PROVE  DOMAIN sess' \subseteq DOMAIN sess
  BY <1>2 DEF SetSession, EndSession, Without
<1>3. ASSUME NEW c \in Client, NEW n \in Name, NEW job \in Job, Backup(c, n, job)
      PROVE  More
  BY <1>1, <1>3 DEF Backup, With, storeVars
<1>4. ASSUME NEW c \in Client, Signal(c) \/ AddToPack(c) \/ RecordFile(c) \/ NextArg(c)
      PROVE  More
  BY <1>2, <1>4 DEF Signal, AddToPack, RecordFile, NextArg, storeVars, SetSession
<1>5. ASSUME NEW c \in Client, UploadBlock(c) \/ FinalizePack(c) \/ CommitSnapshot(c)
      PROVE  More
  BY <1>2, <1>5 DEF UploadBlock, FinalizePack, CommitSnapshot, exist, HeadFails
<1>6. ASSUME NEW c \in Client, Transferring(c) \/ CancelTransfer(c) \/ Transferred(c)
      PROVE  More
  BY <1>2, <1>6 DEF Transferring, CancelTransfer, Transferred, PutOpen, PutStored, PutWrite,
                    PutCancel, PutReturn, repoVars
<1>7. ASSUME NEW c \in Client, TransferError(c) \/ Crash(c) \/ Retry(c)
      PROVE  More
  BY <1>2, <1>7 DEF TransferError, Crash, PutError, Retry, repoVars
<1>8. CASE LateUpload \/ UNCHANGED vars
  BY <1>8 DEF LateUpload, PutLate, repoVars, vars
<1> HIDE DEF More
<1> QED
  BY <1>3, <1>4, <1>5, <1>6, <1>7, <1>8 DEF Next, Step

\* What a step without a fault does to the store of the file backend.
LEMMA FileSteps ==
    ASSUME Backend = "file", TypeOK, late = {}, [Next]_vars
    PROVE  /\ late' = {}
           /\ faults' = 0 =>
                 \/ UNCHANGED <<files, put>>
                 \/ \E c \in DOMAIN sess : \E path, data : PutStart(c, path, data)
                 \/ \E c \in DOMAIN put :
                       PutOpen(c) \/ PutWrite(c) \/ PutCancel(c) \/ PutReturn(c)
<1> DEFINE Goal == /\ late' = {}
                   /\ faults' = 0 =>
                         \/ UNCHANGED <<files, put>>
                         \/ \E c \in DOMAIN sess : \E path, data : PutStart(c, path, data)
                         \/ \E c \in DOMAIN put :
                               PutOpen(c) \/ PutWrite(c) \/ PutCancel(c) \/ PutReturn(c)
<1> SUFFICES Goal
  OBVIOUS
<1>0. faults \in Nat
  BY MaxFaultsAssumption DEF TypeOK, StoreOK
<1>1. ASSUME UNCHANGED <<files, put, late>>
      PROVE  Goal
  BY <1>1
<1>2. ASSUME NEW c \in DOMAIN sess, NEW path, NEW data, PutStart(c, path, data)
      PROVE  Goal
  BY <1>2 DEF PutStart
<1>3. ASSUME NEW c \in DOMAIN put, PutOpen(c) \/ PutWrite(c) \/ PutCancel(c) \/ PutReturn(c)
      PROVE  Goal
  <2>1. late' = late
    BY <1>3 DEF PutOpen, PutWrite, PutCancel, PutReturn, PutAbandon
  <2> QED
    BY <1>3, <2>1
<1>4. ASSUME NEW c \in Client, TransferError(c) \/ Crash(c)
      PROVE  Goal
  <2>1. late' = late
    BY <1>4 DEF TransferError, Crash, PutError, PutAbandon
  <2>2. faults' = faults + 1
    BY <1>4 DEF TransferError, Crash, PutError, Fault
  <2> QED
    BY <1>0, <2>1, <2>2
<1>5. CASE LateUpload \/ UNCHANGED vars
  BY <1>1, <1>5 DEF LateUpload, PutLate, vars
<1>9. ASSUME NEW c, Retry(c)
      PROVE  FALSE
  BY <1>9 DEF Retry, PutRetry
<1> HIDE DEF Goal
<1>6. ASSUME NEW c \in Client, UploadBlock(c) \/ FinalizePack(c) \/ CommitSnapshot(c)
      PROVE  Goal
  <2>1. c \in DOMAIN sess
    BY <1>6 DEF UploadBlock, FinalizePack, CommitSnapshot, Running
  <2>2. UNCHANGED <<files, put, late>> \/ \E path, data : PutStart(c, path, data)
    BY <1>6 DEF UploadBlock, FinalizePack, CommitSnapshot
  <2> QED
    BY <1>1, <1>2, <2>1, <2>2
<1>7. ASSUME NEW c \in Client, Transferring(c) \/ CancelTransfer(c) \/ Transferred(c)
      PROVE  Goal
  <2>1. c \in DOMAIN put
    BY <1>7 DEF Transferring, CancelTransfer, Transferred, Waiting
  <2>2. PutOpen(c) \/ PutWrite(c) \/ PutCancel(c) \/ PutReturn(c)
    BY <1>7 DEF Transferring, CancelTransfer, Transferred, PutStored
  <2> QED
    BY <1>3, <2>1, <2>2
<1>8. CASE \E c \in Client : \/ \E n \in Name, job \in Job : Backup(c, n, job)
                             \/ Signal(c) \/ AddToPack(c) \/ RecordFile(c) \/ NextArg(c)
  <2>1. UNCHANGED <<files, put, late>>
    BY <1>8 DEF Backup, Signal, AddToPack, RecordFile, NextArg, storeVars
  <2> QED
    BY <1>1, <2>1
<1> QED
  BY <1>4, <1>5, <1>6, <1>7, <1>8, <1>9 DEF Next, Step

\* One more chunk behind those that are written.
LEMMA WriteGrows ==
    ASSUME NEW t, NEW n \in Nat
    PROVE  WriteAt(Beginning(t, n), n + 1, t.data[n + 1]) = Beginning(t, n + 1)
<1> DEFINE f == Beginning(t, n)
<1>1. Len(f) = n /\ \A k \in 1..n : f[k] = t.data[k]
  BY DEF Beginning
<1> HIDE DEF f
<1>2. WriteAt(f, n + 1, t.data[n + 1])
          = [k \in 1..(n + 1) |-> IF k = n + 1 THEN t.data[n + 1] ELSE IF k <= n THEN f[k] ELSE Hole]
  BY <1>1 DEF WriteAt
<1>3. \A k \in 1..(n + 1) :
         (IF k = n + 1 THEN t.data[n + 1] ELSE IF k <= n THEN f[k] ELSE Hole) = t.data[k]
  BY <1>1
<1>4. WriteAt(f, n + 1, t.data[n + 1]) = [k \in 1..(n + 1) |-> t.data[k]]
  BY <1>2, <1>3
<1> QED
  BY <1>4 DEF f, Beginning

\* A put() that is alone writes what it was given and nothing else.
LEMMA AloneWrites ==
    ASSUME Backend = "file", TypeOK, SafeWrites, Undisturbed, NEW c \in DOMAIN put,
           faults' = 0, PutOpen(c) \/ PutWrite(c) \/ PutCancel(c) \/ PutReturn(c)
    PROVE  /\ \A d \in DOMAIN put' : SafeWrite(put[d])'
           /\ \A p \in AtRest' : WholeAt(p, files'[p])
<1> DEFINE t == put[c]
<1>1. /\ DOMAIN put = {c} /\ SafeWrite(t) /\ WholePut(t)
      /\ \A p \in AtRest : WholeAt(p, files[p])
  BY DEF SafeWrites, TypeOK
<1>2. TransferOK(t) /\ faults \in Nat
  BY MaxFaultsAssumption DEF TypeOK, StoreOK
<1>3. AtRest = IF t.open = "no" THEN DOMAIN files ELSE DOMAIN files \ {t.path}
  BY <1>1 DEF AtRest
<1>4. CASE PutOpen(c)
  <2> DEFINE u == [t EXCEPT !.open = "yes"]
  <2>1. /\ files' = With(files, t.path, <<>>) /\ t.open = "no" /\ t.pos = 0
        /\ DOMAIN put' = {c} /\ put'[c] = u
    BY <1>1, <1>4 DEF PutOpen, SafeWrite
  <2>2. u.open = "yes" /\ u.pos = 0 /\ u.path = t.path /\ u.data = t.data
    BY <1>2, <2>1 DEF TransferOK
  <2>3. /\ DOMAIN files' = DOMAIN files \cup {t.path} /\ files'[t.path] = <<>>
        /\ \A p \in DOMAIN files \ {t.path} : files'[p] = files[p]
    BY <2>1 DEF With
  <2> HIDE DEF u
  <2>4. AtRest' = DOMAIN files \ {t.path}
    BY <2>1, <2>2, <2>3 DEF AtRest
  <2>5. Beginning(u, 0) = <<>> /\ 0 <= Len(t.data)
    BY <1>1 DEF Beginning, WholePut
  <2>6. SafeWrite(put[c])'
    BY <2>1, <2>2, <2>3, <2>5 DEF SafeWrite, Beginning
  <2> QED
    BY <1>1, <1>3, <2>1, <2>3, <2>4, <2>6
<1>5. CASE PutWrite(c)
  <2> DEFINE k == t.pos + 1
             u == [t EXCEPT !.pos = k]
  <2>1. /\ t.open = "yes" /\ t.path \in DOMAIN files /\ files[t.path] = Beginning(t, t.pos)
        /\ t.pos < Len(t.data)
    BY <1>1, <1>5 DEF PutWrite, Writing, SafeWrite
  <2>2. /\ files' = [files EXCEPT ![t.path] = WriteAt(@, k, t.data[k])]
        /\ DOMAIN put' = {c} /\ put'[c] = u
    BY <1>1, <1>5, <2>1 DEF PutWrite
  <2>3. u.open = "yes" /\ u.pos = k /\ u.path = t.path /\ u.data = t.data
    BY <1>2, <2>1 DEF TransferOK
  <2>4. t.pos \in Nat /\ k <= Len(t.data)
    BY <1>1, <1>2, <2>1 DEF TransferOK, WholePut
  <2>5. WriteAt(files[t.path], k, t.data[k]) = Beginning(t, k)
    BY <2>1, <2>4, WriteGrows
  <2>6. Beginning(u, k) = Beginning(t, k)
    BY <2>3 DEF Beginning
  <2> HIDE DEF u, k
  <2>7. /\ DOMAIN files' = DOMAIN files /\ files'[t.path] = Beginning(u, k)
        /\ \A p \in DOMAIN files \ {t.path} : files'[p] = files[p]
    BY <2>1, <2>2, <2>5, <2>6
  <2>8. AtRest' = DOMAIN files \ {t.path}
    BY <2>2, <2>3, <2>7 DEF AtRest
  <2>9. SafeWrite(put[c])'
    BY <2>1, <2>2, <2>3, <2>4, <2>7 DEF SafeWrite, Beginning
  <2> QED
    BY <1>1, <1>3, <2>1, <2>2, <2>7, <2>8, <2>9
<1>6. CASE PutCancel(c)
  <2>1. /\ t.open # "no" /\ files' = Without(files, t.path) /\ DOMAIN put' = {}
    BY <1>1, <1>6 DEF PutCancel, Writing
  <2>2. AtRest' = DOMAIN files \ {t.path} /\ \A p \in AtRest' : files'[p] = files[p]
    BY <2>1 DEF AtRest, Without
  <2> QED
    BY <1>1, <1>3, <2>1, <2>2
<1>7. CASE PutReturn(c)
  <2>1. /\ t.open # "no" /\ t.pos = Len(t.data) /\ UNCHANGED files /\ DOMAIN put' = {}
    BY <1>1, <1>2, <1>7 DEF PutReturn, Writing, Fault, Without
  <2>2. AtRest' = DOMAIN files
    BY <2>1 DEF AtRest
  <2>3. files[t.path] = t.data /\ WholeAt(t.path, t.data)
    BY <1>1, <2>1 DEF SafeWrite, WholePut
  <2> QED
    BY <1>1, <1>3, <2>1, <2>2, <2>3
<1> QED
  BY <1>4, <1>5, <1>6, <1>7

\* In a directory the invariant is preserved by every step.
LEMMA NextWrites ==
    ASSUME Backend = "file", TypeOK, TypeOK', SafeWrites, [Next]_vars
    PROVE  SafeWrites'
<1>1. late' = {}
  BY FileSteps DEF SafeWrites
<1>2. \A d \in DOMAIN put' : WholePut(put'[d])
  <2>1. ASSUME NEW d \in DOMAIN put, NEW t, t.path = put[d].path, t.data = put[d].data
        PROVE  WholePut(t)
    BY <2>1 DEF SafeWrites, WholePut, Beginning
  <2> QED
    BY <2>1, PutsWhole
<1>3. started' = 0 => DOMAIN sess' = {}
  BY CountsGrow DEF SafeWrites
<1>4. Undisturbed' => Undisturbed /\ faults' = 0
  <2>1. started \in Nat
    BY MaxBackupsAssumption DEF TypeOK
  <2> QED
    BY <2>1, CountsGrow DEF Undisturbed
<1>5. Undisturbed' => \A c, d \in DOMAIN sess' : c = d
  <2> SUFFICES ASSUME Undisturbed'
               PROVE  \A c, d \in DOMAIN sess' : c = d
    OBVIOUS
  <2>1. \A c, d \in DOMAIN sess : c = d
    BY <1>4 DEF SafeWrites
  <2>2. CASE DOMAIN sess' \subseteq DOMAIN sess
    BY <2>1, <2>2
  <2>3. ASSUME started' = started + 1, started \in Nat,
               NEW b \in Client, DOMAIN sess' = DOMAIN sess \cup {b}
        PROVE  \A c, d \in DOMAIN sess' : c = d
    <3>1. CASE started' <= 1
      <4>1. DOMAIN sess' = {b}
        BY <2>3, <3>1 DEF SafeWrites
      <4> QED
        BY <4>1
    <3>2. CASE \A c, d \in Client : c = d
      BY <3>2 DEF TypeOK
    <3> QED
      BY <3>1, <3>2 DEF Undisturbed
  <2> QED
    BY <2>2, <2>3, CountsGrow
<1>6. ASSUME Undisturbed'
      PROVE  /\ \A d \in DOMAIN put' : SafeWrite(put[d])'
             /\ \A p \in AtRest' : WholeAt(p, files'[p])
  <2>1. /\ Undisturbed /\ faults' = 0
        /\ \A d \in DOMAIN put : SafeWrite(put[d])
        /\ \A p \in AtRest : WholeAt(p, files[p])
    BY <1>4, <1>6 DEF SafeWrites
  <2>2. CASE UNCHANGED <<files, put>>
    BY <2>1, <2>2 DEF SafeWrite, AtRest
  <2>3. ASSUME NEW c, NEW path, NEW data, PutStart(c, path, data)
        PROVE  /\ \A d \in DOMAIN put' : SafeWrite(put[d])'
               /\ \A p \in AtRest' : WholeAt(p, files'[p])
    <3>1. /\ UNCHANGED files /\ DOMAIN put' = DOMAIN put \cup {c} /\ c \notin DOMAIN put
          /\ \A d \in DOMAIN put : put'[d] = put[d]
          /\ put'[c].open = "no" /\ put'[c].pos = 0
      BY <2>3 DEF PutStart, With, Transfer
    <3>2. SafeWrite(put[c])'
      BY <3>1 DEF SafeWrite
    <3>3. ASSUME NEW d \in DOMAIN put
          PROVE  SafeWrite(put[d])'
      BY <2>1, <3>1, <3>3 DEF SafeWrite, Beginning
    <3>4. AtRest' = AtRest
      BY <3>1 DEF AtRest
    <3> QED
      BY <2>1, <3>1, <3>2, <3>3, <3>4
  <2>4. ASSUME NEW c \in DOMAIN put, PutOpen(c) \/ PutWrite(c) \/ PutCancel(c) \/ PutReturn(c)
        PROVE  /\ \A d \in DOMAIN put' : SafeWrite(put[d])'
               /\ \A p \in AtRest' : WholeAt(p, files'[p])
    BY <2>1, <2>4, AloneWrites
  <2> QED
    BY <2>1, <2>2, <2>3, <2>4, FileSteps DEF SafeWrites
<1> QED
  BY <1>1, <1>2, <1>3, <1>5, <1>6 DEF SafeWrites

\* In a directory, as long as nothing fails and backups run one after the
\* other, an object is complete or being written, from its beginning.
THEOREM WritesSafe ==
    ASSUME Backend = "file"
    PROVE  Spec => []SafeWrites
<1>1. Init => SafeWrites
  BY DEF Init, StoreInit, EmptyFcn, SafeWrites, AtRest, Undisturbed
<1>2. TypeOK /\ TypeOK' /\ SafeWrites /\ [Next]_vars => SafeWrites'
  BY NextWrites
<1> QED
  BY <1>1, <1>2, TypeCorrect, PTL DEF Spec

\* In a directory that one process at a time backs up to, no unfinished object
\* is left behind unless something fails, whatever is packed, cancelled or
\* skipped.
THEOREM NothingUnfinished ==
    ASSUME Backend = "file", \A c, d \in Client : c = d
    PROVE  Spec => []CompleteWithoutFaults
<1>1. SafeWrites => CompleteWithoutFaults
  <2> SUFFICES ASSUME SafeWrites, faults = 0, NEW id \in DataIds,
                      \A c \in DOMAIN put : put[c].path # DataPath(id)
               PROVE  WholeObject(id, files[DataPath(id)])
    BY DEF CompleteWithoutFaults, ExistingObjectComplete
  <2>1. PICK p \in DOMAIN files : p[1] = "data" /\ id = p[2]
    BY DEF DataIds
  <2>2. Undisturbed
    BY DEF Undisturbed
  <2>3. CASE p \in AtRest
    BY <2>1, <2>2, <2>3 DEF SafeWrites, WholeAt
  <2>4. CASE p \notin AtRest
    <3>1. PICK c \in DOMAIN put : put[c].path = p
      BY <2>1, <2>4 DEF AtRest
    <3>2. p = DataPath(id)
      BY <2>1, <3>1 DEF SafeWrites, WholePut, WholeAt
    <3> QED
      BY <3>1, <3>2
  <2> QED
    BY <2>3, <2>4
<1> QED
  BY <1>1, WritesSafe, PTL

-----------------------------------------------------------------------------
(* Where the files of a pack are *)

\* f[i] is the sum of the lengths before i
Offsets(lengths, n, f) == f = [i \in 1..n |-> IF i = 1 THEN 0 ELSE f[i - 1] + lengths[i - 1]]

\* Such a function is known by its values.
LEMMA OffsetsValues ==
    ASSUME NEW lengths, NEW n \in Nat, NEW f
    PROVE  Offsets(lengths, n, f) <=>
               /\ f = [i \in 1..n |-> f[i]]
               /\ \A i \in 1..n : f[i] = IF i = 1 THEN 0 ELSE f[i - 1] + lengths[i - 1]
<1> DEFINE e(i) == IF i = 1 THEN 0 ELSE f[i - 1] + lengths[i - 1]
           h == [i \in 1..n |-> e(i)]
<1>1. ASSUME f = h
      PROVE  f = [i \in 1..n |-> f[i]] /\ \A i \in 1..n : f[i] = e(i)
  <2>1. DOMAIN h = 1..n /\ \A i \in 1..n : h[i] = e(i)
    BY Zenon
  <2>2. h = [i \in 1..n |-> h[i]]
    BY <2>1, Zenon
  <2> HIDE DEF h
  <2> QED
    BY <1>1, <2>1, <2>2
<1>2. ASSUME f = [i \in 1..n |-> f[i]], \A i \in 1..n : f[i] = e(i)
      PROVE  f = h
  <2> HIDE DEF e
  <2> QED
    BY <1>2
<1> QED
  BY <1>1, <1>2 DEF Offsets

\* Each value is that before it and the length before it.
LEMMA OffsetsStep ==
    ASSUME NEW lengths, NEW n \in Nat, NEW f, Offsets(lengths, n, f), NEW i \in 1..n
    PROVE  f[i] = IF i = 1 THEN 0 ELSE f[i - 1] + lengths[i - 1]
BY OffsetsValues, Zenon

\* There is one for every list of lengths.
LEMMA OffsetsExist ==
    ASSUME NEW lengths, NEW n \in Nat
    PROVE  \E f : Offsets(lengths, n, f)
<1> DEFINE T == {m \in Nat : ~\E f : Offsets(lengths, m, f)}
<1> SUFFICES ASSUME T # {}
             PROVE  FALSE
  OBVIOUS
<1>1. PICK m \in T : \A k \in T : m <= k
  BY LeastCount
<1>2. m # 0
  <2>1. Offsets(lengths, 0, [i \in 1..0 |-> 0])
    BY DEF Offsets
  <2> QED
    BY <2>1
<1>3. m - 1 \in Nat /\ m - 1 \notin T /\ m \in Nat /\ m \in 1..m
  BY <1>1, <1>2
<1>4. PICK f : Offsets(lengths, m - 1, f)
  BY <1>3
<1> DEFINE last == IF m = 1 THEN 0 ELSE f[m - 1] + lengths[m - 1]
           h == [i \in 1..m |-> IF i = m THEN last ELSE f[i]]
<1>5. h = [i \in 1..m |-> h[i]]
  OBVIOUS
<1>6. h[m] = last /\ \A i \in 1..m : i # m => h[i] = f[i]
  BY <1>3
<1> HIDE DEF h
<1>7. ASSUME NEW i \in 1..m
      PROVE  h[i] = IF i = 1 THEN 0 ELSE h[i - 1] + lengths[i - 1]
  <2>1. CASE i = m
    <3>1. m # 1 => h[m - 1] = f[m - 1]
      BY <1>3, <1>6
    <3> QED
      BY <1>6, <2>1, <3>1
  <2>2. CASE i # m
    <3>1. i \in 1..(m - 1) /\ (i # 1 => i - 1 \in 1..m /\ i - 1 # m)
      BY <1>3, <2>2
    <3>2. f[i] = IF i = 1 THEN 0 ELSE f[i - 1] + lengths[i - 1]
      <4> DEFINE k == m - 1
      <4>1. k \in Nat /\ Offsets(lengths, k, f) /\ i \in 1..k
        BY <1>3, <1>4, <3>1
      <4> HIDE DEF k, T, last
      <4> QED
        BY <4>1, OffsetsStep, Zenon
    <3>3. h[i] = f[i] /\ (i # 1 => h[i - 1] = f[i - 1])
      BY <1>6, <2>2, <3>1
    <3>4. CASE i = 1
      BY <3>2, <3>3, <3>4
    <3>5. CASE i # 1
      <4>1. h[i - 1] = f[i - 1] /\ f[i] = f[i - 1] + lengths[i - 1]
        BY <3>2, <3>3, <3>5
      <4> QED
        BY <3>3, <3>5, <4>1, Zenon
    <3> QED
      BY <3>4, <3>5
  <2> QED
    BY <2>1, <2>2
<1>8. Offsets(lengths, m, h)
  BY <1>3, <1>5, <1>7, OffsetsValues
<1> QED
  BY <1>8

\* finalizePack adds up the lengths of the seals.
LEMMA PackOffsetsAdd ==
    ASSUME NEW pack, Len(pack) \in Nat, DOMAIN pack = 1..Len(pack), NEW i \in DOMAIN pack
    PROVE  PackOffsets(pack)[i]
             = IF i = 1 THEN 0 ELSE PackOffsets(pack)[i - 1] + PackLengths(pack)[i - 1]
<1> DEFINE n == Len(pack)
           lengths == PackLengths(pack)
           f == CHOOSE h : Offsets(lengths, n, h)
<1>1. PackOffsets(pack)
        = (CHOOSE h : h = [k \in 1..n |-> IF k = 1 THEN 0 ELSE h[k - 1] + lengths[k - 1]])
  BY DEF PackOffsets
<1>2. PackOffsets(pack) = f
  BY <1>1 DEF Offsets
<1>3. n \in Nat /\ i \in 1..n
  OBVIOUS
<1> HIDE DEF n, lengths
<1>4. Offsets(lengths, n, f)
  <2>1. \E h : Offsets(lengths, n, h)
    BY <1>3, OffsetsExist
  <2> QED
    BY <2>1, Zenon
<1> HIDE DEF f
<1> QED
  BY <1>2, <1>3, <1>4, OffsetsValues DEF lengths

\* How far the first files of a pack reach.
LEMMA PackReaches ==
    ASSUME NEW by, NEW pack \in Seq(PackFile), NEW g, Joins(PackSeals(by, pack), Len(pack), g),
           NEW n \in 1..Len(pack)
    PROVE  /\ PackOffsets(pack)[n] \in Nat
           /\ PackLengths(pack)[n] \in Nat \ {0}
           /\ Len(g[n]) = PackOffsets(pack)[n] + PackLengths(pack)[n]
<1> DEFINE seals == PackSeals(by, pack)
           offset == PackOffsets(pack)
           length == PackLengths(pack)
           Good(k) == /\ offset[k] \in Nat
                      /\ length[k] \in Nat \ {0}
                      /\ Len(g[k]) = offset[k] + length[k]
           T == {k \in 1..Len(pack) : ~Good(k)}
<1> SUFFICES ASSUME T # {}
             PROVE  FALSE
  OBVIOUS
<1>1. PICK m \in T : \A k \in T : m <= k
  <2>1. T \subseteq Nat
    OBVIOUS
  <2> QED
    BY <2>1, LeastCount
<1>2. m \in 1..Len(pack) /\ ~Good(m) /\ Len(pack) \in Nat /\ DOMAIN pack = 1..Len(pack)
  OBVIOUS
<1>3. m # 1 => m - 1 \in 1..Len(pack) /\ Good(m - 1)
  BY <1>1, <1>2
<1> HIDE DEF T, Good
<1> DEFINE pay == PackBlock(pack, m)
           seal == compressEncryptHMAC(by, pay)
<1>4. pay \in BlockPay
  <2>1. pack[m] \in PackFile
    BY <1>2
  <2> QED
    BY <2>1 DEF PackFile, PackBlock, Block, BlockPay
<1>5. seals[m] = seal /\ length[m] = SealLength(pay)
  BY <1>2 DEF PackSeals, PackLengths, PackBlock
<1>6. /\ seal \in Seq(BlockCell(by)) /\ Len(seal) = length[m] /\ length[m] \in Nat \ {0}
  BY <1>4, <1>5, SealCells
<1>7. offset[m] = IF m = 1 THEN 0 ELSE offset[m - 1] + length[m - 1]
  BY <1>2, PackOffsetsAdd
<1> HIDE DEF seal, pay, offset, length, seals
<1>8. g[m] = IF m = 1 THEN seal ELSE g[m - 1] \o seal
  <2>1. Joins(seals, Len(pack), g)
    BY DEF seals
  <2> QED
    BY <1>2, <1>5, <2>1, JoinsStep
<1>9. CASE m = 1
  BY <1>2, <1>6, <1>7, <1>8, <1>9 DEF Good
<1>10. CASE m # 1
  <2>1. g[m - 1] \in Seq(BlockCell(by))
    BY <1>3, <1>10, PackCells
  <2>2. Len(g[m]) = Len(g[m - 1]) + Len(seal)
    BY <1>6, <1>8, <1>10, <2>1, ConcatLength
  <2> QED
    BY <1>2, <1>3, <1>6, <1>7, <1>10, <2>2 DEF Good
<1> QED
  BY <1>9, <1>10

\* A file stays where it is when others are put behind it.
LEMMA PackKeeps ==
    ASSUME NEW by, NEW pack \in Seq(PackFile), NEW g, Joins(PackSeals(by, pack), Len(pack), g),
           NEW i \in 1..Len(pack), NEW n \in i..Len(pack)
    PROVE  LET seal == compressEncryptHMAC(by, PackBlock(pack, i))
               offset == PackOffsets(pack)[i]
               length == PackLengths(pack)[i]
           IN  /\ offset + length <= Len(g[n])
               /\ \A k \in 1..length : g[n][offset + k] = seal[k]
<1> DEFINE seals == PackSeals(by, pack)
           offset == PackOffsets(pack)[i]
           length == PackLengths(pack)[i]
           seal == compressEncryptHMAC(by, PackBlock(pack, i))
           Good(m) == /\ offset + length <= Len(g[m])
                      /\ \A k \in 1..length : g[m][offset + k] = seal[k]
           T == {m \in i..Len(pack) : ~Good(m)}
<1> SUFFICES ASSUME T # {}
             PROVE  FALSE
  OBVIOUS
<1>1. PICK m \in T : \A k \in T : m <= k
  <2>1. T \subseteq Nat
    OBVIOUS
  <2> QED
    BY <2>1, LeastCount
<1>2. m \in i..Len(pack) /\ m \in 1..Len(pack) /\ ~Good(m) /\ Len(pack) \in Nat /\ i \in Nat
  OBVIOUS
<1>3. m # i => m - 1 \in i..Len(pack) /\ m - 1 \in 1..Len(pack) /\ Good(m - 1) /\ m # 1
  BY <1>1, <1>2
<1> HIDE DEF T, Good
<1>4. /\ offset \in Nat /\ length \in Nat \ {0} /\ Len(g[i]) = offset + length
  BY PackReaches
<1>5. ASSUME NEW k \in 1..Len(pack)
      PROVE  /\ seals[k] = compressEncryptHMAC(by, PackBlock(pack, k))
             /\ seals[k] \in Seq(BlockCell(by)) /\ Len(seals[k]) = PackLengths(pack)[k]
             /\ g[k] \in Seq(BlockCell(by))
  <2> DEFINE pay == PackBlock(pack, k)
  <2>1. pay \in BlockPay
    <3>1. pack[k] \in PackFile
      OBVIOUS
    <3> QED
      BY <3>1 DEF PackFile, PackBlock, Block, BlockPay
  <2>2. seals[k] = compressEncryptHMAC(by, pay) /\ PackLengths(pack)[k] = SealLength(pay)
    BY DEF PackSeals, PackLengths, PackBlock
  <2> HIDE DEF pay, seals
  <2>3. seals[k] \in Seq(BlockCell(by)) /\ Len(seals[k]) = PackLengths(pack)[k]
    BY <2>1, <2>2, SealCells
  <2>4. g[k] \in Seq(BlockCell(by))
    BY PackCells
  <2> QED
    BY <2>2, <2>3, <2>4 DEF pay
<1>6. g[m] = IF m = 1 THEN seals[m] ELSE g[m - 1] \o seals[m]
  <2> HIDE DEF seals
  <2>1. Joins(seals, Len(pack), g)
    BY DEF seals
  <2> QED
    BY <1>2, <2>1, JoinsStep
<1>7. seals[i] = seal
  BY <1>5
<1>10. offset = IF i = 1 THEN 0 ELSE PackOffsets(pack)[i - 1] + PackLengths(pack)[i - 1]
  <2>1. Len(pack) \in Nat /\ DOMAIN pack = 1..Len(pack)
    OBVIOUS
  <2> QED
    BY <2>1, PackOffsetsAdd, Zenon
<1>8. CASE m = i
  <2>1. CASE m = 1
    <3>1. offset = 0
      BY <1>8, <1>10, <2>1, Zenon
    <3>2. g[m] = seal
      BY <1>6, <1>7, <1>8, <2>1
    <3> HIDE DEF offset, length, seal
    <3>3. \A k \in 1..length : offset + k = k
      BY <1>4, <3>1
    <3>4. \A k \in 1..length : g[m][offset + k] = seal[k]
      BY <3>2, <3>3, Zenon
    <3>5. offset + length <= Len(g[m])
      BY <1>4, <1>8
    <3>6. Good(m)
      BY <3>4, <3>5, Zenon DEF Good
    <3> QED
      BY <1>2, <3>6, Zenon
  <2>2. CASE m # 1
    <3> DEFINE f == g[m - 1]
    <3>1. m - 1 \in 1..Len(pack)
      BY <1>2, <2>2
    <3>2. offset = PackOffsets(pack)[m - 1] + PackLengths(pack)[m - 1]
      BY <1>8, <1>10, <2>2, Zenon
    <3>3. Len(f) = offset
      BY <3>1, <3>2, PackReaches
    <3>4. f \in Seq(BlockCell(by)) /\ seal \in Seq(BlockCell(by)) /\ Len(seal) = length
      BY <1>5, <1>7, <3>1
    <3>5. g[m] = f \o seal
      BY <1>6, <1>7, <1>8, <2>2
    <3> HIDE DEF f, offset, length, seal
    <3>6. ASSUME NEW k \in 1..length
          PROVE  g[m][offset + k] = seal[k]
      <4>1. (f \o seal)[Len(f) + k] = seal[k]
        BY <1>4, <3>4
      <4> QED
        BY <3>3, <3>5, <4>1, Zenon
    <3>7. offset + length <= Len(g[m])
      BY <1>4, <1>8
    <3>8. Good(m)
      BY <3>6, <3>7, Zenon DEF Good
    <3> QED
      BY <1>2, <3>8, Zenon
  <2> QED
    BY <2>1, <2>2
<1>9. CASE m # i
  <2> DEFINE f == g[m - 1]
             t == seals[m]
  <2>1. f \in Seq(BlockCell(by)) /\ t \in Seq(BlockCell(by)) /\ g[m] = f \o t
    BY <1>2, <1>3, <1>5, <1>6, <1>9
  <2>2. offset + length <= Len(f) /\ \A k \in 1..length : f[offset + k] = seal[k]
    BY <1>3, <1>9 DEF Good
  <2> HIDE DEF f, t, offset, length, seal
  <2>3. Len(f \o t) = Len(f) + Len(t) /\ Len(t) \in Nat /\ Len(f) \in Nat
    BY <2>1
  <2>4. ASSUME NEW k \in 1..length
        PROVE  (f \o t)[offset + k] = seal[k]
    <3>1. offset + k \in 1..Len(f)
      BY <1>4, <2>2, <2>3
    <3>2. (f \o t)[offset + k] = f[offset + k]
      BY <2>1, <3>1
    <3> QED
      BY <2>2, <3>2
  <2>5. offset + length <= Len(f \o t)
    BY <1>4, <2>2, <2>3
  <2> QED
    BY <1>2, <2>1, <2>4, <2>5 DEF Good
<1> QED
  BY <1>8, <1>9

\* The range that finalizePack records for a file is the seal of the file.
LEMMA PackRange ==
    ASSUME NEW by, NEW pack \in Seq(PackFile), NEW i \in 1..Len(pack)
    PROVE  /\ RangeOf(FlattenSeq(PackSeals(by, pack)), PackOffsets(pack)[i], PackLengths(pack)[i])
                = compressEncryptHMAC(by, PackBlock(pack, i))
           /\ PackLengths(pack)[i] \in Nat \ {0}
<1> DEFINE n == Len(pack)
           seals == PackSeals(by, pack)
           cells == FlattenSeq(seals)
           offset == PackOffsets(pack)[i]
           length == PackLengths(pack)[i]
           seal == compressEncryptHMAC(by, PackBlock(pack, i))
<1>1. n \in Nat \ {0} /\ n \in i..n /\ n \in 1..n /\ Len(seals) = n
  BY DEF PackSeals
<1>2. PICK g : Joins(seals, n, g)
  BY <1>1, JoinsExists
<1> HIDE DEF seals
<1>3. cells = g[n]
  BY <1>1, <1>2, FlattenJoins
<1>4. /\ offset + length <= Len(g[n])
      /\ \A k \in 1..length : g[n][offset + k] = seal[k]
  BY <1>1, <1>2, PackKeeps DEF seals
<1>5. offset \in Nat /\ length \in Nat \ {0}
  BY <1>2, PackReaches DEF seals
<1>6. g[n] \in Seq(BlockCell(by))
  BY <1>1, <1>2, PackCells DEF seals
<1>7. seal = [k \in 1..length |-> seal[k]]
  BY DEF compressEncryptHMAC, PackLengths, PackBlock
<1> HIDE DEF cells, offset, length, seal, n
<1>8. Len(cells) \in Nat /\ offset + length <= Len(cells)
  BY <1>3, <1>4, <1>6
<1>9. RangeOf(cells, offset, length) = SubSeq(cells, offset + 1, offset + length)
  BY <1>5, <1>8 DEF RangeOf
<1>10. SubSeq(cells, offset + 1, offset + length) = [k \in 1..length |-> cells[offset + k]]
  <2> DEFINE sub == SubSeq(cells, offset + 1, offset + length)
  <2>1. cells \in Seq(BlockCell(by))
    BY <1>3, <1>6
  <2>2. sub \in Seq(BlockCell(by)) /\ Len(sub) = length
        /\ \A k \in 1..length : sub[k] = cells[offset + k]
    BY <1>5, <1>8, <2>1
  <2> HIDE DEF sub
  <2>3. sub = [k \in 1..length |-> sub[k]]
    BY <1>5, <2>2
  <2> QED
    BY <2>2, <2>3 DEF sub
<1>11. [k \in 1..length |-> cells[offset + k]] = [k \in 1..length |-> seal[k]]
  BY <1>3, <1>4
<1> QED
  BY <1>5, <1>7, <1>9, <1>10, <1>11 DEF cells, offset, length, seal, seals

-----------------------------------------------------------------------------
(* What is read back from objects that stay *)

\* the data objects of before are among those of after, as they were
KeepsObjects(before, after) ==
    \A p \in DOMAIN before :
        p[1] = "data" => p \in DOMAIN after /\ after[p] = before[p]

\* the session without the cancel request
SameProgress(s, t) ==
    /\ t.args = s.args /\ t.job = s.job /\ t.ids = s.ids /\ t.pack = s.pack
    /\ t.writePack = s.writePack /\ t.snap = s.snap

\* the session when its next block is stored
BlockAdded(s) == [s EXCEPT !.ids = Append(@, NextBlockId(s))]

\* the session when its current file is recorded
FileRecorded(s) ==
    [s EXCEPT !.args = NextFile(@),
              !.ids = <<>>,
              !.snap = addFileEntry(@, CurrentFile(s).path,
                           FileEntry(s.ids, CurrentFile(s).comp, 0, 0, CurrentFile(s).blocks))]

\* What was read back from objects is read back from them as long as they stay.
LEMMA ReadsKept ==
    ASSUME NEW before, NEW after, KeepsObjects(before, after), NEW snap, ReadsBack(snap, before)
    PROVE  ReadsBack(snap, after)
<1> SUFFICES ASSUME NEW e, EntryReads(e, before)
             PROVE  EntryReads(e, after)
  BY DEF ReadsBack
<1>1. /\ \A i \in DOMAIN e.ids : DataPath(e.ids[i]) \in DOMAIN before
      /\ e.md5 = [i \in DOMAIN e.ids |-> PieceOf(e, before[DataPath(e.ids[i])])]
      /\ e.packLength > 0 =>
            /\ 1 \in DOMAIN e.ids
            /\ VerifiesHMAC(RangeOf(before[DataPath(e.ids[1])], e.offset, e.packLength))
  BY DEF EntryReads
<1>2. \A i \in DOMAIN e.ids : DataPath(e.ids[i])[1] = "data"
  BY DEF DataPath
<1>3. \A i \in DOMAIN e.ids : /\ DataPath(e.ids[i]) \in DOMAIN after
                              /\ after[DataPath(e.ids[i])] = before[DataPath(e.ids[i])]
  BY <1>1, <1>2 DEF KeepsObjects
<1>4. [i \in DOMAIN e.ids |-> PieceOf(e, before[DataPath(e.ids[i])])]
        = [i \in DOMAIN e.ids |-> PieceOf(e, after[DataPath(e.ids[i])])]
  BY <1>3
<1> QED
  BY <1>1, <1>3, <1>4 DEF EntryReads

\* The same for what a session has uploaded.
LEMMA ProgressKept ==
    ASSUME NEW before, NEW after, KeepsObjects(before, after), NEW s, SafeBackup(s, before)
    PROVE  SafeBackup(s, after)
<1>1. ReadsBack(s.snap, after)
  BY ReadsKept DEF SafeBackup
<1>2. SafeUpload(s, before)
  BY DEF SafeBackup
<1>3. ASSUME NEW i \in DOMAIN s.ids, DataPath(s.ids[i]) \in DOMAIN before
      PROVE  /\ DataPath(s.ids[i]) \in DOMAIN after
             /\ after[DataPath(s.ids[i])] = before[DataPath(s.ids[i])]
  BY <1>3 DEF KeepsObjects, DataPath
<1>4. SafeUpload(s, after)
  BY <1>2, <1>3 DEF SafeUpload
<1> QED
  BY <1>1, <1>4 DEF SafeBackup

\* A cancel request changes none of this.
LEMMA SameIsSafe ==
    ASSUME NEW s, NEW t, SameProgress(s, t)
    PROVE  /\ \A objects : SafeBackup(s, objects) => SafeBackup(t, objects)
           /\ \A c, u : SafeSent(c, s, u) => SafeSent(c, t, u)
<1> USE DEF SameProgress
<1>1. /\ ArgOpen(t) <=> ArgOpen(s)
      /\ ToPack(t) <=> ToPack(s)
      /\ CurrentFile(t) = CurrentFile(s)
      /\ Uploading(t) <=> Uploading(s)
      /\ Finalizing(t) <=> Finalizing(s)
      /\ NextBlock(t) = NextBlock(s)
      /\ NextBlockId(t) = NextBlockId(s)
  BY DEF ArgOpen, ArgDone, ToPack, CurrentFile, Uploading, Finalizing, NextBlock, NextBlockId
<1>2. ASSUME NEW objects, SafeBackup(s, objects)
      PROVE  SafeBackup(t, objects)
  BY <1>1, <1>2 DEF SafeBackup, SafeUpload
<1>3. ASSUME NEW c, NEW u, SafeSent(c, s, u)
      PROVE  SafeSent(c, t, u)
  BY <1>1, <1>3 DEF SafeSent
<1> QED
  BY <1>2, <1>3

\* Before a file is begun nothing of it is missing.
LEMMA NoIdsSafe ==
    ASSUME NEW s, SessionOK(s), s.ids = <<>>, NEW objects
    PROVE  SafeUpload(s, objects)
<1>1. ArgOpen(s) => Len(CurrentFile(s).blocks) \in Nat
  BY CurrentFileType DEF File
<1> QED
  BY <1>1 DEF SafeUpload

\* A block that is among the objects is added to those of its file.
LEMMA BlockAddedSafe ==
    ASSUME NEW s, SessionOK(s), Uploading(s), BlocksLeft(s), NEW objects,
           SafeBackup(s, objects), DataPath(NextBlockId(s)) \in DOMAIN objects,
           decompressDecryptHMAC(CurrentFile(s).comp, objects[DataPath(NextBlockId(s))])
             = NextBlock(s)
    PROVE  SafeBackup(BlockAdded(s), objects)
<1> DEFINE id == NextBlockId(s)
           t == BlockAdded(s)
           f == CurrentFile(s)
<1>1. ArgOpen(s) /\ ~ToPack(s) /\ id \in Bytes /\ s.ids \in Seq(Bytes) /\ f \in File
  BY NextBlockType, CurrentFileType DEF Uploading, SessionOK
<1>2. /\ t.args = s.args /\ t.job = s.job /\ t.pack = s.pack /\ t.snap = s.snap
      /\ t.ids = Append(s.ids, id)
  BY DEF SessionOK, BlockAdded
<1> HIDE DEF t, id
<1>3. ArgOpen(t) /\ ~ToPack(t) /\ CurrentFile(t) = f
  BY <1>1, <1>2 DEF ArgOpen, ToPack, CurrentFile
<1> HIDE DEF f
<1>4. /\ Len(s.ids) <= Len(f.blocks)
      /\ \A i \in DOMAIN s.ids :
            /\ DataPath(s.ids[i]) \in DOMAIN objects
            /\ decompressDecryptHMAC(f.comp, objects[DataPath(s.ids[i])]) = f.blocks[i]
  BY <1>1 DEF SafeBackup, SafeUpload, f
<1>5. /\ Len(s.ids) < Len(f.blocks) /\ NextBlock(s) = f.blocks[Len(s.ids) + 1]
  BY DEF BlocksLeft, NextBlock, f
<1>6. Len(s.ids) \in Nat /\ Len(f.blocks) \in Nat /\ Len(t.ids) = Len(s.ids) + 1
  BY <1>1, <1>2 DEF File
<1>7. ASSUME NEW i \in DOMAIN t.ids
      PROVE  /\ DataPath(t.ids[i]) \in DOMAIN objects
             /\ decompressDecryptHMAC(f.comp, objects[DataPath(t.ids[i])]) = f.blocks[i]
  <2>1. \/ i \in DOMAIN s.ids /\ t.ids[i] = s.ids[i]
        \/ i = Len(s.ids) + 1 /\ t.ids[i] = id
    BY <1>1, <1>2, <1>7
  <2> QED
    BY <1>4, <1>5, <2>1 DEF id, f
<1>8. Len(t.ids) <= Len(f.blocks)
  BY <1>5, <1>6
<1>9. SafeUpload(t, objects)
  BY <1>3, <1>7, <1>8 DEF SafeUpload
<1> QED
  BY <1>2, <1>9 DEF SafeBackup, t

\* A file whose blocks are all uploaded is read back from them.
LEMMA FileRecordedSafe ==
    ASSUME NEW s, SessionOK(s), Uploading(s), ~BlocksLeft(s), NEW objects,
           SafeBackup(s, objects), SessionOK(FileRecorded(s))
    PROVE  SafeBackup(FileRecorded(s), objects)
<1> DEFINE f == CurrentFile(s)
           e == FileEntry(s.ids, f.comp, 0, 0, f.blocks)
           snap == addFileEntry(s.snap, f.path, e)
           t == FileRecorded(s)
<1>1. /\ ArgOpen(s) /\ ~ToPack(s) /\ s.ids \in Seq(Bytes) /\ f.blocks \in Seq(Bytes)
  BY CurrentFileType DEF Uploading, SessionOK, File
<1>2. /\ Len(s.ids) <= Len(f.blocks)
      /\ \A i \in DOMAIN s.ids :
            /\ DataPath(s.ids[i]) \in DOMAIN objects
            /\ decompressDecryptHMAC(f.comp, objects[DataPath(s.ids[i])]) = f.blocks[i]
  BY <1>1 DEF SafeBackup, SafeUpload
<1>3. DOMAIN s.ids = DOMAIN f.blocks
  <2>1. Len(s.ids) = Len(f.blocks)
    BY <1>1, <1>2 DEF BlocksLeft
  <2> QED
    BY <1>1, <2>1
<1>4. NextFile(s.args) # <<>>
  BY <1>1 DEF NextFile, SessionOK, ArgOpen
<1>5. t.snap = snap /\ t.ids = <<>> /\ t.args # <<>>
  BY <1>4 DEF SessionOK, FileRecorded
<1>6. SafeUpload(t, objects)
  BY <1>5, NoIdsSafe
<1> HIDE DEF f, t
<1>7. e.ids = s.ids /\ e.comp = f.comp /\ e.packLength = 0 /\ e.md5 = f.blocks
  BY DEF FileEntry
<1> HIDE DEF e
<1>8. ASSUME NEW i \in DOMAIN s.ids
      PROVE  PieceOf(e, objects[DataPath(s.ids[i])]) = f.blocks[i]
  BY <1>2, <1>7, <1>8 DEF PieceOf
<1>9. e.md5 = [i \in DOMAIN e.ids |-> PieceOf(e, objects[DataPath(e.ids[i])])]
  <2>1. f.blocks = [i \in DOMAIN s.ids |-> f.blocks[i]]
    BY <1>1, <1>3
  <2> QED
    BY <1>7, <1>8, <2>1
<1>10. \A p \in DOMAIN snap : (p \in DOMAIN s.snap /\ snap[p] = s.snap[p]) \/ snap[p] = e
  BY DEF addFileEntry, With
<1> HIDE DEF snap
<1>11. ReadsBack(snap, objects)
  <2>1. ReadsBack(s.snap, objects)
    BY DEF SafeBackup
  <2>2. \A i \in DOMAIN e.ids : DataPath(e.ids[i]) \in DOMAIN objects
    BY <1>2, <1>7
  <2>3. EntryReads(e, objects)
    BY <1>7, <1>9, <2>2 DEF EntryReads
  <2> QED
    BY <1>10, <2>1, <2>3 DEF ReadsBack
<1> QED
  BY <1>5, <1>6, <1>11 DEF SafeBackup, t

\* The files of a pack that is among the objects are read back from it.
LEMMA PackEntriesRead ==
    ASSUME NEW by, NEW snap, NEW pack \in Seq(PackFile), NEW objects, ReadsBack(snap, objects),
           DataPath(PackId(pack)) \in DOMAIN objects,
           objects[DataPath(PackId(pack))] = FlattenSeq(PackSeals(by, pack))
    PROVE  ReadsBack(AddPackEntries(snap, pack, PackOffsets(pack), PackLengths(pack)), objects)
<1> DEFINE id == PackId(pack)
           cells == FlattenSeq(PackSeals(by, pack))
           first(p) == CHOOSE i \in DOMAIN pack :
                           /\ pack[i].path = p
                           /\ \A j \in 1..(i - 1) : pack[j].path # p
           entry(i) == FileEntry(<<id>>, pack[i].comp, PackOffsets(pack)[i],
                                 PackLengths(pack)[i], <<pack[i].data>>)
           fresh == {pack[i].path : i \in DOMAIN pack} \ DOMAIN snap
           new == AddPackEntries(snap, pack, PackOffsets(pack), PackLengths(pack))
<1>1. new = [p \in DOMAIN snap \cup fresh |->
                IF p \in DOMAIN snap THEN snap[p] ELSE entry(first(p))]
  BY DEF AddPackEntries
<1>2. ASSUME NEW p \in fresh
      PROVE  first(p) \in DOMAIN pack
  <2> DEFINE T == {i \in DOMAIN pack : pack[i].path = p}
  <2>1. DOMAIN pack = 1..Len(pack) /\ Len(pack) \in Nat
    OBVIOUS
  <2>2. T # {} /\ T \subseteq Nat
    BY <2>1
  <2>3. PICK i \in T : \A j \in T : i <= j
    BY <2>2, LeastCount
  <2>4. \A j \in 1..(i - 1) : pack[j].path # p
    BY <2>1, <2>3
  <2>5. \E k \in DOMAIN pack : pack[k].path = p /\ \A j \in 1..(k - 1) : pack[j].path # p
    BY <2>3, <2>4
  <2> QED
    BY <2>5, Zenon
<1> HIDE DEF first, entry, new
<1>3. ASSUME NEW p \in DOMAIN new
      PROVE  \/ p \in DOMAIN snap /\ new[p] = snap[p]
             \/ \E i \in DOMAIN pack : new[p] = entry(i)
  <2> HIDE DEF fresh
  <2> QED
    BY <1>1, <1>2, <1>3
<1>4. ASSUME NEW i \in DOMAIN pack
      PROVE  EntryReads(entry(i), objects)
  <2> DEFINE e == entry(i)
             pay == PackBlock(pack, i)
  <2>1. /\ e.ids = <<id>> /\ e.comp = pack[i].comp /\ e.md5 = <<pack[i].data>>
        /\ e.offset = PackOffsets(pack)[i] /\ e.packLength = PackLengths(pack)[i]
    BY DEF entry, FileEntry
  <2>2. pay \in BlockPay /\ pay.kind = "block" /\ pay.comp = pack[i].comp /\ pay.data = pack[i].data
    <3>1. pack[i] \in PackFile
      BY <1>4
    <3> QED
      BY <3>1 DEF PackFile, PackBlock, Block, BlockPay
  <2>3. /\ RangeOf(cells, e.offset, e.packLength) = compressEncryptHMAC(by, pay)
        /\ e.packLength \in Nat \ {0}
    BY <1>4, <2>1, PackRange
  <2>4. SealLength(pay) \in Nat \ {0}
    BY <2>2, SealCells
  <2> DEFINE seal == compressEncryptHMAC(by, pay)
  <2>5. VerifiesHMAC(seal) /\ seal[1].pay = pay
    BY <2>4, SealVerifies
  <2> HIDE DEF e, pay, seal, cells
  <2>6. PieceOf(e, cells) = pack[i].data
    <3>1. PieceOf(e, cells) = decompressDecryptHMAC(e.comp, seal)
      BY <2>3 DEF PieceOf, seal
    <3> QED
      BY <2>1, <2>2, <2>5, <3>1 DEF decompressDecryptHMAC
  <2>7. objects[DataPath(id)] = cells
    BY DEF cells
  <2> HIDE DEF id
  <2>8. DOMAIN e.ids = {1} /\ e.ids[1] = id
    BY <2>1
  <2>9. [k \in DOMAIN e.ids |-> PieceOf(e, objects[DataPath(e.ids[k])])] = <<pack[i].data>>
    BY <2>6, <2>7, <2>8
  <2>10. \A k \in DOMAIN e.ids : DataPath(e.ids[k]) \in DOMAIN objects
    BY <2>8 DEF id
  <2>11. VerifiesHMAC(RangeOf(objects[DataPath(e.ids[1])], e.offset, e.packLength))
    BY <2>3, <2>5, <2>7, <2>8 DEF seal
  <2> QED
    BY <2>1, <2>8, <2>9, <2>10, <2>11 DEF EntryReads, e
<1> QED
  BY <1>3, <1>4 DEF ReadsBack, new

\* finalizePack leaves a session whose files are read back from the pack.
LEMMA PackFinalizedSafe ==
    ASSUME NEW by, NEW s, SessionOK(s), NEW objects, SafeBackup(s, objects),
           DataPath(PackId(s.pack)) \in DOMAIN objects,
           objects[DataPath(PackId(s.pack))] = FlattenSeq(PackSeals(by, s.pack))
    PROVE  SafeBackup(PackFinalized(s, PackOffsets(s.pack), PackLengths(s.pack)), objects)
<1> DEFINE snap == AddPackEntries(s.snap, s.pack, PackOffsets(s.pack), PackLengths(s.pack))
           t == PackFinalized(s, PackOffsets(s.pack), PackLengths(s.pack))
<1>1. ReadsBack(snap, objects)
  BY PackEntriesRead DEF SafeBackup, SessionOK
<1>2. /\ t.snap = snap /\ t.args = s.args /\ t.job = s.job /\ t.ids = s.ids /\ t.pack = <<>>
  BY DEF SessionOK, PackFinalized
<1> HIDE DEF snap, t
<1>3. (ArgOpen(t) <=> ArgOpen(s)) /\ (ToPack(t) <=> ToPack(s)) /\ CurrentFile(t) = CurrentFile(s)
  BY <1>2 DEF ArgOpen, ToPack, CurrentFile
<1>4. SafeUpload(t, objects)
  BY <1>2, <1>3 DEF SafeBackup, SafeUpload
<1> QED
  BY <1>1, <1>2, <1>4 DEF SafeBackup, t

-----------------------------------------------------------------------------
(* Packs in a directory, as long as nothing fails and none is found *)

\* What was disturbed stays disturbed.
LEMMA UndisturbedBefore ==
    ASSUME TypeOK, [Next]_vars, Undisturbed'
    PROVE  Undisturbed /\ faults' = 0
<1>1. started \in Nat
  BY MaxBackupsAssumption DEF TypeOK
<1> QED
  BY <1>1, CountsGrow DEF Undisturbed

\* What a put() that is alone does to the paths at which nothing is written.
LEMMA AloneRests ==
    ASSUME Backend = "file", TypeOK, SafeWrites, Undisturbed, NEW c \in DOMAIN put,
           faults' = 0, PutOpen(c) \/ PutWrite(c) \/ PutCancel(c) \/ PutReturn(c)
    PROVE  /\ DOMAIN put' \subseteq {c}
           /\ \A d \in DOMAIN put' : put'[d].open = "yes"
           /\ \A p \in AtRest : p # put[c].path => p \in AtRest' /\ files'[p] = files[p]
           /\ \A p \in AtRest' : \/ p \in AtRest /\ files'[p] = files[p]
                                 \/ PutReturn(c) /\ p = put[c].path
           /\ put[c].path \in AtRest => put[c].open = "no"
           /\ put[c].open = "no" => PutOpen(c)
           /\ PutReturn(c) => /\ put[c].path \in AtRest' /\ files'[put[c].path] = put[c].data
                              /\ DOMAIN put' = {}
<1> DEFINE t == put[c]
<1>1. DOMAIN put = {c} /\ SafeWrite(t) /\ WholePut(t)
  BY DEF SafeWrites, TypeOK
<1>2. TransferOK(t) /\ faults \in Nat
  BY MaxFaultsAssumption DEF TypeOK, StoreOK
<1>3. AtRest = IF t.open = "no" THEN DOMAIN files ELSE DOMAIN files \ {t.path}
  BY <1>1 DEF AtRest
<1>4. CASE PutOpen(c)
  <2> DEFINE u == [t EXCEPT !.open = "yes"]
  <2>1. /\ files' = With(files, t.path, <<>>) /\ t.open = "no"
        /\ DOMAIN put' = {c} /\ put'[c] = u /\ ~PutReturn(c)
    BY <1>1, <1>4 DEF PutOpen, PutReturn, Writing
  <2>2. u.open = "yes" /\ u.path = t.path
    BY <1>2, <2>1 DEF TransferOK
  <2>3. /\ DOMAIN files' = DOMAIN files \cup {t.path}
        /\ \A p \in DOMAIN files \ {t.path} : files'[p] = files[p]
    BY <2>1 DEF With
  <2> HIDE DEF u
  <2>4. AtRest' = DOMAIN files \ {t.path}
    BY <2>1, <2>2, <2>3 DEF AtRest
  <2> QED
    BY <1>3, <1>4, <2>1, <2>2, <2>3, <2>4
<1>5. CASE PutWrite(c)
  <2> DEFINE k == t.pos + 1
             u == [t EXCEPT !.pos = k]
  <2>1. /\ t.open = "yes" /\ t.path \in DOMAIN files /\ t.pos < Len(t.data) /\ t.pos \in Nat
        /\ Len(t.data) \in Nat
    BY <1>1, <1>2, <1>5 DEF PutWrite, Writing, SafeWrite, WholePut, TransferOK
  <2>2. /\ files' = [files EXCEPT ![t.path] = WriteAt(@, k, t.data[k])]
        /\ DOMAIN put' = {c} /\ put'[c] = u
    BY <1>1, <1>5, <2>1 DEF PutWrite
  <2>3. u.open = "yes" /\ u.path = t.path
    BY <1>2, <2>1 DEF TransferOK
  <2>4. ~PutReturn(c)
    BY <1>1, <2>2 DEF PutReturn, Without
  <2> HIDE DEF u, k
  <2>5. /\ DOMAIN files' = DOMAIN files
        /\ \A p \in DOMAIN files \ {t.path} : files'[p] = files[p]
    BY <2>1, <2>2
  <2>6. AtRest' = DOMAIN files \ {t.path}
    BY <2>2, <2>3, <2>5 DEF AtRest
  <2> QED
    BY <1>3, <2>1, <2>2, <2>3, <2>4, <2>5, <2>6
<1>6. CASE PutCancel(c)
  <2>1. /\ t.open # "no" /\ files' = Without(files, t.path) /\ DOMAIN put' = {}
        /\ t.path \in DOMAIN files
    BY <1>1, <1>6 DEF PutCancel, Writing, SafeWrite
  <2>2. AtRest' = DOMAIN files \ {t.path} /\ \A p \in AtRest' : files'[p] = files[p]
    BY <2>1 DEF AtRest, Without
  <2>3. ~PutReturn(c)
    BY <2>1 DEF PutReturn, Without
  <2> QED
    BY <1>3, <2>1, <2>2, <2>3
<1>7. CASE PutReturn(c)
  <2>1. /\ t.open # "no" /\ t.pos = Len(t.data) /\ UNCHANGED files /\ DOMAIN put' = {}
    BY <1>1, <1>2, <1>7 DEF PutReturn, Writing, Fault, Without
  <2>2. AtRest' = DOMAIN files
    BY <2>1 DEF AtRest
  <2>3. files[t.path] = t.data /\ t.path \in DOMAIN files
    BY <1>1, <2>1 DEF SafeWrite, WholePut
  <2> QED
    BY <1>3, <1>7, <2>1, <2>2, <2>3
<1> QED
  BY <1>4, <1>5, <1>6, <1>7

\* Data objects that nobody writes stay as they are: a put() opens none of
\* them, and removes none that it did not open.
LEMMA ObjectsRest ==
    ASSUME Backend = "file", TypeOK, SafeWrites, SafePacks, Undisturbed, faults' = 0, [Next]_vars
    PROVE  KeepsObjects(Resting, Resting')
<1>1. DOMAIN Resting = AtRest /\ \A p \in AtRest : Resting[p] = files[p]
  BY DEF Resting
<1>2. DOMAIN Resting' = AtRest' /\ \A p \in AtRest' : Resting'[p] = files'[p]
  BY DEF Resting
<1> SUFFICES ASSUME NEW p \in AtRest, p[1] = "data"
             PROVE  p \in AtRest' /\ files'[p] = files[p]
  BY <1>1, <1>2 DEF KeepsObjects
<1>3. CASE UNCHANGED <<files, put>>
  BY <1>3 DEF AtRest
<1>4. ASSUME NEW c, NEW path, NEW data, PutStart(c, path, data)
      PROVE  p \in AtRest' /\ files'[p] = files[p]
  <2>1. /\ UNCHANGED files /\ DOMAIN put' = DOMAIN put \cup {c}
        /\ \A d \in DOMAIN put : put'[d] = put[d]
        /\ put'[c].open = "no"
    BY <1>4 DEF PutStart, With, Transfer
  <2> QED
    BY <2>1 DEF AtRest
<1>5. ASSUME NEW c \in DOMAIN put, PutOpen(c) \/ PutWrite(c) \/ PutCancel(c) \/ PutReturn(c)
      PROVE  p \in AtRest' /\ files'[p] = files[p]
  <2>1. p # put[c].path
    <3>1. OpensNothing(put[c])
      BY DEF SafePacks
    <3>2. put[c].path \in AtRest => put[c].open = "no"
      BY <1>5, AloneRests
    <3>3. p \in DOMAIN files
      BY DEF AtRest
    <3> QED
      BY <3>1, <3>2, <3>3 DEF OpensNothing
  <2> QED
    BY <1>5, <2>1, AloneRests
<1> QED
  BY <1>3, <1>4, <1>5, FileSteps DEF SafeWrites

\* What a sealed snapshot holds.
LEMMA SealedSnapshot ==
    ASSUME NEW by, NEW snap
    PROVE  compressEncryptHMAC(by, SnapshotFile(snap))[1].pay.snap = snap
<1>1. compressEncryptHMAC(by, SnapshotFile(snap))[1].pay = SnapshotFile(snap)
  BY SealVerifies, SealLengths
<1>2. SnapshotFile(snap).snap = snap
  BY DEF SnapshotFile
<1> QED
  BY <1>1, <1>2

\* What comes to rest can be read, and what rested before still can.
LEMMA RestingSafe ==
    ASSUME Backend = "file", TypeOK, SafeWrites, SafePacks, Undisturbed, faults' = 0, [Next]_vars,
           NEW p \in AtRest'
    PROVE  IF p[1] = "snapshot" THEN ReadsBack(files'[p][1].pay.snap, Resting')
                                ELSE SealedAt(p, files'[p])
<1>1. KeepsObjects(Resting, Resting')
  BY ObjectsRest
<1>2. CASE p \in AtRest /\ files'[p] = files[p]
  <2>1. IF p[1] = "snapshot" THEN ReadsBack(files[p][1].pay.snap, Resting)
                             ELSE SealedAt(p, files[p])
    BY <1>2 DEF SafePacks
  <2> HIDE DEF Resting
  <2> QED
    BY <1>1, <1>2, <2>1, ReadsKept
<1>3. ASSUME NEW c \in DOMAIN put, PutReturn(c), p = put[c].path
      PROVE  IF p[1] = "snapshot" THEN ReadsBack(files'[p][1].pay.snap, Resting')
                                  ELSE SealedAt(p, files'[p])
  <2>1. files'[p] = put[c].data
    BY <1>3, AloneRests
  <2>2. SafeSent(c, sess[c], put[c]) /\ SafeBackup(sess[c], Resting)
    BY DEF SafePacks, TypeOK
  <2>3. CASE p[1] # "snapshot"
    BY <1>3, <2>1, <2>2, <2>3 DEF SafeSent
  <2>4. CASE p[1] = "snapshot"
    <3>1. files'[p][1].pay.snap = sess[c].snap
      BY <1>3, <2>1, <2>2, <2>4, SealedSnapshot DEF SafeSent
    <3>2. ReadsBack(sess[c].snap, Resting)
      BY <2>2 DEF SafeBackup
    <3>3. ReadsBack(sess[c].snap, Resting')
      BY <1>1, <3>2, ReadsKept
    <3> QED
      BY <2>4, <3>1, <3>3
  <2> QED
    BY <2>3, <2>4
<1>4. CASE UNCHANGED <<files, put>>
  BY <1>2, <1>4 DEF AtRest
<1>5. ASSUME NEW c, NEW path, NEW data, PutStart(c, path, data)
      PROVE  p \in AtRest /\ files'[p] = files[p]
  <2>1. /\ UNCHANGED files /\ DOMAIN put' = DOMAIN put \cup {c} /\ c \notin DOMAIN put
        /\ \A d \in DOMAIN put : put'[d] = put[d]
        /\ put'[c].open = "no"
    BY <1>5 DEF PutStart, With, Transfer
  <2> QED
    BY <2>1 DEF AtRest
<1>6. ASSUME NEW c \in DOMAIN put, PutOpen(c) \/ PutWrite(c) \/ PutCancel(c) \/ PutReturn(c)
      PROVE  \/ p \in AtRest /\ files'[p] = files[p]
             \/ PutReturn(c) /\ p = put[c].path
  BY <1>6, AloneRests
<1> QED
  BY <1>2, <1>3, <1>4, <1>5, <1>6, FileSteps DEF SafeWrites

\* A transfer that goes on is as safe as it was.
LEMMA SentKept ==
    ASSUME Backend = "file", TypeOK, SafeWrites, SafePacks, Undisturbed, faults' = 0, [Next]_vars,
           NEW d \in DOMAIN put, d \in DOMAIN put', SameProgress(sess[d], sess'[d])
    PROVE  SafeSent(d, sess'[d], put'[d]) /\ OpensNothing(put[d])'
<1>1. SafeSent(d, sess[d], put[d]) /\ OpensNothing(put[d])
  BY DEF SafePacks
<1>2. /\ put'[d].path = put[d].path /\ put'[d].data = put[d].data
      /\ put'[d].open # "no" \/ (put'[d].open = put[d].open /\ UNCHANGED files)
  <2>1. CASE UNCHANGED <<files, put>>
    BY <2>1
  <2>2. ASSUME NEW c, NEW path, NEW data, PutStart(c, path, data)
        PROVE  put'[d] = put[d] /\ UNCHANGED files
    BY <2>2 DEF PutStart, With
  <2>3. ASSUME NEW c \in DOMAIN put, PutOpen(c) \/ PutWrite(c) \/ PutCancel(c) \/ PutReturn(c)
        PROVE  /\ put'[d].path = put[d].path /\ put'[d].data = put[d].data
               /\ put'[d].open # "no"
    <3>1. put'[d].open = "yes"
      BY <2>3, AloneRests
    <3> QED
      BY <2>3, <3>1, PutKeeps DEF TypeOK
  <2> QED
    BY <2>1, <2>2, <2>3, FileSteps DEF SafeWrites
<1>3. SafeSent(d, sess[d], put'[d])
  BY <1>1, <1>2 DEF SafeSent
<1>4. SafeSent(d, sess'[d], put'[d])
  BY <1>3, SameIsSafe
<1> QED
  BY <1>1, <1>2, <1>4 DEF OpensNothing

\* In a directory, every step of a backup that finds no pack keeps SafePacks.
LEMMA NextPacks ==
    ASSUME Backend = "file", TypeOK, TypeOK', SafeWrites, NoPackFound, SafePacks, [Next]_vars
    PROVE  SafePacks'
<1> DEFINE Sessions == \A d \in DOMAIN sess' : SafeBackup(sess'[d], Resting')
           Transfers == \A d \in DOMAIN put' :
                            SafeSent(d, sess'[d], put'[d]) /\ OpensNothing(put[d])'
           Goal == Sessions /\ Transfers
<1> SUFFICES ASSUME Undisturbed'
             PROVE  Goal
  <2>1. ASSUME Undisturbed'
        PROVE  \A p \in AtRest' :
                   IF p[1] = "snapshot" THEN ReadsBack(files'[p][1].pay.snap, Resting')
                                        ELSE SealedAt(p, files'[p])
    BY <2>1, UndisturbedBefore, RestingSafe
  <2> HIDE DEF Sessions, Transfers
  <2> QED
    BY <2>1 DEF SafePacks, Sessions, Transfers
<1>1. /\ Undisturbed /\ faults' = 0
  BY UndisturbedBefore
<1>2. /\ \A p \in AtRest : p[1] # "snapshot" => SealedAt(p, files[p])
      /\ \A d \in DOMAIN sess : SafeBackup(sess[d], Resting)
      /\ \A d \in DOMAIN put : SafeSent(d, sess[d], put[d])
      /\ \A d, e \in DOMAIN sess : d = e
      /\ DOMAIN put \subseteq DOMAIN sess
  BY <1>1 DEF SafePacks, SafeWrites, TypeOK
<1>3. \A d \in DOMAIN sess : SafeBackup(sess[d], Resting') /\ SessionOK(sess[d])
  <2>1. KeepsObjects(Resting, Resting')
    BY <1>1, ObjectsRest
  <2> QED
    BY <1>2, <2>1, ProgressKept DEF TypeOK
<1>4. ASSUME NEW d \in DOMAIN put, d \in DOMAIN put', SameProgress(sess[d], sess'[d])
      PROVE  SafeSent(d, sess'[d], put'[d]) /\ OpensNothing(put[d])'
  BY <1>1, <1>4, SentKept
<1>5. ASSUME NEW s
      PROVE  SameProgress(s, s)
  BY DEF SameProgress
\* when no put() begins and every session that waits for one is the same
<1>6. ASSUME Sessions, DOMAIN put' \subseteq DOMAIN put,
             \A d \in DOMAIN put' : SameProgress(sess[d], sess'[d])
      PROVE  Goal
  BY <1>4, <1>6
\* when a client's session is replaced by s
<1>7. ASSUME NEW c \in DOMAIN sess, NEW s, SetSession(c, s), DOMAIN put' \subseteq DOMAIN put,
             c \notin DOMAIN put', SafeBackup(s, Resting')
      PROVE  Goal
  <2>1. /\ \A d \in DOMAIN sess' : d \in DOMAIN sess /\ (sess'[d] = s \/ sess'[d] = sess[d])
        /\ \A d \in DOMAIN put' : sess'[d] = sess[d]
    BY <1>2, <1>7 DEF SetSession
  <2> QED
    BY <1>3, <1>5, <1>6, <1>7, <2>1
\* when it ends
<1>8. ASSUME NEW c, EndSession(c), DOMAIN put' \subseteq DOMAIN put, c \notin DOMAIN put'
      PROVE  Goal
  <2>1. /\ \A d \in DOMAIN sess' : d \in DOMAIN sess /\ sess'[d] = sess[d]
        /\ \A d \in DOMAIN put' : sess'[d] = sess[d]
    BY <1>2, <1>8 DEF EndSession, Without
  <2> QED
    BY <1>3, <1>5, <1>6, <1>8, <2>1
\* when it goes on
<1>9. ASSUME UNCHANGED sess, DOMAIN put' \subseteq DOMAIN put
      PROVE  Goal
  BY <1>3, <1>5, <1>6, <1>9
\* and when it begins a put()
<1>10. ASSUME NEW c \in DOMAIN sess, NEW path, NEW data, PutStart(c, path, data),
              UNCHANGED sess, SafeSent(c, sess[c], Transfer(path, data)),
              path[1] = "snapshot" \/ path \notin DOMAIN files
       PROVE  Goal
  <2>1. /\ DOMAIN put' = DOMAIN put \cup {c} /\ put'[c] = Transfer(path, data)
        /\ UNCHANGED files /\ c \notin DOMAIN put
    BY <1>10 DEF PutStart, With
  <2>2. Transfer(path, data).path = path
    BY DEF Transfer
  <2>3. SafeSent(c, sess'[c], put'[c]) /\ OpensNothing(put[c])'
    BY <1>10, <2>1, <2>2 DEF OpensNothing
  <2> QED
    BY <1>3, <1>4, <1>5, <1>10, <2>1, <2>3
\* where nothing is written, the store is at rest
<1>11. ASSUME NEW c \in DOMAIN sess, c \notin DOMAIN put
       PROVE  AtRest = DOMAIN files
  <2>1. DOMAIN put = {}
    BY <1>2, <1>11
  <2> QED
    BY <2>1 DEF AtRest
<1> HIDE DEF Goal, Sessions, Transfers
<1>12. ASSUME NEW c \in Client, NEW n \in Name, NEW job \in Job, Backup(c, n, job)
       PROVE  Goal
  <2> DEFINE s == Session(n, job)
  <2>1. /\ c \notin DOMAIN sess /\ UNCHANGED put /\ sess' = With(sess, c, s)
    BY <1>12 DEF Backup, storeVars
  <2>2. s.snap = EmptyFcn /\ s.ids = <<>> /\ s.pack = <<>>
    BY DEF Session
  <2> HIDE DEF s
  <2>3. /\ \A d \in DOMAIN sess' : (d \in DOMAIN sess /\ sess'[d] = sess[d]) \/ sess'[d] = s
        /\ \A d \in DOMAIN put' : sess'[d] = sess[d]
        /\ c \in DOMAIN sess' /\ sess'[c] = s
    BY <1>2, <2>1 DEF With
  <2>4. SafeBackup(s, Resting')
    <3>1. SafeUpload(s, Resting')
      BY <2>2, <2>3, NoIdsSafe DEF TypeOK
    <3>2. ReadsBack(s.snap, Resting')
      BY <2>2 DEF ReadsBack, EmptyFcn
    <3> QED
      BY <2>2, <3>1, <3>2 DEF SafeBackup
  <2> QED
    BY <1>3, <1>5, <1>6, <2>1, <2>3, <2>4 DEF Sessions
<1>13. ASSUME NEW c \in Client, Signal(c)
       PROVE  Goal
  <2> DEFINE s == sess[c]
             t == [s EXCEPT !.cancelled = TRUE]
  <2>1. SessionOK(s) /\ c \in DOMAIN sess
    BY <1>13 DEF Signal, TypeOK
  <2>2. SameProgress(s, t)
    BY <2>1 DEF SessionOK, SameProgress
  <2>3. /\ UNCHANGED put /\ DOMAIN sess' = DOMAIN sess
        /\ \A d \in DOMAIN sess : sess'[d] = IF d = c THEN t ELSE sess[d]
    BY <1>13 DEF Signal, storeVars
  <2> HIDE DEF t
  <2>4. \A d \in DOMAIN sess : SameProgress(sess[d], sess'[d])
    BY <1>5, <2>2, <2>3
  <2>5. Sessions
    BY <1>3, <2>3, <2>4, SameIsSafe DEF Sessions
  <2> QED
    BY <1>2, <1>6, <2>3, <2>4, <2>5
<1>14. ASSUME NEW c \in Client, AddToPack(c)
       PROVE  Goal
  <2> DEFINE s == sess[c]
             f == CurrentFile(s)
             added == [s EXCEPT
                         !.args = NextFile(@),
                         !.pack = Append(@, [path |-> f.path, comp |-> f.comp,
                                             data |-> f.blocks[1]])]
             full == [added EXCEPT !.writePack = TRUE]
  <2>1. /\ SessionOK(s) /\ ArgOpen(s) /\ ToPack(s) /\ c \in DOMAIN sess /\ c \notin DOMAIN put
        /\ UNCHANGED put
    BY <1>14 DEF AddToPack, Running, TypeOK, storeVars
  <2>2. NextFile(s.args) # <<>>
    BY <2>1 DEF NextFile, SessionOK, ArgOpen
  <2>3. /\ added.snap = s.snap /\ added.ids = s.ids /\ added.args # <<>>
        /\ full.snap = s.snap /\ full.ids = s.ids /\ full.args # <<>>
    BY <2>1, <2>2 DEF SessionOK
  <2>4. s.ids = <<>> /\ ReadsBack(s.snap, Resting')
    BY <1>3, <2>1 DEF SafeBackup, SafeUpload
  <2>5. SetSession(c, added) \/ SetSession(c, full) \/ EndSession(c)
    BY <1>14 DEF AddToPack
  <2> HIDE DEF added, full
  <2>6. ASSUME NEW t, SetSession(c, t), t.snap = s.snap, t.ids = s.ids, t.args # <<>>
        PROVE  Goal
    <3>1. SessionOK(t)
      BY <2>1, <2>6 DEF SetSession, TypeOK
    <3>2. SafeBackup(t, Resting')
      BY <2>4, <2>6, <3>1, NoIdsSafe DEF SafeBackup
    <3> QED
      BY <1>7, <2>1, <2>6, <3>2
  <2> QED
    BY <1>8, <2>1, <2>3, <2>5, <2>6
<1>15. ASSUME NEW c \in Client, UploadBlock(c)
       PROVE  Goal
  <2> DEFINE s == sess[c]
             id == NextBlockId(s)
             path == DataPath(id)
             data == compressEncryptHMAC(c, Block(CurrentFile(s).comp, NextBlock(s)))
  <2>1. /\ Uploading(s) /\ BlocksLeft(s) /\ c \in DOMAIN sess /\ c \notin DOMAIN put
        /\ Running(c) /\ SessionOK(s) /\ ArgOpen(s)
    BY <1>15 DEF UploadBlock, Running, TypeOK, Uploading
  <2>2. /\ CurrentFile(s).comp \in {0, 1} /\ NextBlock(s) \in Bytes
        /\ id = BlockId(CurrentFile(s).comp, NextBlock(s)) /\ path[1] = "data"
    BY <2>1, NextBlockType DEF NextBlockId, DataPath
  <2>3. CASE exist(path, TRUE) /\ UNCHANGED <<files, put>> /\ SetSession(c, BlockAdded(s))
    <3>1. path \in DOMAIN files /\ AtRest = DOMAIN files /\ AtRest' = AtRest
      BY <1>11, <2>1, <2>3 DEF exist, HeadFails, AtRest
    <3>2. SealedAt(path, files[path])
      BY <1>2, <2>2, <3>1
    <3>3. \/ path # DataPath(PackId(SealedIn(files[path])))
          \/ SafeObject(path, files[path], {})
      BY <2>1, <3>1 DEF NoPackFound, DataPath
    <3>4. SafeObject(path, files[path], {})
      BY <2>2, <3>2, <3>3 DEF SealedAt
    <3>5. decompressDecryptHMAC(CurrentFile(s).comp, files[path]) = NextBlock(s)
      BY <2>2, <3>4, SafeObjectReads
    <3>6. path \in DOMAIN Resting' /\ Resting'[path] = files[path]
      BY <2>3, <3>1 DEF Resting
    <3>7. SafeBackup(BlockAdded(s), Resting')
      BY <1>3, <2>1, <3>5, <3>6, BlockAddedSafe
    <3> QED
      BY <1>7, <2>1, <2>3, <3>7
  <2>4. CASE UNCHANGED put /\ EndSession(c)
    BY <1>8, <2>1, <2>4
  <2>5. CASE exist(path, FALSE) /\ UNCHANGED sess /\ PutStart(c, path, data)
    <3>1. path \notin DOMAIN files
      BY <2>5 DEF exist, HeadFails
    <3>2. SealedAt(path, data)
      BY <2>2, SealedBlockSafe DEF SealedAt
    <3>3. ~Finalizing(s)
      BY <2>1 DEF Uploading, Finalizing, ArgOpen, ArgDone
    <3>4. Transfer(path, data).path = path /\ Transfer(path, data).data = data
      BY DEF Transfer
    <3>5. SafeSent(c, s, Transfer(path, data))
      BY <2>2, <3>2, <3>3, <3>4 DEF SafeSent
    <3> HIDE DEF path, data
    <3> QED
      BY <1>10, <2>1, <2>5, <3>1, <3>5
  <2> QED
    BY <1>15, <2>3, <2>4, <2>5 DEF UploadBlock, BlockAdded
<1>16. ASSUME NEW c \in Client, RecordFile(c)
       PROVE  Goal
  <2> DEFINE s == sess[c]
             t == FileRecorded(s)
  <2>1. /\ Uploading(s) /\ ~BlocksLeft(s) /\ c \in DOMAIN sess /\ c \notin DOMAIN put
        /\ UNCHANGED put /\ SetSession(c, t)
    BY <1>16 DEF RecordFile, Running, storeVars, FileRecorded
  <2> HIDE DEF t
  <2>2. SessionOK(t)
    BY <2>1 DEF SetSession, TypeOK
  <2>3. SafeBackup(t, Resting')
    BY <1>3, <2>1, <2>2, FileRecordedSafe DEF t
  <2> QED
    BY <1>7, <2>1, <2>3
<1>17. ASSUME NEW c \in Client, FinalizePack(c)
       PROVE  Goal
  <2> DEFINE s == sess[c]
             path == DataPath(PackId(s.pack))
             data == FlattenSeq(PackSeals(c, s.pack))
  <2>1. /\ c \in DOMAIN sess /\ c \notin DOMAIN put /\ Finalizing(s) /\ Running(c)
        /\ s.pack \in Seq(PackFile) /\ s.pack # <<>>
    BY <1>17 DEF FinalizePack, Running, Finalizing, TypeOK, SessionOK
  <2>2. path \notin DOMAIN files
    BY <2>1 DEF NoPackFound
  <2>3. UNCHANGED sess /\ PutStart(c, path, data)
    BY <1>17, <2>2 DEF FinalizePack, exist, HeadFails
  <2>4. SealedAt(path, data)
    BY <2>1, PackWhole DEF SealedAt
  <2>5. ~Uploading(s) /\ path[1] = "data"
    BY <2>1 DEF Uploading, Finalizing, ArgOpen, ArgDone, DataPath
  <2>6. Transfer(path, data).path = path /\ Transfer(path, data).data = data
    BY DEF Transfer
  <2>7. SafeSent(c, s, Transfer(path, data))
    BY <2>4, <2>5, <2>6 DEF SafeSent
  <2> HIDE DEF path, data
  <2> QED
    BY <1>10, <2>1, <2>2, <2>3, <2>7
<1>18. ASSUME NEW c \in Client, NextArg(c)
       PROVE  Goal
  <2> DEFINE s == sess[c]
             t == [s EXCEPT !.args = Tail(@)]
  <2>1. /\ SessionOK(s) /\ c \in DOMAIN sess /\ c \notin DOMAIN put /\ ArgDone(s)
        /\ s.pack = <<>> /\ UNCHANGED put /\ SetSession(c, t)
    BY <1>18 DEF NextArg, Running, Finalizing, TypeOK, storeVars, SetSession
  <2>2. t.ids = s.ids /\ t.snap = s.snap /\ t.pack = s.pack
    BY <2>1 DEF SessionOK
  <2> HIDE DEF t
  <2>3. s.ids = <<>> /\ ReadsBack(s.snap, Resting')
    BY <1>3, <2>1 DEF SafeBackup, SafeUpload, ArgOpen, ArgDone
  <2>4. SessionOK(t)
    BY <2>1 DEF SetSession, TypeOK
  <2>5. SafeBackup(t, Resting')
    BY <2>1, <2>2, <2>3, <2>4, NoIdsSafe DEF SafeBackup
  <2> QED
    BY <1>7, <2>1, <2>5
<1>19. ASSUME NEW c \in Client, CommitSnapshot(c)
       PROVE  Goal
  <2> DEFINE s == sess[c]
             path == SnapshotPath(s.name)
             data == compressEncryptHMAC(c, SnapshotFile(s.snap))
  <2>1. /\ c \in DOMAIN sess /\ s.args = <<>> /\ UNCHANGED sess /\ PutStart(c, path, data)
    BY <1>19 DEF CommitSnapshot, Running
  <2>2. s.pack = <<>>
    BY <1>2, <2>1 DEF SafeBackup
  <2>3. path[1] = "snapshot" /\ ~Uploading(s) /\ ~Finalizing(s)
    BY <2>1, <2>2 DEF SnapshotPath, Uploading, Finalizing, ArgOpen
  <2>4. Transfer(path, data).path = path /\ Transfer(path, data).data = data
    BY DEF Transfer
  <2>5. SafeSent(c, s, Transfer(path, data))
    BY <2>3, <2>4 DEF SafeSent, SealedAt
  <2> HIDE DEF path, data
  <2> QED
    BY <1>10, <2>1, <2>3, <2>5
<1>20. ASSUME NEW c \in Client, Transferring(c)
       PROVE  Goal
  <2>1. UNCHANGED sess /\ DOMAIN put' \subseteq DOMAIN put
    BY <1>20 DEF Transferring, repoVars, PutOpen, PutStored, PutWrite
  <2> QED
    BY <1>9, <2>1
<1>21. ASSUME NEW c \in Client, CancelTransfer(c)
       PROVE  Goal
  <2>1. EndSession(c) /\ DOMAIN put' \subseteq DOMAIN put /\ c \notin DOMAIN put'
    BY <1>21 DEF CancelTransfer, PutCancel, PutAbandon, Without
  <2> QED
    BY <1>8, <2>1
<1>22. ASSUME NEW c \in Client, Transferred(c)
       PROVE  Goal
  <2> DEFINE s == sess[c]
             t == put[c]
  <2>1. /\ c \in DOMAIN sess /\ c \in DOMAIN put /\ PutReturn(c)
        /\ SafeSent(c, s, t) /\ SessionOK(s)
        /\ Uploading(s) => BlocksLeft(s)
    BY <1>2, <1>22 DEF Transferred, Waiting, TypeOK
  <2>2. t.path \in AtRest' /\ files'[t.path] = t.data /\ DOMAIN put' = {}
    BY <1>1, <2>1, AloneRests
  <2>3. t.path \in DOMAIN Resting' /\ Resting'[t.path] = t.data
    BY <2>2 DEF Resting
  <2>4. CASE Uploading(s) /\ SetSession(c, BlockAdded(s))
    <3>1. /\ t.path = DataPath(NextBlockId(s))
          /\ t.data = compressEncryptHMAC(c, Block(CurrentFile(s).comp, NextBlock(s)))
      BY <2>1, <2>4 DEF SafeSent
    <3>2. /\ CurrentFile(s).comp \in {0, 1} /\ NextBlock(s) \in Bytes
          /\ NextBlockId(s) = BlockId(CurrentFile(s).comp, NextBlock(s))
      BY <2>1, <2>4, NextBlockType DEF NextBlockId, Uploading
    <3>3. SafeObject(t.path, t.data, {})
      BY <3>1, <3>2, SealedBlockSafe
    <3>4. decompressDecryptHMAC(CurrentFile(s).comp, t.data) = NextBlock(s)
      BY <3>1, <3>2, <3>3, SafeObjectReads
    <3>5. SafeBackup(BlockAdded(s), Resting')
      BY <1>3, <2>1, <2>3, <2>4, <3>1, <3>4, BlockAddedSafe
    <3> QED
      BY <1>7, <2>1, <2>2, <2>4, <3>5
  <2>5. CASE /\ Finalizing(s)
             /\ SetSession(c, PackFinalized(s, PackOffsets(s.pack), PackLengths(s.pack)))
    <3>1. /\ t.path = DataPath(PackId(s.pack))
          /\ t.data = FlattenSeq(PackSeals(c, s.pack))
      BY <2>1, <2>5 DEF SafeSent
    <3>2. SafeBackup(PackFinalized(s, PackOffsets(s.pack), PackLengths(s.pack)), Resting')
      BY <1>3, <2>1, <2>3, <3>1, PackFinalizedSafe
    <3> QED
      BY <1>7, <2>1, <2>2, <2>5, <3>2
  <2>6. CASE EndSession(c)
    BY <1>8, <2>2, <2>6
  <2> QED
    BY <1>22, <2>4, <2>5, <2>6 DEF Transferred, BlockAdded
<1>23. ASSUME NEW c \in Client, TransferError(c) \/ Crash(c)
       PROVE  Goal
  <2>1. faults' = faults + 1 /\ faults \in Nat
    BY <1>23, MaxFaultsAssumption
    DEF TransferError, Crash, PutError, Fault, TypeOK, StoreOK
  <2> QED
    BY <1>1, <2>1
<1>24. CASE LateUpload \/ UNCHANGED vars
  <2>1. UNCHANGED sess /\ UNCHANGED put
    BY <1>24 DEF LateUpload, PutLate, repoVars, vars
  <2> QED
    BY <1>9, <2>1
<1>25. ASSUME NEW c, Retry(c)
       PROVE  FALSE
  BY <1>25 DEF Retry, PutRetry
<1> QED
  BY <1>12, <1>13, <1>14, <1>15, <1>16, <1>17, <1>18, <1>19, <1>20, <1>21, <1>22, <1>23, <1>24,
     <1>25
  DEF Next, Step

\* In a directory with packs, as long as nothing fails, backups run one after
\* the other and finalizePack finds no pack: what entries refer to is at rest,
\* and the ranges that they record are those of the files they were made from.
THEOREM PacksSafe ==
    ASSUME Backend = "file"
    PROVE  Spec /\ []NoPackFound => []SafePacks
<1>1. Init => SafePacks
  BY DEF Init, StoreInit, EmptyFcn, SafePacks, AtRest
<1>2. TypeOK /\ TypeOK' /\ SafeWrites /\ NoPackFound /\ SafePacks /\ [Next]_vars => SafePacks'
  BY NextPacks
<1> QED
  BY <1>1, <1>2, TypeCorrect, WritesSafe, PTL DEF Spec

\* What a snapshot of such a directory refers to is at rest, also when it is
\* being overwritten.
LEMMA CommittedReads ==
    ASSUME SafeWrites, SafePacks, Undisturbed, TypeOK, NEW n \in Name, Committed(n)
    PROVE  ReadsBack(loadSnapshot(n), Resting)
<1> DEFINE path == SnapshotPath(n)
           snap == loadSnapshot(n)
<1>1. /\ path \in DOMAIN files /\ path[1] = "snapshot" /\ files[path] # <<>>
      /\ snap = files[path][1].pay.snap
  BY DEF Committed, get, VerifiesHMAC, loadSnapshot, SnapshotPath
<1> HIDE DEF snap, path
<1>2. CASE path \in AtRest
  BY <1>1, <1>2 DEF SafePacks, snap
<1>3. CASE path \notin AtRest
  <2>1. PICK c \in DOMAIN put : put[c].path = path /\ put[c].open # "no"
    BY <1>1, <1>3 DEF AtRest
  <2> DEFINE t == put[c]
  <2>2. files[path] = Beginning(t, t.pos) /\ t.pos \in Nat
    BY <2>1 DEF SafeWrites, SafeWrite, TypeOK, StoreOK, TransferOK
  <2>3. files[path][1] = t.data[1]
    BY <1>1, <2>2 DEF Beginning
  <2>4. SafeSent(c, sess[c], t) /\ SafeBackup(sess[c], Resting)
    BY DEF SafePacks, TypeOK
  <2>5. t.data[1].pay.snap = sess[c].snap
    BY <1>1, <2>1, <2>4, SealedSnapshot DEF SafeSent
  <2> QED
    BY <1>1, <2>3, <2>4, <2>5 DEF SafeBackup, snap
<1> QED
  BY <1>2, <1>3

\* downloadFile gets what is at rest.
LEMMA EntryRestored ==
    ASSUME NEW e, EntryReads(e, Resting)
    PROVE  /\ downloadFile(e) = e.md5
           /\ e.packLength > 0 =>
                 VerifiesHMAC(RangeOf(get(DataPath(e.ids[1])), e.offset, e.packLength))
<1>1. /\ \A i \in DOMAIN e.ids : DataPath(e.ids[i]) \in DOMAIN Resting
      /\ e.md5 = [i \in DOMAIN e.ids |-> PieceOf(e, Resting[DataPath(e.ids[i])])]
  BY DEF EntryReads
<1>2. \A q \in DOMAIN Resting : Resting[q] = get(q)
  BY DEF Resting, AtRest, get
<1>3. [i \in DOMAIN e.ids |-> PieceOf(e, Resting[DataPath(e.ids[i])])]
        = [i \in DOMAIN e.ids |-> PieceOf(e, get(DataPath(e.ids[i])))]
  BY <1>1, <1>2
<1>4. downloadFile(e) = e.md5
  BY <1>1, <1>3 DEF downloadFile
<1> HIDE DEF Resting
<1> QED
  BY <1>1, <1>2, <1>4 DEF EntryReads

\* In a directory, everything that a first, undisturbed backup has committed is
\* restored to what was uploaded, from blocks and from packs, unless it finds
\* a pack that is in the repository already.
THEOREM FirstAlwaysRestorable ==
    ASSUME Backend = "file"
    PROVE  Spec /\ []NoPackFound => []FirstRestorable
<1>1. ASSUME TypeOK, SafeWrites, SafePacks, started = 1, faults = 0
      PROVE  Restorable
  <2>1. Undisturbed
    BY <1>1 DEF Undisturbed
  <2> QED
    BY <1>1, <2>1, CommittedReads, EntryRestored DEF Restorable, ReadsBack
<1>2. TypeOK /\ SafeWrites /\ SafePacks => FirstRestorable
  BY <1>1 DEF FirstRestorable
<1> QED
  BY <1>2, PacksSafe, TypeCorrect, WritesSafe, PTL

\* The range of an entry is one encrypted object, as the repository format
\* says, in every directory that nothing disturbed and in which no pack was
\* found: that finalizePack skips the pack it finds is the only way in which
\* backups that nothing disturbs come to record another range.
THEOREM RangesAreObjects ==
    ASSUME Backend = "file"
    PROVE  Spec /\ []NoPackFound => [](Undisturbed => PackRangeIsObject)
<1>1. ASSUME TypeOK, SafeWrites, SafePacks, Undisturbed
      PROVE  PackRangeIsObject
  BY <1>1, CommittedReads, EntryRestored DEF PackRangeIsObject, ReadsBack
<1>2. TypeOK /\ SafeWrites /\ SafePacks => (Undisturbed => PackRangeIsObject)
  BY <1>1
<1> QED
  BY <1>2, PacksSafe, TypeCorrect, WritesSafe, PTL

=============================================================================
