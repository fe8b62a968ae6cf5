------------------------------ MODULE Snapshot ------------------------------
(***************************************************************************)
(* The snapshot object (libnebula/Snapshot.cpp): a sorted map from paths   *)
(* to file entries, whose strings are offsets into one buffer and whose    *)
(* object ids are an index into one vector; the image that save() writes   *)
(* and load() reads; and the search by directory that restore uses.        *)
(*                                                                         *)
(* Strings are sequences of characters, and a character is its code, for   *)
(* two things depend on it: NUL ends a string in the buffer, and the map   *)
(* is ordered by characters.  Every public operation holds mMutex, so each *)
(* is one action.  The fields of an entry that are copied and never        *)
(* interpreted (mode, size, times, digest, pack range) are left out.       *)
(***************************************************************************)
EXTENDS Integers, Sequences, FiniteSets, SequencesExt

CONSTANTS
    Path,          \* normalised relative paths, as uploadFile makes them
    Owner,         \* names of users and groups
    Ids,           \* lists of object ids a file may have
    MaxObjects,    \* 65535, the most object ids of one entry
    MaxAdds,       \* bound on calls of addFileEntry
    MaxSaves       \* bound on calls of save

NUL == 0

SLASH == 47

ObjectId == UNION {Range(ids) : ids \in Ids}

ASSUME SnapshotAssumption ==
    /\ \A p \in Path : p # <<>> /\ p[1] # SLASH /\ p[Len(p)] # SLASH
    /\ Path \cup Owner \subseteq Seq(1..255)
    /\ Ids \subseteq Seq(ObjectId)
    /\ {MaxObjects, MaxAdds, MaxSaves} \subseteq Nat

VARIABLES
    snap,          \* the snapshot in memory: files, table, buffer, objects
    image,         \* what save wrote last: one image, or none
    fresh,         \* the snapshot was loaded, and not changed since
    adds, saves    \* calls so far

snapVars == <<snap, image, fresh, adds, saves>>

-----------------------------------------------------------------------------
(* The string buffer *)

\* The string that starts at offset n, without its NUL.
indexToString(buffer, n) ==
    LET end == CHOOSE e \in n..(Len(buffer) - 1) :
                   /\ buffer[e + 1] = NUL
                   /\ \A i \in n..(e - 1) : buffer[i + 1] # NUL
    IN  SubSeq(buffer, n + 1, end)

\* n rounded up to a multiple of 4
Align(n) == 4 * ((n + 3) \div 4)

\* str, its NUL, and the zeros that resize() leaves after it
Padded(str) ==
    [i \in 1..Align(Len(str) + 1) |-> IF i <= Len(str) THEN str[i] ELSE NUL]

insertStringTable(s, str) ==
    IF str \in DOMAIN s.table THEN s
    ELSE [s EXCEPT !.buffer = @ \o Padded(str),
                   !.table = [t \in DOMAIN @ \cup {str} |->
                                  IF t = str THEN Len(s.buffer) ELSE @[t]]]

\* The offsets load() takes for the start of a string: the first one, and then
\* every first character after NULs.
StringStarts(buffer) ==
    {i \in 0..(Len(buffer) - 1) :
        i = 0 \/ (buffer[i + 1] # NUL /\ buffer[i] = NUL)}

\* A plausible mistake, part of no specification: offsets counted in words of
\* 4 bytes, as the sizes in the image are
StringTableInWords(buffer) ==
    [t \in {indexToString(buffer, i) : i \in StringStarts(buffer)} |->
        (CHOOSE i \in StringStarts(buffer) : indexToString(buffer, i) = t) \div 4]

\* Strings that are stored twice get the later offset.
StringTable(buffer) ==
    [t \in {indexToString(buffer, i) : i \in StringStarts(buffer)} |->
        CHOOSE i \in StringStarts(buffer) :
            /\ indexToString(buffer, i) = t
            /\ \A j \in StringStarts(buffer) : indexToString(buffer, j) = t => j <= i]

-----------------------------------------------------------------------------
(* Paths *)

\* path::filename() and path::parent_path()
SlashesOf(p) == {i \in DOMAIN p : p[i] = SLASH}

LastSlash(p) ==
    IF SlashesOf(p) = {} THEN 0
    ELSE CHOOSE i \in SlashesOf(p) : \A j \in SlashesOf(p) : j <= i

Filename(p) == SubSeq(p, LastSlash(p) + 1, Len(p))

ParentPath(p) == SubSeq(p, 1, LastSlash(p) - 1)

\* pathIndex and nameIndex put together again
PathOf(buffer, fe) ==
    indexToString(buffer, fe.path) \o <<SLASH>> \o indexToString(buffer, fe.name)

\* the order of std::map<std::string, FileEntry>
Before(p, q) ==
    \/ Len(p) < Len(q) /\ SubSeq(q, 1, Len(p)) = p
    \/ \E i \in DOMAIN p \cap DOMAIN q :
           p[i] < q[i] /\ SubSeq(p, 1, i - 1) = SubSeq(q, 1, i - 1)

-----------------------------------------------------------------------------
(* Plausible mistakes, part of no specification *)

\* files keyed by their names alone
loadByName(img) ==
    LET key(p) == indexToString(img.buffer, img.files[p].name)
    IN  [buffer |-> img.buffer, table |-> StringTable(img.buffer), objects |-> img.objects,
         files |-> [q \in {key(p) : p \in DOMAIN img.files} |->
                       img.files[CHOOSE p \in DOMAIN img.files : key(p) = q]]]

\* the keys left as they were when the files were added
loadOldKeys(img) ==
    LET key(p) == img.files[p].given.path
    IN  [buffer |-> img.buffer, table |-> StringTable(img.buffer), objects |-> img.objects,
         files |-> [q \in {key(p) : p \in DOMAIN img.files} |->
                       img.files[CHOOSE p \in DOMAIN img.files : key(p) = q]]]

-----------------------------------------------------------------------------
(* The operations *)

Argument == [path : Path, user : Owner, group : Owner, ids : Ids]

getFileEntry(s, p) == IF p \in DOMAIN s.files THEN {s.files[p]} ELSE {}

\* The strings and the ids are stored whether or not the map takes the entry:
\* insert() keeps the entry it has.  The field given is for the properties.
addFileEntry(s, a) ==
    LET s1 == insertStringTable(s, Filename(a.path))
        s2 == insertStringTable(s1, ParentPath(a.path))
        s3 == insertStringTable(s2, a.user)
        s4 == insertStringTable(s3, a.group)
        fe == [name |-> s1.table[Filename(a.path)], path |-> s2.table[ParentPath(a.path)],
               user |-> s3.table[a.user], group |-> s4.table[a.group],
               objectCount |-> Len(a.ids), objectIdIndex |-> Len(s.objects), given |-> a]
    IN  [s4 EXCEPT !.objects = @ \o a.ids,
                   !.files = [p \in DOMAIN @ \cup {a.path} |->
                                  IF p \in DOMAIN @ THEN @[p] ELSE fe]]

deleteFileEntry(s, p) ==
    [s EXCEPT !.files = [q \in DOMAIN @ \ {p} |-> @[q]]]

\* The entries go out in the order of the map, without its keys: in the image
\* the domain of files stands for that order and for nothing else.
save(s) == [buffer |-> s.buffer, objects |-> s.objects, files |-> s.files]

\* The keys come from the strings, and the last entry of a key wins.
load(img) ==
    LET key(p) == PathOf(img.buffer, img.files[p])
    IN  [buffer |-> img.buffer, table |-> StringTable(img.buffer), objects |-> img.objects,
         files |-> [q \in {key(p) : p \in DOMAIN img.files} |->
                       img.files[CHOOSE p \in DOMAIN img.files :
                           /\ key(p) = q
                           /\ \A r \in DOMAIN img.files : key(r) = q => r = p \/ Before(r, p)]]]

\* What forEachFileEntry(subpath, callback) goes through, sub being subpath
\* without the slashes at its end: the entries from lower_bound on, up to the
\* first that is not below sub.
Below(p, sub) ==
    /\ Len(p) >= Len(sub) /\ SubSeq(p, 1, Len(sub)) = sub
    /\ sub = <<>> \/ Len(p) = Len(sub) \/ p[Len(sub) + 1] = SLASH

forEachFileEntry(s, sub) ==
    LET from == {p \in DOMAIN s.files : p = sub \/ Before(sub, p)}
        stop == {p \in from : ~Below(PathOf(s.buffer, s.files[p]), sub)}
    IN  {p \in from : \A q \in stop : Before(p, q)}

\* The entries that the restore command downloads for its arguments, the whole
\* snapshot if there are none: it puts the path together for each entry visited
\* and downloadFile looks it up.
downloadFiles(s, args) ==
    UNION {getFileEntry(s, PathOf(s.buffer, s.files[p])) :
               p \in UNION {forEachFileEntry(s, sub) :
                                sub \in IF args = {} THEN {<<>>} ELSE args}}

-----------------------------------------------------------------------------
EmptySnapshot == [files |-> <<>>, table |-> <<>>, buffer |-> <<>>, objects |-> <<>>]

SnapInit ==
    /\ snap = EmptySnapshot
    /\ image = {}
    /\ fresh = FALSE
    /\ adds = 0
    /\ saves = 0

\* addFileEntry throws, before it changes anything, if there are too many ids.
AddFileEntry(a) ==
    /\ adds < MaxAdds
    /\ Len(a.ids) <= MaxObjects
    /\ snap' = addFileEntry(snap, a)
    /\ fresh' = FALSE
    /\ adds' = adds + 1
    /\ UNCHANGED <<image, saves>>

DeleteFileEntry(p) ==
    /\ p \in DOMAIN snap.files
    /\ snap' = deleteFileEntry(snap, p)
    /\ fresh' = FALSE
    /\ UNCHANGED <<image, adds, saves>>

Save ==
    /\ saves < MaxSaves
    /\ image' = {save(snap)}
    /\ saves' = saves + 1
    /\ UNCHANGED <<snap, fresh, adds>>

\* loadSnapshot makes a new snapshot of what is stored, and the program goes on
\* with that one.
Load ==
    /\ ~fresh
    /\ \E img \in image : snap' = load(img)
    /\ fresh' = TRUE
    /\ UNCHANGED <<image, adds, saves>>

SnapNext ==
    \/ \E a \in Argument : AddFileEntry(a)
    \/ \E p \in DOMAIN snap.files : DeleteFileEntry(p)
    \/ Save
    \/ Load

SnapSpec == SnapInit /\ [][SnapNext]_snapVars

-----------------------------------------------------------------------------
(* Properties *)

\* Every entry still says what addFileEntry was given: its offsets into the
\* string buffer and its index into the ids keep their meaning while other
\* entries come and go, and over save() and load(), which builds the string
\* table anew from the NULs of the buffer.
EntriesResolve ==
    \A p \in DOMAIN snap.files :
        LET fe == snap.files[p]
            str(n) == indexToString(snap.buffer, n)
        IN  /\ str(fe.name) = Filename(fe.given.path)
            /\ str(fe.path) = ParentPath(fe.given.path)
            /\ str(fe.user) = fe.given.user
            /\ str(fe.group) = fe.given.group
            /\ SubSeq(snap.objects, fe.objectIdIndex + 1, fe.objectIdIndex + fe.objectCount)
                   = fe.given.ids

\* A snapshot that is saved now and loaded again lists the same paths, and
\* has no entry that was not saved.
RoundTrip ==
    LET again == load(save(snap))
        listed(s) == {PathOf(s.buffer, s.files[p]) : p \in DOMAIN s.files}
    IN  /\ listed(again) = listed(snap)
        /\ Range(again.files) \subseteq Range(snap.files)

\* Restoring a whole snapshot restores every entry of it: the walk visits each,
\* and the path that downloadFiles() puts together for it finds it again.
RestoreFinds == fresh => downloadFiles(snap, {}) = Range(snap.files)

\* Restoring a directory restores every file in it.  It does not when a
\* neighbour's name goes on with a character before the slash: "e/d.x" comes
\* between "e/d" and "e/d/x", and forEachFileEntry() stops there.
SubpathComplete ==
    fresh =>
        \A sub \in {ParentPath(p) : p \in Path} :
            downloadFiles(snap, {sub})
                = {fe \in Range(snap.files) : Below(PathOf(snap.buffer, fe), sub)}

-----------------------------------------------------------------------------
(***************************************************************************)
(* Why entries keep their meaning: an offset points at a whole string with *)
(* its NUL, the buffer ends with a NUL and only grows, and so do the ids.  *)
(***************************************************************************)
StringAt(buffer, n, str) ==
    /\ n \in Nat /\ n + Len(str) < Len(buffer)
    /\ \A i \in 1..Len(str) : buffer[n + i] = str[i]
    /\ buffer[n + Len(str) + 1] = NUL

\* the entry fe, in a snapshot with that buffer and those ids
SafeEntry(fe, buffer, objects) ==
    /\ DOMAIN fe = {"name", "path", "user", "group", "objectCount", "objectIdIndex", "given"}
    /\ fe.given \in Argument
    /\ StringAt(buffer, fe.name, Filename(fe.given.path))
    /\ StringAt(buffer, fe.path, ParentPath(fe.given.path))
    /\ StringAt(buffer, fe.user, fe.given.user)
    /\ StringAt(buffer, fe.group, fe.given.group)
    /\ fe.objectCount = Len(fe.given.ids)
    /\ fe.objectIdIndex \in Nat
    /\ fe.objectIdIndex + fe.objectCount <= Len(objects)
    /\ \A i \in 1..fe.objectCount : objects[fe.objectIdIndex + i] = fe.given.ids[i]

\* the part of a snapshot that is saved
SafeImage(s) ==
    /\ s.buffer \in Seq(0..255)
    /\ s.buffer # <<>> => s.buffer[Len(s.buffer)] = NUL
    /\ s.objects \in Seq(ObjectId)
    /\ IsFiniteSet(DOMAIN s.files)
    /\ DOMAIN s.files \subseteq Seq(1..255)
    /\ \A p \in DOMAIN s.files : SafeEntry(s.files[p], s.buffer, s.objects)

\* Every string of the table is where the table says, and every entry of the
\* snapshot and of the image means what it was given.  A snapshot that was
\* just loaded has each file under the path its strings spell.
SafeSnapshot ==
    /\ DOMAIN snap = {"files", "table", "buffer", "objects"}
    /\ SafeImage(snap)
    /\ DOMAIN snap.table \subseteq Seq(1..255)
    /\ \A t \in DOMAIN snap.table : StringAt(snap.buffer, snap.table[t], t)
    /\ \A img \in image : SafeImage(img)
    /\ fresh => \A p \in DOMAIN snap.files : PathOf(snap.buffer, snap.files[p]) = p

=============================================================================
