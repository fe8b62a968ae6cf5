----------------------------- MODULE MCFormats -----------------------------
(***************************************************************************)
(* Small instances of Chunker, Streams, Base32 and Snapshot in one         *)
(* specification: cutting a file into blocks, sealing, storing and         *)
(* restoring a block, naming it, and the snapshot that lists it.  They     *)
(* share no state, so only one of them runs in a behaviour while the       *)
(* others stay at an initial state: to interleave them would only multiply *)
(* the states.                                                             *)
(***************************************************************************)
EXTENDS Chunker, Streams, Base32, MCSnapshot

\* With these values and a Constant of 3, whose powers up to the window's differ,
\* a window of zeros or with two ones side by side ends a block whatever the mask,
\* two ones around a zero end one under the shorter mask alone, and other windows
\* leave it to the length.
MCSubTable == (0 :> 4) @@ (1 :> 7)

NoFile == input = <<0>> /\ fileLength = 1 /\ pos = 0

NoBlock == plain = <<>> /\ lzma = FALSE /\ phase = "seal"

NoId == data = <<>> /\ capacity = 0 /\ status = "bytes"

NoSnapshot == adds = 0 /\ saves = 0

Init ==
    /\ \/ NoBlock /\ NoId /\ NoSnapshot
       \/ NoFile /\ NoId /\ NoSnapshot
       \/ NoFile /\ NoBlock /\ NoSnapshot
    /\ ChunkInit /\ StreamsInit /\ EncodeInit /\ SnapInit

Cut == NoBlock /\ NoId /\ NoSnapshot /\ ChunkNext /\ UNCHANGED <<streamVars, base32Vars, snapVars>>

Copy == NoFile /\ NoId /\ NoSnapshot /\ StreamsNext /\ UNCHANGED <<chunkVars, base32Vars, snapVars>>

NameIt == NoFile /\ NoBlock /\ NoSnapshot /\ Encode /\ UNCHANGED <<chunkVars, streamVars, snapVars>>

List == NoFile /\ NoBlock /\ NoId /\ SnapNext /\ UNCHANGED <<chunkVars, streamVars, base32Vars>>

formatVars == <<chunkVars, streamVars, base32Vars, snapVars>>

\* what may be the end: the loops of Chunker and Streams must get to theirs
Over ==
    /\ done \/ phase \in {"done", "failed"} \/ status \in {"done", "throws"} \/ ~NoSnapshot
    /\ UNCHANGED formatVars

Next == Cut \/ Copy \/ NameIt \/ List \/ Over

Spec == Init /\ [][Next]_formatVars

=============================================================================
