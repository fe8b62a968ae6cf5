----------------------------- MODULE DataStore -----------------------------
(***************************************************************************)
(* The storage backends of libnebula: the object store a repository lives  *)
(* in (libnebula/DataStore.h) and the two backends the command line can    *)
(* select, a local directory (FileDataStore) and an S3 bucket              *)
(* (AwsS3DataStore).  The store is shared by every process that uses the   *)
(* repository, and nothing locks it.                                       *)
(*                                                                         *)
(* What differs between the backends is put().  The file backend truncates *)
(* the destination in place and fills it chunk by chunk, so other          *)
(* processes, and whoever comes after a crash, see unfinished objects.  S3 *)
(* makes the whole object appear at once, some time before put() returns,  *)
(* but a caller that gets an error, or is killed, cannot tell whether it   *)
(* did, or still will: the request may be on its way.                      *)
(*                                                                         *)
(* An object is a sequence of cells, a cell being one chunk of the         *)
(* stream a put() copies (4096 bytes in the code).  What cells hold is     *)
(* StreamUtils' business, except for Hole, the zeros a file system reads   *)
(* back where nothing was written.                                         *)
(***************************************************************************)
EXTENDS Integers, Sequences

CONSTANTS
    Client,      \* processes that use the store
    Backend,     \* "file" or "s3"
    MaxFaults    \* how many environment faults a behaviour may contain

ASSUME BackendAssumption == Backend \in {"file", "s3"}
ASSUME MaxFaultsAssumption == MaxFaults \in Nat

VARIABLES
    files,       \* what is stored: a function whose domain is the paths that exist
    put,         \* the put() calls in flight: a function from clients to transfers
    late,        \* S3 requests that nobody waits for and that may still be carried out
    faults       \* faults so far

storeVars == <<files, put, late, faults>>

(***************************************************************************)
(* Partial functions: f with k bound to v, and f without k.                *)
(***************************************************************************)
EmptyFcn == [x \in {} |-> x]

With(f, k, v) == [x \in DOMAIN f \cup {k} |-> IF x = k THEN v ELSE f[x]]

Without(f, k) == [x \in DOMAIN f \ {k} |-> f[x]]

-----------------------------------------------------------------------------
(***************************************************************************)
(* A transfer holds the bytes to store, how many chunks are written, and   *)
(* the file descriptor: not opened yet ("no"), open on the file the path   *)
(* names ("yes"), or open on a file that somebody removed ("orphan"),      *)
(* whose writes nobody will see.  An S3 transfer is "yes" once the object  *)
(* is stored.                                                              *)
(***************************************************************************)
Transfer(path, data) == [path |-> path, data |-> data, pos |-> 0, open |-> "no"]

StoreInit ==
    /\ files = EmptyFcn
    /\ put = EmptyFcn
    /\ late = {}
    /\ faults = 0

Fault ==
    /\ faults < MaxFaults
    /\ faults' = faults + 1

NoFault == UNCHANGED faults

\* a put() of the file backend between fopen and fclose
Writing(c) ==
    /\ Backend = "file"
    /\ c \in DOMAIN put
    /\ put[c].open # "no"

-----------------------------------------------------------------------------
(***************************************************************************)
(* Plausible mistakes in the operations below.  They are part of no        *)
(* specification: each must be noticed by a property if it replaces the    *)
(* operation it is named after.                                            *)
(***************************************************************************)
\* exist() is not consulted
existNever(path, reply) == reply = FALSE /\ NoFault

\* a failed HEAD request taken for a hit
existOnError(path, reply) ==
    \/ reply = (path \in DOMAIN files) /\ NoFault
    \/ Backend = "s3" /\ reply = TRUE /\ Fault

\* the copy loop does not advance
PutWriteNoAdvance(c) ==
    /\ Writing(c)
    /\ put[c].pos < Len(put[c].data)
    /\ UNCHANGED <<files, put, late>>
    /\ NoFault

\* the transfer outlives its caller
PutAbandonLeaks(c) ==
    /\ c \in DOMAIN put
    /\ UNCHANGED <<files, put, late>>

\* an S3 object visible before it is complete
PutAbandonPartial(c) ==
    /\ c \in DOMAIN put
    /\ put' = Without(put, c)
    /\ files' = With(files, put[c].path, SubSeq(put[c].data, 1, 1))
    /\ UNCHANGED late

\* a cancelled file is not removed
PutCancelKeeps(c) ==
    /\ Writing(c)
    /\ put[c].pos < Len(put[c].data)
    /\ put' = Without(put, c)
    /\ UNCHANGED <<files, late>>
    /\ NoFault

\* WaitUntilFinished is missing
PutReturnNoWait(c) ==
    /\ c \in DOMAIN put
    /\ put' = Without(put, c)
    /\ UNCHANGED <<files, late>>
    /\ NoFault

\* the copy loop takes a short read for the end of the stream
PutReturnEarly(c) ==
    /\ Writing(c)
    /\ put[c].pos > 0
    /\ put' = Without(put, c)
    /\ UNCHANGED <<files, late>>
    /\ NoFault

-----------------------------------------------------------------------------
(***************************************************************************)
(* exist(): the file backend asks the file system.  S3 answers FALSE also  *)
(* when the HEAD request failed for any other reason.                      *)
(***************************************************************************)
HeadFails(path, reply) ==
    Backend = "s3" /\ path \in DOMAIN files /\ reply = FALSE /\ Fault

exist(path, reply) ==
    \/ reply = (path \in DOMAIN files) /\ NoFault
    \/ HeadFails(path, reply)

-----------------------------------------------------------------------------
(* put(), in the steps at which other processes can see it *)

PutStart(c, path, data) ==
    /\ c \notin DOMAIN put
    /\ put' = With(put, c, Transfer(path, data))
    /\ UNCHANGED <<files, late>>

\* fopen(path, "wb"): an existing file is truncated, under its readers and writers.
PutOpen(c) ==
    /\ Backend = "file"
    /\ c \in DOMAIN put
    /\ put[c].open = "no"
    /\ files' = With(files, put[c].path, <<>>)
    /\ put' = [put EXCEPT ![c].open = "yes"]
    /\ UNCHANGED late
    /\ NoFault

Hole == [by |-> "nobody", pay |-> [kind |-> "zeros"], part |-> 0]

\* f with one chunk written at position k; a gap before it reads back as holes
WriteAt(f, k, cell) ==
    [i \in 1..(IF k > Len(f) THEN k ELSE Len(f)) |->
        IF i = k THEN cell ELSE IF i <= Len(f) THEN f[i] ELSE Hole]

\* One turn of the copy loop, the progress callback asking to go on.
PutWrite(c) ==
    /\ Writing(c)
    /\ put[c].pos < Len(put[c].data)
    /\ LET k == put[c].pos + 1
       IN  /\ files' = IF put[c].open = "orphan" THEN files
                       ELSE [files EXCEPT ![put[c].path] =
                                 WriteAt(@, k, put[c].data[k])]
           /\ put' = [put EXCEPT ![c].pos = k]
    /\ UNCHANGED late
    /\ NoFault

\* S3 has all of the object: it appears, or replaces the one that was there.
\* Others can see it before put() returns.
PutStored(c) ==
    /\ Backend = "s3"
    /\ c \in DOMAIN put
    /\ put[c].open = "no"
    /\ files' = With(files, put[c].path, put[c].data)
    /\ put' = [put EXCEPT ![c].open = "yes"]
    /\ UNCHANGED late
    /\ NoFault

\* The transfer stops without returning: the file keeps the chunks it has; an
\* S3 request is out of the caller's hands.
PutAbandon(c) ==
    /\ c \in DOMAIN put
    /\ put' = Without(put, c)
    /\ late' = IF Backend = "s3" /\ put[c].open = "no"
               THEN late \cup {put[c]} ELSE late
    /\ UNCHANGED files

\* No answer came, and the SDK makes the request again, whether S3 has stored
\* the object or not: one request more than put() waits for.
PutRetry(c) ==
    /\ Backend = "s3"
    /\ c \in DOMAIN put
    /\ late' = late \cup {[put[c] EXCEPT !.open = "no"]}
    /\ UNCHANGED <<files, put>>

\* A request that nobody waits for is carried out after all, whatever was stored
\* meanwhile.  It stays if there is another like it.
PutLate(t) ==
    /\ t \in late
    /\ files' = With(files, t.path, t.data)
    /\ late' \in {late, late \ {t}}
    /\ UNCHANGED <<put, faults>>

\* One turn of the copy loop, the progress callback asking to stop: the file
\* is removed by name, also when another writer has it open.  S3 cancels the
\* transfer.
PutCancel(c) ==
    \/ /\ Writing(c)
       /\ put[c].pos < Len(put[c].data)
       /\ files' = Without(files, put[c].path)
       /\ put' = [d \in DOMAIN put \ {c} |->
                     IF put[d].path = put[c].path /\ put[d].open = "yes"
                     THEN [put[d] EXCEPT !.open = "orphan"]
                     ELSE put[d]]
       /\ UNCHANGED late
       /\ NoFault
    \/ Backend = "s3" /\ PutAbandon(c) /\ NoFault

\* fopen or fwrite fails, or the S3 transfer does not complete: an exception.
PutError(c) ==
    /\ c \in DOMAIN put
    /\ Backend = "file" => put[c].pos < Len(put[c].data)
    /\ PutAbandon(c)
    /\ Fault

\* put() returns.  The result of fclose is ignored, so it also returns when
\* flushing the last chunk failed.
PutReturn(c) ==
    /\ \/ /\ Writing(c)
          /\ \/ put[c].pos = Len(put[c].data) /\ NoFault
             \/ put[c].pos + 1 = Len(put[c].data) /\ Fault
       \/ Backend = "s3" /\ c \in DOMAIN put /\ put[c].open = "yes" /\ NoFault
    /\ put' = Without(put, c)
    /\ UNCHANGED <<files, late>>

\* get(): what a reader finds at the path, nothing if it does not exist
get(path) == IF path \in DOMAIN files THEN files[path] ELSE <<>>

=============================================================================
