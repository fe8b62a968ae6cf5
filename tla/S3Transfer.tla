----------------------------- MODULE S3Transfer -----------------------------
(***************************************************************************)
(* AwsS3DataStore::put and get (libnebula/backends/AwsS3DataStore.cpp) as  *)
(* they run: the calling thread, the worker thread of the AWS SDK with the *)
(* progress callback on it, and the two stream buffers between the SDK and *)
(* libnebula's streams.  DataStore says what put() looks like to other     *)
(* processes; here that is shown to be what the code does.                 *)
(*                                                                         *)
(* The SDK is not part of the repository.  It takes the length of a stream *)
(* by seeking to its end, seeks back, reads and sends it, restarts an      *)
(* attempt that failed (seeking back, or asking for another stream to      *)
(* write to), and calls back from its own thread.  S3 stores an object     *)
(* when it has all of it, also when nobody waits for the answer any more.  *)
(***************************************************************************)
EXTENDS Integers, Sequences, SequencesExt, StreamUtils

CONSTANTS
    Client,      \* processes
    Path,        \* object names
    Payload,     \* what is sealed and stored
    BufferSize,  \* cells in a stream buffer, 8192 bytes in the code
    MaxCalls,    \* how many calls a behaviour may make
    MaxFaults    \* how many requests may fail

ASSUME S3Assumption ==
    /\ BufferSize \in Nat \ {0}
    /\ {MaxCalls, MaxFaults} \subseteq Nat

\* A sealed stream begins with its HMAC and IV.
ASSUME PayloadAssumption == \A pay \in Payload : SealLength(pay) \in Nat \ {0}

VARIABLES
    files,       \* the bucket: a function from the names in use to objects
    call,        \* the calls in progress: a function from clients to calls
    late,        \* requests to store that nobody waits for and that may still be carried out
    calls,       \* calls so far
    faults       \* failed requests so far

s3Vars == <<files, call, late, calls, faults>>

With(f, k, v) == [x \in DOMAIN f \cup {k} |-> IF x = k THEN v ELSE f[x]]

Without(f, k) == [x \in DOMAIN f \ {k} |-> f[x]]

Least(a, b) == IF a < b THEN a ELSE b

-----------------------------------------------------------------------------
(* Plausible mistakes, part of no specification *)

\* mOffset is not advanced
underflowNoOffset(b) ==
    LET n == Least(BufferSize, Len(b.data) - b.pos)
    IN  IF b.area # <<>> THEN b
        ELSE [b EXCEPT !.pos = @ + n, !.area = SubSeq(b.data, b.pos + 1, b.pos + n)]

\* the get area survives a seek
seekBegKeepsArea(b) == [b EXCEPT !.pos = 0, !.offset = 0]

\* the put area is not reset
syncKeepsArea(b) == [b EXCEPT !.out = @ \o b.area]

\* the status is polled until the transfer is complete
FinishedIfCompleted(status) == status = "COMPLETED"

\* a cancelled transfer is not an error
ThrowsIfFailed(status) == status = "FAILED"

-----------------------------------------------------------------------------
(***************************************************************************)
(* IOStreamInputBuf: the stream with its position, the cells of the get    *)
(* area that were not taken yet, and mOffset.                              *)
(***************************************************************************)
IOStreamInputBuf(data) == [data |-> data, pos |-> 0, area |-> <<>>, offset |-> 0]

underflow(b) ==
    LET n == Least(BufferSize, Len(b.data) - b.pos)
    IN  IF b.area # <<>> THEN b
        ELSE [b EXCEPT !.pos = @ + n, !.offset = @ + n,
                       !.area = SubSeq(b.data, b.pos + 1, b.pos + n)]

\* seekoff to the end only sets mOffset to the size; the stream stays.
seekEnd(b) == [b EXCEPT !.offset = Len(b.data), !.area = <<>>]

\* seekoff to the beginning rewinds the stream; all that put() gets can.
seekBeg(b) == [b EXCEPT !.pos = 0, !.offset = 0, !.area = <<>>]

\* seekoff by 0 tells the position.
tell(b) == b.offset - Len(b.area)

(***************************************************************************)
(* IOStreamOutputBuf: the put area and what was written to the stream.     *)
(***************************************************************************)
IOStreamOutputBuf == [area |-> <<>>, out |-> <<>>]

sync(b) == [b EXCEPT !.out = @ \o b.area, !.area = <<>>]

overflow(b, cell) ==
    LET room == IF Len(b.area) = BufferSize THEN sync(b) ELSE b
    IN  [room EXCEPT !.area = Append(@, cell)]

-----------------------------------------------------------------------------
(***************************************************************************)
(* Calls.  handle says whether transferHandle, which the progress callback *)
(* uses, was assigned.  An upload is stored once S3 has carried out one of *)
(* its requests, and due while that of the current attempt is not.         *)
(***************************************************************************)
PutCall(path, buf) ==
    [op |-> "put", path |-> path, buf |-> buf, length |-> tell(seekEnd(buf)),
     body |-> <<>>, stored |-> FALSE, due |-> TRUE, handle |-> FALSE, cancel |-> FALSE,
     status |-> "running"]

GetCall(path) ==
    [op |-> "get", path |-> path, buf |-> IOStreamOutputBuf, src |-> <<>>, pos |-> 0,
     asked |-> FALSE, again |-> FALSE, handle |-> FALSE, cancel |-> FALSE,
     status |-> "running"]

Begin(c, k) ==
    /\ c \notin DOMAIN call
    /\ calls < MaxCalls
    /\ calls' = calls + 1
    /\ call' = With(call, c, k)
    /\ UNCHANGED <<files, late, faults>>

SetCall(c, k) ==
    /\ call' = [call EXCEPT ![c] = k]
    /\ UNCHANGED calls

Update(c, k) == SetCall(c, k) /\ UNCHANGED late

Fault ==
    /\ faults < MaxFaults
    /\ faults' = faults + 1

Running(c, op) == c \in DOMAIN call /\ call[c].op = op /\ call[c].status = "running"

\* put() up to the return of UploadFile, which has taken the length of the
\* stream and rewound it; the worker is on its way.  Every put() has a new IV.
Put(c, path, pay) ==
    LET buf == IOStreamInputBuf(compressEncryptHMAC(<<c, calls>>, pay))
    IN  Begin(c, PutCall(path, seekBeg(seekEnd(buf))))

\* get() up to the return of DownloadFile
Get(c, path) == Begin(c, GetCall(path))

\* the calling thread assigns what UploadFile or DownloadFile returned
AssignHandle(c) ==
    /\ c \in DOMAIN call
    /\ ~call[c].handle
    /\ Update(c, [call[c] EXCEPT !.handle = TRUE])
    /\ UNCHANGED <<files, faults>>

\* WaitUntilFinished
Finished(status) == status # "running"

\* GetStatus, after it
Throws(status) == status # "COMPLETED"

\* what the request of an upload says, and what was sent of it so far
Request(k) == [path |-> k.path, data |-> k.buf.data, length |-> k.length, body |-> k.body]

\* The call ends, and with it all the state of the transfer.  A request that
\* was not carried out is out of the caller's hands.
Leave(c) ==
    /\ call' = Without(call, c)
    /\ late' = IF call[c].op = "put" /\ call[c].due THEN late \cup {Request(call[c])}
             ELSE late
    /\ UNCHANGED <<files, calls>>

\* put() or get() returns, or throws, as Throws says.
Return(c) ==
    /\ c \in DOMAIN call
    /\ call[c].handle
    /\ Finished(call[c].status)
    /\ Leave(c)
    /\ UNCHANGED faults

-----------------------------------------------------------------------------
(* The worker, uploading *)

\* the next cell is read and sent
Send(c) ==
    /\ Running(c, "put")
    /\ Len(call[c].body) < call[c].length
    /\ LET b == underflow(call[c].buf)
       IN  IF b.area = <<>>
           THEN Update(c, [call[c] EXCEPT !.buf = b, !.status = "FAILED"])
           ELSE Update(c, [call[c] EXCEPT !.buf = [b EXCEPT !.area = Tail(@)],
                                          !.body = Append(@, Head(b.area))])
    /\ UNCHANGED <<files, faults>>

\* all of the object is on its way to S3
Sent(k) == k.due /\ Len(k.body) = k.length

\* The attempt failed, or no answer came, and the next one begins with the
\* stream.  S3 may have carried out the request, or may do so later.
Resend(c) ==
    /\ Running(c, "put")
    /\ Fault
    /\ SetCall(c, [call[c] EXCEPT !.buf = seekBeg(@), !.body = <<>>, !.due = TRUE])
    /\ late' = IF Sent(call[c]) THEN late \cup {Request(call[c])} ELSE late
    /\ UNCHANGED files

\* S3 has the object, whatever the worker thinks of it
Stored(c) ==
    /\ c \in DOMAIN call
    /\ call[c].op = "put"
    /\ Sent(call[c])
    /\ files' = With(files, call[c].path, call[c].body)
    /\ Update(c, [call[c] EXCEPT !.stored = TRUE, !.due = FALSE])
    /\ UNCHANGED faults

StoredLate(t) ==
    /\ Len(t.body) = t.length
    /\ files' = With(files, t.path, t.body)
    /\ late' = late \ {t}
    /\ UNCHANGED <<call, calls, faults>>

\* the answer to the current attempt
Uploaded(c) ==
    /\ Running(c, "put")
    /\ ~call[c].due
    /\ Update(c, [call[c] EXCEPT !.status = "COMPLETED"])
    /\ UNCHANGED <<files, faults>>

-----------------------------------------------------------------------------
(* The worker, downloading *)

\* an attempt begins: the object as it is now, or an error if there is none
Attempt(k) ==
    IF k.path \in DOMAIN files
    THEN [k EXCEPT !.src = files[k.path], !.pos = 0, !.asked = TRUE]
    ELSE [k EXCEPT !.status = "FAILED"]

Ask(c) ==
    /\ Running(c, "get")
    /\ ~call[c].asked
    /\ Update(c, Attempt(call[c]))
    /\ UNCHANGED <<files, faults>>

\* the attempt failed, and begins again with another stream over the same buffer
AskAgain(c) ==
    /\ Running(c, "get")
    /\ call[c].asked
    /\ Fault
    /\ Update(c, [Attempt(call[c]) EXCEPT !.again = TRUE])
    /\ UNCHANGED files

Receive(c) ==
    /\ Running(c, "get")
    /\ call[c].asked
    /\ call[c].pos < Len(call[c].src)
    /\ Update(c, [call[c] EXCEPT !.pos = @ + 1,
                                 !.buf = overflow(@, call[c].src[call[c].pos + 1])])
    /\ UNCHANGED <<files, faults>>

Downloaded(c) ==
    /\ Running(c, "get")
    /\ call[c].asked
    /\ call[c].pos = Len(call[c].src)
    /\ Update(c, [call[c] EXCEPT !.buf = sync(@), !.status = "COMPLETED"])
    /\ UNCHANGED <<files, faults>>

-----------------------------------------------------------------------------
(* The worker, either way *)

Transferring(c) == c \in DOMAIN call /\ call[c].status = "running"

\* the SDK gives up; an upload may have been stored, or may yet be
Fail(c) ==
    /\ Transferring(c)
    /\ Fault
    /\ Update(c, [call[c] EXCEPT !.status = "FAILED"])
    /\ UNCHANGED files

\* The progress function says no.  If put() has not assigned transferHandle
\* yet, the callback calls Cancel on a null pointer, and the process dies.
ProgressSaysNo(c) ==
    /\ Transferring(c)
    /\ ~call[c].cancel
    /\ \/ call[c].handle /\ Update(c, [call[c] EXCEPT !.cancel = TRUE]) /\ UNCHANGED files
       \/ ~call[c].handle /\ Leave(c)
    /\ UNCHANGED faults

\* The worker notices that the transfer was cancelled, if it is not over.
Cancelled(c) ==
    /\ Transferring(c)
    /\ call[c].cancel
    /\ Update(c, [call[c] EXCEPT !.status = "CANCELED"])
    /\ UNCHANGED <<files, faults>>

-----------------------------------------------------------------------------
Init ==
    /\ files = [x \in {} |-> x]
    /\ call = [x \in {} |-> x]
    /\ late = {}
    /\ calls = 0
    /\ faults = 0

Caller(c) == AssignHandle(c) \/ Return(c)

Worker(c) ==
    \/ Send(c)
    \/ Stored(c)
    \/ Uploaded(c)
    \/ Ask(c)
    \/ Receive(c)
    \/ Downloaded(c)
    \/ Cancelled(c)

Next ==
    \/ \E c \in Client :
          \/ \E path \in Path, pay \in Payload : Put(c, path, pay)
          \/ \E path \in Path : Get(c, path)
          \/ Caller(c)
          \/ Worker(c)
          \/ Resend(c) \/ AskAgain(c)
          \/ Fail(c)
          \/ ProgressSaysNo(c)
    \/ \E t \in late : StoredLate(t)

\* Both threads keep running, and S3 answers.
Spec ==
    /\ Init
    /\ [][Next]_s3Vars
    /\ \A c \in Client : WF_s3Vars(Caller(c)) /\ WF_s3Vars(Worker(c))

-----------------------------------------------------------------------------
(* Properties *)

\* While a stream is uploaded, its position is where the SDK is told it is,
\* and what was sent are the cells before it: neither the seek for the length
\* nor a new attempt skips or repeats any.
PositionsAgree ==
    \A c \in DOMAIN call : call[c].op = "put" /\ call[c].status = "running" =>
        LET k == call[c]
        IN  /\ k.length = Len(k.buf.data)
            /\ tell(k.buf) = Len(k.body)
            /\ k.body = SubSeq(k.buf.data, 1, Len(k.body))

\* A get() that succeeds has written the object, as it was when the last
\* attempt began.  After a failed attempt there may be leading cells of that
\* one too, but then the HMAC does not verify and the caller throws.
GetDelivers ==
    \A c \in DOMAIN call : call[c].op = "get" /\ call[c].status = "COMPLETED" =>
        LET out == call[c].buf.out
        IN  IF call[c].again THEN VerifiesHMAC(out) => out = call[c].src
                             ELSE out = call[c].src

-----------------------------------------------------------------------------
(***************************************************************************)
(* What other processes see of it is a store of DataStore, where an upload *)
(* is the data of its stream, whatever the worker did with it.             *)
(***************************************************************************)
Upload(r, open) == [path |-> r.path, data |-> r.data, pos |-> 0, open |-> open]

Putting == {c \in DOMAIN call : call[c].op = "put"}

Uploads ==
    [c \in Putting |-> Upload(Request(call[c]), IF call[c].stored THEN "yes" ELSE "no")]

\* an object that is stored is asked for again
Again(c) == call[c].stored /\ call[c].due

\* the requests beyond the one that stored the object, or is to store it
LateUploads ==
    {Upload(r, "no") : r \in late \cup {Request(call[c]) : c \in {d \in Putting : Again(d)}}}

Store == INSTANCE DataStore WITH
    Backend <- "s3", put <- Uploads, late <- LateUploads, faults <- 0

PutStep ==
    \/ \E c \in Client :
          \/ \E path \in Path, pay \in Payload :
                Store!PutStart(c, path, compressEncryptHMAC(<<c, calls>>, pay))
          \/ Store!PutStored(c)
          \/ Store!PutRetry(c)
          \/ Store!PutReturn(c) /\ ~Throws(call[c].status)
          \/ Store!PutCancel(c) /\ Throws(call[c].status)
    \/ \E t \in LateUploads : Store!PutLate(t)

\* The threads, buffers, callbacks and new attempts implement the put() that
\* the other modules use: an object appears whole, at one moment, before put()
\* ends or after it was given up, once more only for a request that was made
\* again, and put() ends without an exception only if its object was stored.
RefinesStore == Store!StoreInit /\ [][PutStep]_<<files, Uploads, LateUploads>>

\* Every put() and get() ends, failed and cancelled ones too: nothing waits for
\* a transfer that will not finish.
CallsEnd == \A c \in Client : c \in DOMAIN call ~> c \notin DOMAIN call

-----------------------------------------------------------------------------
(***************************************************************************)
(* Why PositionsAgree, GetDelivers and RefinesStore hold: the invariant    *)
(* that every step of either thread preserves.                             *)
(***************************************************************************)
Cell == [by : Client \X Nat, pay : Payload, part : Nat]

\* what is sent, stored and received begins as seals do
IsSeal(cells) == cells \in Seq(Cell) /\ cells # <<>> /\ cells[1].part = 1

InputBuf == [data : Seq(Cell), pos : Nat, area : Seq(Cell), offset : Nat]

OutputBuf == [area : Seq(Cell), out : Seq(Cell)]

Status == {"running", "COMPLETED", "FAILED", "CANCELED"}

PutCalls ==
    [op : {"put"}, path : Path, buf : InputBuf, length : Nat, body : Seq(Cell),
     stored : BOOLEAN, due : BOOLEAN, handle : BOOLEAN, cancel : BOOLEAN, status : Status]

GetCalls ==
    [op : {"get"}, path : Path, buf : OutputBuf, src : Seq(Cell), pos : Nat,
     asked : BOOLEAN, again : BOOLEAN, handle : BOOLEAN, cancel : BOOLEAN, status : Status]

\* n cells were taken from the buffer, and the next ones are in its get area
BufAt(b, n) ==
    /\ b.offset = b.pos
    /\ n + Len(b.area) = b.pos
    /\ b.pos <= Len(b.data)
    /\ \A i \in 1..Len(b.area) : b.area[i] = b.data[n + i]

Requests == [path : Path, data : Seq(Cell), length : Nat, body : Seq(Cell)]

SafeRequest(r) ==
    /\ r \in Requests
    /\ IsSeal(r.data)
    /\ r.length = Len(r.data)
    /\ Len(r.body) <= r.length
    /\ \A i \in 1..Len(r.body) : r.body[i] = r.data[i]

SafePut(k) ==
    /\ k \in PutCalls
    /\ SafeRequest(Request(k))
    /\ k.due \/ k.stored
    /\ k.status = "COMPLETED" => ~k.due
    /\ k.status = "running" => BufAt(k.buf, Len(k.body))

\* the first n cells of src are the last that were written, and the only ones
\* if no attempt was made before
EndsWith(got, src, n, again) ==
    /\ n <= Len(got)
    /\ ~again => Len(got) = n
    /\ \A i \in 1..n : got[Len(got) - n + i] = src[i]

Got(b) == b.out \o b.area

SafeGet(k) ==
    /\ k \in GetCalls
    /\ IF k.asked THEN IsSeal(k.src) ELSE k.src = <<>> /\ Got(k.buf) = <<>> /\ ~k.again
    /\ k.pos <= Len(k.src)
    /\ k.status = "running" => EndsWith(Got(k.buf), k.src, k.pos, k.again)
    /\ k.status = "COMPLETED" => EndsWith(k.buf.out, k.src, Len(k.src), k.again)

\* The bucket holds seals, every upload has sent the first cells of its seal,
\* and every download has written the first cells it received.
SafeTransfers ==
    /\ \A p \in DOMAIN files : IsSeal(files[p])
    /\ \A c \in DOMAIN call : SafePut(call[c]) \/ SafeGet(call[c])
    /\ \A r \in late : SafeRequest(r)
    /\ calls \in Nat

=============================================================================
