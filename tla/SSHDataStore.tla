---------------------------- MODULE SSHDataStore ----------------------------
(***************************************************************************)
(* The SFTP backend (libnebula/backends/SSHDataStore.cpp), which nothing   *)
(* in the repository uses yet: one process and the files of the server.    *)
(*                                                                         *)
(* sftp_open is called with O_WRONLY alone, so put() neither creates nor   *)
(* truncates; what sftp_write and sftp_read return is not looked at.  A    *)
(* file is a sequence of chunks of 8192 bytes.                             *)
(***************************************************************************)
EXTENDS Integers, Sequences, SequencesExt

CONSTANTS
    Path,
    Data,          \* what may be put
    Present,       \* the files of the server at the start, with their contents
    MaxCalls,      \* how many calls a behaviour may make
    MaxFaults      \* how many requests may fail

VARIABLES
    files,         \* a function from the paths that exist to contents
    connected,     \* connect() returned true: mFtp is set
    op,            \* the call in progress
    last,          \* the last call that ended, and how
    calls, faults

sshVars == <<files, connected, op, last, calls, faults>>

Idle == [call |-> "none"]

Fault ==
    /\ faults < MaxFaults
    /\ faults' = faults + 1

\* Before connect() returned true, mFtp is not initialised, and no other call
\* is defined.
Begin ==
    /\ op = Idle
    /\ connected
    /\ calls < MaxCalls
    /\ calls' = calls + 1

End(how) ==
    /\ op' = Idle
    /\ last' = [call |-> op, how |-> how]

-----------------------------------------------------------------------------
\* connect(): an exception, a refused login, or a session
Connect ==
    /\ ~connected
    /\ \/ connected' = TRUE /\ UNCHANGED faults
       \/ Fault /\ UNCHANGED connected
    /\ UNCHANGED <<files, op, last, calls>>

\* sftp_open, with neither O_CREAT nor O_TRUNC: any reason not to open is a
\* FileNotFoundException.
Put(p, data) ==
    /\ Begin
    /\ LET call == [call |-> "put", path |-> p, data |-> data, count |-> 0, offset |-> 0]
       IN  \/ p \in DOMAIN files /\ op' = call /\ UNCHANGED <<last, faults>>
           \/ /\ (p \notin DOMAIN files /\ UNCHANGED faults) \/ Fault
              /\ last' = [call |-> call, how |-> "FileNotFoundException"]
              /\ UNCHANGED op
    /\ UNCHANGED <<files, connected>>

\* One turn of the loop: a write that fails goes unnoticed, and the next one
\* takes its place in the file.
PutChunk ==
    /\ op.call = "put"
    /\ op.count < Len(op.data)
    /\ LET chunk == op.data[op.count + 1]
           f == files[op.path]
           at == op.offset + 1
       IN  \/ /\ files' = [files EXCEPT ![op.path] =
                               IF at > Len(f) THEN Append(f, chunk) ELSE [f EXCEPT ![at] = chunk]]
              /\ op' = [op EXCEPT !.count = @ + 1, !.offset = @ + 1]
              /\ UNCHANGED faults
           \/ Fault /\ op' = [op EXCEPT !.count = @ + 1] /\ UNCHANGED files
    /\ UNCHANGED <<connected, last, calls>>

\* What was written stays.
PutCancelled ==
    /\ op.call = "put"
    /\ op.count < Len(op.data)
    /\ End("CancelledException")
    /\ UNCHANGED <<files, connected, calls, faults>>

PutReturns ==
    /\ op.call = "put"
    /\ op.count = Len(op.data)
    /\ End("returned")
    /\ UNCHANGED <<files, connected, calls, faults>>

Unlink(p) ==
    /\ Begin
    /\ p \in DOMAIN files
    /\ files' = [q \in DOMAIN files \ {p} |-> files[q]]
    /\ last' = [call |-> [call |-> "unlink", path |-> p], how |-> "returned"]
    /\ UNCHANGED <<connected, op, faults>>

-----------------------------------------------------------------------------
Init ==
    /\ files = Present
    /\ connected = FALSE
    /\ op = Idle
    /\ last = [call |-> Idle, how |-> "returned"]
    /\ calls = 0
    /\ faults = 0

Next ==
    \/ Connect
    \/ \E p \in Path, data \in Data : Put(p, data)
    \/ PutChunk
    \/ PutCancelled
    \/ PutReturns
    \/ \E p \in Path : Unlink(p)

Spec == Init /\ [][Next]_sshVars

-----------------------------------------------------------------------------
(* Properties *)

\* put() "Writes a file to the data store given the supplied data stream"
\* (DataStore.h): when it ends, and neither was cancelled nor met with a fault,
\* the file holds the data of the stream.
PutWrites ==
    last.call.call = "put" /\ last.how # "CancelledException" /\ faults = 0 /\ op = Idle =>
        /\ last.call.path \in DOMAIN files
        /\ files[last.call.path] = last.call.data

=============================================================================
