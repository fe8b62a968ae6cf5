------------------------------ MODULE KeyFile ------------------------------
(***************************************************************************)
(* The repository's key file: Repository::initializeRepository,            *)
(* unlockRepository, changePassword and writeRepositoryKey                 *)
(* (libnebula/Repository.cpp), and the commands that call them             *)
(* (cli/Main.cpp), run by several processes over one DataStore.            *)
(*                                                                         *)
(* /key holds the repository's four random keys, encrypted under a key     *)
(* derived from the password and a random salt.  All data is encrypted     *)
(* under those keys, so whoever loses the file loses the repository.       *)
(***************************************************************************)
EXTENDS DataStore

CONSTANTS
    Password,
    MaxInits,    \* how often a behaviour may initialise the repository
    MaxCommands  \* how many other commands a behaviour may run

ASSUME KeyFileBounds == MaxInits \in Nat /\ MaxCommands \in Nat

VARIABLES
    proc,        \* the running commands: a function from clients to processes
    inits,       \* key sets generated so far; the n-th one is the number n
    commands,    \* other commands run so far
    data,        \* the key sets that data in the repository is encrypted under
    said         \* how the last command of each client ended

keyVars == <<files, put, late, faults, proc, inits, commands, data, said>>

KeyPath == <<"key">>

(***************************************************************************)
(* The file: a header with magic, version, rounds and salt, then the       *)
(* encrypted keys and their HMAC.  by stands for the salt: a block only    *)
(* verifies under the header it was written with.                          *)
(***************************************************************************)
KeyStream(by, pwd, keys) ==
    [k \in 1..2 |-> [by |-> by, pay |-> [kind |-> "key", pwd |-> pwd, keys |-> keys],
                     part |-> k]]

WellFormed(cells) ==
    /\ Len(cells) = 2
    /\ cells[1].part = 1
    /\ cells = KeyStream(cells[1].by, cells[1].pay.pwd, cells[1].pay.keys)

Opens(pwd) == WellFormed(get(KeyPath)) /\ get(KeyPath)[1].pay.pwd = pwd

StoredKeys == get(KeyPath)[1].pay.keys

\* unlockRepository throws on a missing or headless file, returns false when
\* the HMAC does not match, and else reads the keys.
unlockRepository(pwd) ==
    IF get(KeyPath) = <<>> \/ get(KeyPath)[1].part # 1 THEN "throws"
    ELSE IF Opens(pwd) THEN "true" ELSE "false"

-----------------------------------------------------------------------------
Process(cmd, old, new, keys) == [cmd |-> cmd, old |-> old, new |-> new, keys |-> keys]

End(c, message) ==
    /\ proc' = Without(proc, c)
    /\ said' = [said EXCEPT ![c] = message]

Command(c) ==
    /\ c \notin DOMAIN proc
    /\ commands < MaxCommands
    /\ commands' = commands + 1

Ready(c, cmd) ==
    /\ c \in DOMAIN proc
    /\ c \notin DOMAIN put
    /\ proc[c].cmd = cmd

\* initializeRepository does not look whether there is a repository already.
InitializeRepository(c, pwd) ==
    /\ c \notin DOMAIN proc
    /\ inits < MaxInits
    /\ inits' = inits + 1
    /\ proc' = With(proc, c, Process("init", pwd, pwd, inits'))
    /\ PutStart(c, KeyPath, KeyStream(c, pwd, inits'))
    /\ UNCHANGED <<faults, commands, data, said>>

\* A command that begins by unlocking the repository and gives up if it cannot.
StartUnlocked(c, cmd, old, new) ==
    /\ Command(c)
    /\ \/ /\ unlockRepository(old) = "true"
          /\ proc' = With(proc, c, Process(cmd, old, new, StoredKeys))
          /\ UNCHANGED said
       \/ /\ unlockRepository(old) # "true"
          /\ said' = [said EXCEPT ![c] = "refused"]
          /\ UNCHANGED proc
    /\ UNCHANGED <<storeVars, inits, data>>

\* the command line's changePassword, up to the prompt for the new password
PasswordCommand(c, old, new) == StartUnlocked(c, "password", old, new)

\* backupFiles unlocks first; what it uploads much later is under those keys
BackupCommand(c, pwd) == StartUnlocked(c, "backup", pwd, pwd)

StoreData(c) ==
    /\ Ready(c, "backup")
    /\ data' = data \cup {proc[c].keys}
    /\ End(c, "stored")
    /\ UNCHANGED <<storeVars, inits, commands>>

\* Repository::changePassword: unlock again, then write the keys just read
\* under the new password.  The command ignores that it returned false.
ChangePassword(c) ==
    /\ Ready(c, "password")
    /\ \/ /\ unlockRepository(proc[c].old) = "true"
          /\ proc' = [proc EXCEPT ![c].keys = StoredKeys, ![c].cmd = "write"]
          /\ PutStart(c, KeyPath, KeyStream(c, proc[c].new, StoredKeys))
          /\ UNCHANGED said
       \/ /\ unlockRepository(proc[c].old) = "false"
          /\ End(c, "updated")
          /\ UNCHANGED <<files, put, late>>
       \/ /\ unlockRepository(proc[c].old) = "throws"
          /\ End(c, "refused")
          /\ UNCHANGED <<files, put, late>>
    /\ UNCHANGED <<faults, inits, commands, data>>

Waiting(c) == c \in DOMAIN proc /\ c \in DOMAIN put

Transferring(c) ==
    /\ Waiting(c)
    /\ PutOpen(c) \/ PutStored(c) \/ PutWrite(c)
    /\ UNCHANGED <<proc, inits, commands, data, said>>

\* put() returned: "Repository initialized." or "Password updated."
Transferred(c) ==
    /\ Waiting(c)
    /\ PutReturn(c)
    /\ End(c, IF proc[c].cmd = "init" THEN "initialized" ELSE "updated")
    /\ UNCHANGED <<inits, commands, data>>

\* the SDK makes a request again that had no answer
Retry(c) ==
    /\ Waiting(c)
    /\ PutRetry(c)
    /\ Fault
    /\ UNCHANGED <<proc, inits, commands, data, said>>

TransferError(c) ==
    /\ Waiting(c)
    /\ PutError(c)
    /\ End(c, "refused")
    /\ UNCHANGED <<inits, commands, data>>

Crash(c) ==
    /\ c \in DOMAIN proc
    /\ Fault
    /\ End(c, "killed")
    /\ \/ PutAbandon(c)
       \/ c \notin DOMAIN put /\ UNCHANGED <<files, put, late>>
    /\ UNCHANGED <<inits, commands, data>>

-----------------------------------------------------------------------------
Init ==
    /\ StoreInit
    /\ proc = EmptyFcn
    /\ inits = 0
    /\ commands = 0
    /\ data = {}
    /\ said = [c \in Client |-> "nothing"]

\* a key file that nobody waits for any more is stored
LateUpload ==
    /\ \E t \in late : PutLate(t)
    /\ UNCHANGED <<proc, inits, commands, data, said>>

Next ==
    \/ \E c \in Client :
          \/ \E pwd \in Password : InitializeRepository(c, pwd)
          \/ \E old, new \in Password : PasswordCommand(c, old, new)
          \/ \E pwd \in Password : BackupCommand(c, pwd)
          \/ StoreData(c)
          \/ ChangePassword(c)
          \/ Transferring(c)
          \/ Transferred(c)
          \/ Retry(c)
          \/ TransferError(c)
          \/ Crash(c)
    \/ LateUpload

Spec == Init /\ [][Next]_keyVars

-----------------------------------------------------------------------------
(* Properties *)

\* Every command runs on keys that were generated, a transfer belongs to a
\* running command, and only the key file is written.
TypeOK ==
    /\ DOMAIN files \subseteq {KeyPath}
    /\ DOMAIN put \subseteq DOMAIN proc
    /\ DOMAIN proc \subseteq Client
    /\ \A c \in DOMAIN proc :
          proc[c] \in [cmd : {"init", "backup", "password", "write"},
                       old : Password, new : Password, keys : 1..inits]
    /\ \A c \in DOMAIN put : put[c].path = KeyPath
    /\ \A t \in late : t.path = KeyPath
    /\ inits \in 0..MaxInits
    /\ commands \in 0..MaxCommands
    /\ faults \in 0..MaxFaults
    /\ data \subseteq 1..inits
    /\ said \in [Client -> {"nothing", "initialized", "updated", "stored",
                            "refused", "killed"}]

\* Some password opens the key file, and the keys it gives are those that all
\* the data in the repository is encrypted under: neither a password change
\* nor its failure half way separates the data from its keys.
DataHasItsKeys ==
    data # {} => (\E pwd \in Password : Opens(pwd)) /\ data = {StoredKeys}

\* The same for the file backend, where the key file is rewritten in place:
\* it holds at least while no put() is busy with the key file.
KeysAtRest == DOMAIN put = {} => DataHasItsKeys

\* Once the key file can be opened, it can be opened after every step, and
\* gives the same keys: a password change changes only the password.
KeysStay ==
    [][\A pwd \in Password : Opens(pwd) =>
          /\ \E new \in Password : Opens(new)'
          /\ StoredKeys' = StoredKeys]_keyVars

\* When Repository::changePassword returns true, the new password opens the
\* repository and no other does (RepositoryTests.cpp, ChangePassword), unless
\* the key file of another process is there by then, or an earlier request
\* that failed or was repeated was carried out late: the last one to be stored
\* counts, which need not be the last one to return.
ChangedMeansOpens ==
    [][\A c \in Client :
          Waiting(c) /\ proc[c].cmd = "write" /\ said'[c] = "updated" /\ c \notin DOMAIN proc'
              => \/ \A pwd \in Password : Opens(pwd)' <=> pwd = proc[c].new
                 \/ get(KeyPath)[1].by # c
                 \/ faults > 0]_keyVars

-----------------------------------------------------------------------------
(***************************************************************************)
(* Why the keys are safe on S3: whatever is stored, on its way or given up *)
(* is a whole key file with keys that were generated, and once there is    *)
(* one, there always is.                                                   *)
(***************************************************************************)
IsKeyFile(cells, generated) ==
    \E by \in Client, pwd \in Password, keys \in 1..generated :
        cells = KeyStream(by, pwd, keys)

\* a transfer of a key file by c
SafeTransfer(t, c, generated, stored) ==
    /\ DOMAIN t = {"path", "data", "pos", "open"}
    /\ t.path = KeyPath
    /\ t.open \in {"no", "yes"}
    /\ IsKeyFile(t.data, generated)
    /\ t.data[1].by = c
    /\ t.open = "yes" => KeyPath \in stored

\* The key file that c waits for is the one that its command reports, and if a
\* file of c is stored, it is this one, unless an earlier one was given up or
\* repeated.
OwnKeyFile(c) ==
    /\ proc[c].cmd \in {"init", "write"}
    /\ put[c].data = KeyStream(c, proc[c].new, proc[c].keys)
    /\ put[c].open = "yes" /\ files[KeyPath][1].by = c /\ faults = 0 =>
          files[KeyPath] = put[c].data

\* All the key files are whole, and once there was one there always is one:
\* commands other than init run, and data is stored, only after that.
SafeKeys ==
    /\ \A p \in DOMAIN files : IsKeyFile(files[p], inits)
    /\ \A c \in DOMAIN put : SafeTransfer(put[c], c, inits, DOMAIN files) /\ OwnKeyFile(c)
    /\ \A t \in late : \E c \in Client : SafeTransfer(t, c, inits, DOMAIN files)
    /\ late # {} => faults > 0
    /\ \A c \in DOMAIN proc : proc[c].cmd # "init" => KeyPath \in DOMAIN files
    /\ data # {} => KeyPath \in DOMAIN files

(***************************************************************************)
(* Why the keys are safe at rest in a directory, for a user who runs one   *)
(* command at a time and has no faults: the only key file that is not      *)
(* whole is the one a command is busy with, and that has the beginning of  *)
(* what it is going to be.                                                 *)
(***************************************************************************)
WholeFiles == \A p \in DOMAIN files : IsKeyFile(files[p], inits)

\* c writes a whole key file, from its beginning and over nothing it needs.
SafeRewrite(c) ==
    /\ DOMAIN put[c] = {"path", "data", "pos", "open"}
    /\ IsKeyFile(put[c].data, inits)
    /\ \/ put[c].open = "no" /\ put[c].pos = 0 /\ WholeFiles
       \/ /\ put[c].open = "yes"
          /\ put[c].pos \in 0..2
          /\ KeyPath \in DOMAIN files
          /\ files[KeyPath] = [k \in 1..put[c].pos |-> put[c].data[k]]

\* Between two commands every key file is whole, during one it is being
\* rewritten, and data is stored, and other commands run, only once it is there.
SafeRewrites ==
    /\ late = {}
    /\ DOMAIN put = {} => WholeFiles
    /\ \A c \in DOMAIN put : SafeRewrite(c)
    /\ \A c \in DOMAIN proc : proc[c].cmd # "init" => KeyPath \in DOMAIN files
    /\ data # {} => KeyPath \in DOMAIN files

=============================================================================
