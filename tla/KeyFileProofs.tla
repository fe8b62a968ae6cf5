--------------------------- MODULE KeyFileProofs ---------------------------
(***************************************************************************)
(* Proofs about KeyFile: on S3 for any number of clients, passwords,       *)
(* commands and faults; in a directory for one client without faults.      *)
(***************************************************************************)
EXTENDS KeyFile, TLAPS

\* What writeRepositoryKey writes opens under its password and gives its keys.
LEMMA KeyStreamReads ==
    ASSUME NEW by, NEW pwd, NEW keys
    PROVE  LET cells == KeyStream(by, pwd, keys)
           IN  /\ WellFormed(cells)
               /\ cells # <<>>
               /\ cells[1].by = by
               /\ cells[1].part = 1
               /\ cells[1].pay.pwd = pwd
               /\ cells[1].pay.keys = keys
<1> DEFINE cells == KeyStream(by, pwd, keys)
<1>1. cells[1].by = by /\ cells[1].part = 1 /\ cells[1].pay.pwd = pwd /\ cells[1].pay.keys = keys
  BY DEF KeyStream
<1>2. Len(cells) = 2
  BY DEF KeyStream
<1> HIDE DEF cells
<1>3. cells # <<>>
  BY <1>2
<1>4. cells = KeyStream(cells[1].by, cells[1].pay.pwd, cells[1].pay.keys)
  BY <1>1 DEF cells
<1> QED
  BY <1>1, <1>2, <1>3, <1>4 DEF WellFormed, cells

\* A whole key file has a password that opens it, and only that one.
LEMMA KeyFileReads ==
    ASSUME NEW generated, NEW cells, IsKeyFile(cells, generated)
    PROVE  /\ WellFormed(cells)
           /\ cells # <<>>
           /\ cells[1].by \in Client
           /\ cells[1].part = 1
           /\ cells[1].pay.pwd \in Password
           /\ cells[1].pay.keys \in 1..generated
<1> PICK by \in Client, pwd \in Password, keys \in 1..generated : cells = KeyStream(by, pwd, keys)
  BY DEF IsKeyFile
<1> QED
  BY KeyStreamReads

\* What is generated stays generated.
LEMMA KeyFileGrows ==
    ASSUME NEW m \in Nat, NEW n \in Nat, m <= n, NEW cells, IsKeyFile(cells, m)
    PROVE  IsKeyFile(cells, n)
BY DEF IsKeyFile

\* A transfer that is safe stays safe when keys are generated or files appear.
LEMMA SafeTransferGrows ==
    ASSUME NEW m \in Nat, NEW n \in Nat, m <= n, NEW S, NEW T, S \subseteq T,
           NEW t, NEW c, SafeTransfer(t, c, m, S)
    PROVE  SafeTransfer(t, c, n, T)
BY KeyFileGrows DEF SafeTransfer

\* Who unlocks the repository gets keys that were generated, from a file that
\* is there.
LEMMA UnlockReads ==
    ASSUME SafeKeys, NEW pwd, unlockRepository(pwd) = "true"
    PROVE  KeyPath \in DOMAIN files /\ StoredKeys \in 1..inits
<1>1. WellFormed(get(KeyPath))
  BY DEF unlockRepository, Opens
<1>2. KeyPath \in DOMAIN files
  BY <1>1 DEF WellFormed, get
<1>3. IsKeyFile(get(KeyPath), inits)
  BY <1>2 DEF SafeKeys, get
<1> QED
  BY <1>2, <1>3, KeyFileReads DEF StoredKeys

-----------------------------------------------------------------------------
(* The inductive invariant *)

\* An empty store has no key file that could be wrong.
LEMMA InitKeys == Init => TypeOK /\ SafeKeys
BY KeyFileBounds, MaxFaultsAssumption
   DEF Init, StoreInit, EmptyFcn, TypeOK, SafeKeys

\* Every command and every step of a transfer keeps the key files whole.
LEMMA NextKeys ==
    ASSUME Backend = "s3", TypeOK, SafeKeys, [Next]_keyVars
    PROVE  TypeOK' /\ SafeKeys'
<1> USE KeyFileBounds, MaxFaultsAssumption
<1>1. ASSUME NEW c \in Client, NEW pwd \in Password, InitializeRepository(c, pwd)
      PROVE  TypeOK' /\ SafeKeys'
  <2>1. inits' = inits + 1 /\ inits \in Nat /\ inits' \in Nat /\ inits' \in 0..MaxInits
    BY <1>1 DEF InitializeRepository, TypeOK
  <2>2. /\ c \notin DOMAIN proc /\ c \notin DOMAIN put
        /\ DOMAIN proc' = DOMAIN proc \cup {c}
        /\ DOMAIN put' = DOMAIN put \cup {c}
        /\ \A d \in DOMAIN proc : proc'[d] = proc[d]
        /\ \A d \in DOMAIN put : put'[d] = put[d]
        /\ proc'[c] = Process("init", pwd, pwd, inits')
        /\ put'[c] = Transfer(KeyPath, KeyStream(c, pwd, inits'))
        /\ UNCHANGED <<files, late, faults, commands, data, said>>
    BY <1>1 DEF InitializeRepository, PutStart, With, TypeOK
  <2>3. TypeOK'
    BY <2>1, <2>2 DEF TypeOK, Process, Transfer
  <2>4. SafeTransfer(put'[c], c, inits', DOMAIN files') /\ OwnKeyFile(c)'
    <3>1. IsKeyFile(KeyStream(c, pwd, inits'), inits')
      BY <2>1 DEF IsKeyFile
    <3> QED
      BY <2>2, <3>1, KeyStreamReads DEF SafeTransfer, OwnKeyFile, Transfer, Process
  <2>5. \A d \in DOMAIN put : SafeTransfer(put'[d], d, inits', DOMAIN files') /\ OwnKeyFile(d)'
    BY <2>1, <2>2, SafeTransferGrows DEF SafeKeys, OwnKeyFile, TypeOK
  <2>6. /\ \A p \in DOMAIN files' : IsKeyFile(files'[p], inits')
        /\ \A t \in late' : \E d \in Client : SafeTransfer(t, d, inits', DOMAIN files')
    BY <2>1, <2>2, KeyFileGrows, SafeTransferGrows DEF SafeKeys
  <2>7. \A d \in DOMAIN proc' : proc'[d].cmd # "init" => KeyPath \in DOMAIN files'
    BY <2>2 DEF SafeKeys, Process
  <2> QED
    BY <2>2, <2>3, <2>4, <2>5, <2>6, <2>7 DEF SafeKeys
<1>2. ASSUME NEW c \in Client, NEW cmd \in {"backup", "password"},
             NEW old \in Password, NEW new \in Password, StartUnlocked(c, cmd, old, new)
      PROVE  TypeOK' /\ SafeKeys'
  <2>1. /\ UNCHANGED <<files, put, late, faults, inits, data>>
        /\ commands' \in 0..MaxCommands
        /\ c \notin DOMAIN proc /\ c \notin DOMAIN put
    BY <1>2 DEF StartUnlocked, Command, storeVars, TypeOK
  <2>2. CASE unlockRepository(old) = "true"
    <3>1. KeyPath \in DOMAIN files /\ StoredKeys \in 1..inits
      BY <2>2, UnlockReads
    <3>2. /\ DOMAIN proc' = DOMAIN proc \cup {c}
          /\ \A d \in DOMAIN proc : proc'[d] = proc[d]
          /\ proc'[c] = Process(cmd, old, new, StoredKeys)
          /\ UNCHANGED said
      BY <1>2, <2>1, <2>2 DEF StartUnlocked, With
    <3>3. TypeOK'
      BY <2>1, <3>1, <3>2 DEF TypeOK, Process
    <3>4. \A d \in DOMAIN put' : OwnKeyFile(d)'
      BY <2>1, <3>2 DEF SafeKeys, OwnKeyFile, TypeOK
    <3> QED
      BY <2>1, <3>1, <3>2, <3>3, <3>4 DEF SafeKeys
  <2>3. CASE unlockRepository(old) # "true"
    <3>1. UNCHANGED proc /\ said' = [said EXCEPT ![c] = "refused"]
      BY <1>2, <2>3 DEF StartUnlocked
    <3>2. TypeOK'
      BY <2>1, <3>1 DEF TypeOK
    <3> QED
      BY <2>1, <3>1, <3>2 DEF SafeKeys, OwnKeyFile
  <2> QED
    BY <2>2, <2>3
<1>3. ASSUME NEW c \in Client, StoreData(c)
      PROVE  TypeOK' /\ SafeKeys'
  <2>1. /\ UNCHANGED <<files, put, late, faults, inits, commands>>
        /\ c \in DOMAIN proc /\ c \notin DOMAIN put /\ proc[c].cmd = "backup"
        /\ data' = data \cup {proc[c].keys}
        /\ DOMAIN proc' = DOMAIN proc \ {c}
        /\ \A d \in DOMAIN proc' : proc'[d] = proc[d]
        /\ said' = [said EXCEPT ![c] = "stored"]
    BY <1>3 DEF StoreData, Ready, End, Without, storeVars
  <2>2. TypeOK'
    BY <2>1 DEF TypeOK
  <2>3. \A d \in DOMAIN put' : OwnKeyFile(d)'
    BY <2>1 DEF SafeKeys, OwnKeyFile, TypeOK
  <2> QED
    BY <2>1, <2>2, <2>3 DEF SafeKeys
<1>4. ASSUME NEW c \in Client, ChangePassword(c)
      PROVE  TypeOK' /\ SafeKeys'
  <2>1. /\ UNCHANGED <<files, late, faults, inits, commands, data>>
        /\ c \in DOMAIN proc /\ c \notin DOMAIN put /\ proc[c].cmd = "password"
    BY <1>4 DEF ChangePassword, Ready, PutStart
  <2>2. CASE unlockRepository(proc[c].old) = "true"
    <3>1. KeyPath \in DOMAIN files /\ StoredKeys \in 1..inits
      BY <2>2, UnlockReads
    <3>2. /\ UNCHANGED said
          /\ proc' = [proc EXCEPT ![c].keys = StoredKeys, ![c].cmd = "write"]
          /\ DOMAIN put' = DOMAIN put \cup {c}
          /\ \A d \in DOMAIN put : put'[d] = put[d]
          /\ put'[c] = Transfer(KeyPath, KeyStream(c, proc[c].new, StoredKeys))
      BY <1>4, <2>1, <2>2 DEF ChangePassword, PutStart, With
    <3>3. /\ DOMAIN proc' = DOMAIN proc
          /\ \A d \in DOMAIN proc \ {c} : proc'[d] = proc[d]
          /\ proc'[c] = [proc[c] EXCEPT !.keys = StoredKeys, !.cmd = "write"]
      BY <2>1, <3>2
    <3>4. /\ proc'[c].cmd = "write" /\ proc'[c].keys = StoredKeys
          /\ proc'[c].new = proc[c].new /\ proc[c].new \in Password
          /\ proc'[c] \in [cmd : {"init", "backup", "password", "write"},
                           old : Password, new : Password, keys : 1..inits]
      BY <2>1, <3>1, <3>3 DEF TypeOK
    <3>5. TypeOK'
      BY <2>1, <3>2, <3>3, <3>4 DEF TypeOK, Transfer
    <3>6. SafeTransfer(put'[c], c, inits', DOMAIN files') /\ OwnKeyFile(c)'
      <4>1. IsKeyFile(KeyStream(c, proc[c].new, StoredKeys), inits)
        BY <3>1, <3>4 DEF IsKeyFile
      <4> QED
        BY <2>1, <3>2, <3>4, <4>1, KeyStreamReads DEF SafeTransfer, OwnKeyFile, Transfer
    <3>7. \A d \in DOMAIN put : SafeTransfer(put'[d], d, inits', DOMAIN files') /\ OwnKeyFile(d)'
      BY <2>1, <3>2, <3>3 DEF SafeKeys, OwnKeyFile, TypeOK
    <3> QED
      BY <2>1, <3>1, <3>2, <3>3, <3>5, <3>6, <3>7 DEF SafeKeys
  <2>3. CASE unlockRepository(proc[c].old) # "true"
    <3>1. PICK message \in {"updated", "refused"} : End(c, message) /\ UNCHANGED put
      BY <1>4, <2>3 DEF ChangePassword
    <3>2. /\ DOMAIN proc' = DOMAIN proc \ {c}
          /\ \A d \in DOMAIN proc' : proc'[d] = proc[d]
          /\ said' = [said EXCEPT ![c] = message]
      BY <3>1 DEF End, Without
    <3>3. TypeOK'
      BY <2>1, <3>1, <3>2 DEF TypeOK
    <3>4. \A d \in DOMAIN put' : OwnKeyFile(d)'
      BY <2>1, <3>1, <3>2 DEF SafeKeys, OwnKeyFile, TypeOK
    <3> QED
      BY <2>1, <3>1, <3>2, <3>3, <3>4 DEF SafeKeys
  <2> QED
    BY <2>2, <2>3
<1>5. ASSUME NEW c \in Client, Transferring(c)
      PROVE  TypeOK' /\ SafeKeys'
  <2>1. /\ c \in DOMAIN put /\ put[c].open = "no"
        /\ files' = With(files, put[c].path, put[c].data)
        /\ put' = [put EXCEPT ![c].open = "yes"]
        /\ UNCHANGED <<late, faults, proc, inits, commands, data, said>>
    BY <1>5 DEF Transferring, PutOpen, PutWrite, PutStored, Writing, NoFault
  <2>2. /\ SafeTransfer(put[c], c, inits, DOMAIN files)
        /\ put[c].path = KeyPath
        /\ IsKeyFile(put[c].data, inits) /\ put[c].data[1].by = c
    BY <2>1 DEF SafeKeys, SafeTransfer
  <2>3. /\ DOMAIN files' = DOMAIN files \cup {KeyPath}
        /\ files'[KeyPath] = put[c].data
        /\ \A p \in DOMAIN files \ {KeyPath} : files'[p] = files[p]
    BY <2>1, <2>2 DEF With
  <2>4. /\ DOMAIN put' = DOMAIN put
        /\ \A d \in DOMAIN put \ {c} : put'[d] = put[d]
        /\ put'[c] = [put[c] EXCEPT !.open = "yes"]
    BY <2>1
  <2>5. /\ DOMAIN put'[c] = {"path", "data", "pos", "open"}
        /\ put'[c].path = KeyPath /\ put'[c].data = put[c].data /\ put'[c].open = "yes"
    BY <2>2, <2>4 DEF SafeTransfer
  <2>6. TypeOK'
    BY <2>1, <2>3, <2>4, <2>5 DEF TypeOK
  <2>7. SafeTransfer(put'[c], c, inits', DOMAIN files') /\ OwnKeyFile(c)'
    BY <2>1, <2>2, <2>3, <2>5 DEF SafeTransfer, OwnKeyFile, SafeKeys
  <2>8. \A d \in DOMAIN put \ {c} :
            SafeTransfer(put'[d], d, inits', DOMAIN files') /\ OwnKeyFile(d)'
    BY <2>1, <2>2, <2>3, <2>4 DEF SafeTransfer, OwnKeyFile, SafeKeys
  <2>9. /\ \A p \in DOMAIN files' : IsKeyFile(files'[p], inits')
        /\ \A t \in late' : \E d \in Client : SafeTransfer(t, d, inits', DOMAIN files')
    BY <2>1, <2>2, <2>3 DEF SafeKeys, SafeTransfer
  <2> QED
    BY <2>1, <2>3, <2>4, <2>6, <2>7, <2>8, <2>9 DEF SafeKeys
<1>6. ASSUME NEW c \in Client, Transferred(c)
      PROVE  TypeOK' /\ SafeKeys'
  <2>1. PICK message \in {"initialized", "updated"} : End(c, message)
    BY <1>6 DEF Transferred
  <2>2. /\ c \in DOMAIN put /\ DOMAIN put' = DOMAIN put \ {c}
        /\ \A d \in DOMAIN put' : put'[d] = put[d]
        /\ DOMAIN proc' = DOMAIN proc \ {c}
        /\ \A d \in DOMAIN proc' : proc'[d] = proc[d]
        /\ said' = [said EXCEPT ![c] = message]
        /\ UNCHANGED <<files, late, faults, inits, commands, data>>
    BY <1>6, <2>1 DEF Transferred, Waiting, PutReturn, Writing, End, Without, NoFault
  <2>3. TypeOK'
    BY <2>2 DEF TypeOK
  <2>4. \A d \in DOMAIN put' : SafeTransfer(put'[d], d, inits', DOMAIN files') /\ OwnKeyFile(d)'
    BY <2>2 DEF SafeKeys, OwnKeyFile, TypeOK
  <2> QED
    BY <2>2, <2>3, <2>4 DEF SafeKeys
<1>7. ASSUME NEW c \in Client, NEW message \in {"refused", "killed"},
             End(c, message), Fault, UNCHANGED <<inits, commands, data>>,
             PutAbandon(c) \/ (c \notin DOMAIN put /\ UNCHANGED <<files, put, late>>)
      PROVE  TypeOK' /\ SafeKeys'
  <2>1. /\ DOMAIN put' = DOMAIN put \ {c}
        /\ \A d \in DOMAIN put' : put'[d] = put[d]
        /\ DOMAIN proc' = DOMAIN proc \ {c}
        /\ \A d \in DOMAIN proc' : proc'[d] = proc[d]
        /\ said' = [said EXCEPT ![c] = message]
        /\ files' = files
        /\ late' \subseteq late \cup {put[c]}
        /\ c \notin DOMAIN put => late' = late
    BY <1>7 DEF PutAbandon, End, Without
  <2>2. faults' \in 0..MaxFaults /\ faults' > 0
    BY <1>7 DEF Fault, TypeOK
  <2>3. TypeOK'
    BY <1>7, <2>1, <2>2 DEF TypeOK
  <2>4. \A d \in DOMAIN put' : SafeTransfer(put'[d], d, inits', DOMAIN files') /\ OwnKeyFile(d)'
    BY <1>7, <2>1, <2>2 DEF SafeKeys, OwnKeyFile, TypeOK
  <2>5. \A t \in late' : \E d \in Client : SafeTransfer(t, d, inits', DOMAIN files')
    BY <1>7, <2>1 DEF SafeKeys
  <2> QED
    BY <1>7, <2>1, <2>2, <2>3, <2>4, <2>5 DEF SafeKeys
<1>8. ASSUME LateUpload
      PROVE  TypeOK' /\ SafeKeys'
  <2>1. PICK t \in late :
            /\ files' = With(files, t.path, t.data)
            /\ late' \subseteq late
            /\ UNCHANGED <<put, faults, proc, inits, commands, data, said>>
    BY <1>8 DEF LateUpload, PutLate
  <2>2. t.path = KeyPath /\ IsKeyFile(t.data, inits) /\ faults > 0
    BY <2>1 DEF SafeKeys, SafeTransfer
  <2>3. /\ DOMAIN files' = DOMAIN files \cup {KeyPath}
        /\ files'[KeyPath] = t.data
        /\ \A p \in DOMAIN files \ {KeyPath} : files'[p] = files[p]
    BY <2>1, <2>2 DEF With
  <2>4. TypeOK'
    BY <2>1, <2>3 DEF TypeOK
  <2>5. \A d \in DOMAIN put' : SafeTransfer(put'[d], d, inits', DOMAIN files') /\ OwnKeyFile(d)'
    BY <2>1, <2>2, <2>3 DEF SafeKeys, SafeTransfer, OwnKeyFile, TypeOK
  <2>6. /\ \A p \in DOMAIN files' : IsKeyFile(files'[p], inits')
        /\ \A u \in late' : \E d \in Client : SafeTransfer(u, d, inits', DOMAIN files')
    BY <2>1, <2>2, <2>3 DEF SafeKeys, SafeTransfer
  <2> QED
    BY <2>1, <2>2, <2>3, <2>4, <2>5, <2>6 DEF SafeKeys
<1>9. ASSUME UNCHANGED keyVars
      PROVE  TypeOK' /\ SafeKeys'
  BY <1>9 DEF keyVars, TypeOK, SafeKeys, OwnKeyFile
<1>10. ASSUME NEW c \in Client, TransferError(c)
       PROVE  TypeOK' /\ SafeKeys'
  BY <1>7, <1>10 DEF TransferError, PutError
<1>11. ASSUME NEW c \in Client, Crash(c)
       PROVE  TypeOK' /\ SafeKeys'
  BY <1>7, <1>11 DEF Crash
<1>12. ASSUME NEW c \in Client, Retry(c)
       PROVE  TypeOK' /\ SafeKeys'
  <2> DEFINE t == [put[c] EXCEPT !.open = "no"]
  <2>1. /\ c \in DOMAIN put /\ late' = late \cup {t}
        /\ UNCHANGED <<files, put, proc, inits, commands, data, said>>
    BY <1>12 DEF Retry, PutRetry
  <2>2. faults' \in 0..MaxFaults /\ faults' > 0
    BY <1>12 DEF Retry, Fault, TypeOK
  <2>3. SafeTransfer(put[c], c, inits, DOMAIN files)
    BY <2>1 DEF SafeKeys
  <2>4. SafeTransfer(t, c, inits, DOMAIN files) /\ t.path = KeyPath
    BY <2>3 DEF SafeTransfer
  <2> HIDE DEF t
  <2>5. TypeOK'
    BY <2>1, <2>2, <2>4 DEF TypeOK
  <2>6. \A u \in late' : \E d \in Client : SafeTransfer(u, d, inits', DOMAIN files')
    BY <2>1, <2>4 DEF SafeKeys
  <2>7. \A d \in DOMAIN put' : SafeTransfer(put'[d], d, inits', DOMAIN files') /\ OwnKeyFile(d)'
    BY <2>1, <2>2 DEF SafeKeys, OwnKeyFile, TypeOK
  <2> QED
    BY <2>1, <2>2, <2>5, <2>6, <2>7 DEF SafeKeys
<1> QED
  BY <1>1, <1>2, <1>3, <1>4, <1>5, <1>6, <1>8, <1>9, <1>10, <1>11, <1>12
     DEF Next, PasswordCommand, BackupCommand

\* On S3 processes, transfers, messages and the keys of every command have
\* their types at all times.
THEOREM KeyTypeCorrect ==
    ASSUME Backend = "s3"
    PROVE  Spec => []TypeOK
<1>1. Init => TypeOK /\ SafeKeys
  BY InitKeys
<1>2. TypeOK /\ SafeKeys /\ [Next]_keyVars => (TypeOK /\ SafeKeys)'
  BY NextKeys
<1> QED
  BY <1>1, <1>2, PTL DEF Spec

\* On S3 every key file that is stored, on its way or given up is whole, holds
\* keys that were generated, and is there before anything depends on it.
THEOREM KeysSafe ==
    ASSUME Backend = "s3"
    PROVE  Spec => []SafeKeys
<1>1. Init => TypeOK /\ SafeKeys
  BY InitKeys
<1>2. TypeOK /\ SafeKeys /\ [Next]_keyVars => (TypeOK /\ SafeKeys)'
  BY NextKeys
<1> QED
  BY <1>1, <1>2, PTL DEF Spec

-----------------------------------------------------------------------------
(* What it means for the user *)

\* The key file that is there can be opened, with the only keys that were ever
\* generated.
LEMMA KeyFileOpens ==
    ASSUME SafeKeys, inits \in 0..1, KeyPath \in DOMAIN files
    PROVE  (\E pwd \in Password : Opens(pwd)) /\ StoredKeys = 1
<1>1. IsKeyFile(get(KeyPath), inits)
  BY DEF SafeKeys, get
<1>2. /\ WellFormed(get(KeyPath))
      /\ get(KeyPath)[1].pay.pwd \in Password
      /\ get(KeyPath)[1].pay.keys \in 1..inits
  BY <1>1, KeyFileReads
<1> QED
  BY <1>2 DEF Opens, StoredKeys

\* On S3, in a repository that was initialised once, the data and its keys
\* never part: password changes may race, fail, be killed or be carried out
\* late.
THEOREM DataKeepsItsKeys ==
    ASSUME Backend = "s3", MaxInits <= 1
    PROVE  Spec => []DataHasItsKeys
<1>1. TypeOK /\ SafeKeys => DataHasItsKeys
  <2> SUFFICES ASSUME TypeOK, SafeKeys, data # {}
               PROVE  (\E pwd \in Password : Opens(pwd)) /\ data = {StoredKeys}
    BY DEF DataHasItsKeys
  <2>1. inits \in 0..1 /\ data \subseteq 1..inits
    BY KeyFileBounds DEF TypeOK
  <2>2. \A keys \in data : keys = 1
    BY <2>1
  <2>3. data = {1}
    BY <2>2
  <2> QED
    BY <2>1, <2>3, KeyFileOpens DEF SafeKeys
<1> QED
  BY <1>1, KeyTypeCorrect, KeysSafe, PTL

\* On S3, in a repository that was initialised once, a repository that can be
\* opened can be opened after every step, with the same keys.
THEOREM KeysNeverLost ==
    ASSUME Backend = "s3", MaxInits <= 1
    PROVE  Spec => KeysStay
<1>1. ASSUME TypeOK, SafeKeys, TypeOK', SafeKeys', [Next]_keyVars, NEW pwd \in Password, Opens(pwd)
      PROVE  /\ \E new \in Password : Opens(new)'
             /\ StoredKeys' = StoredKeys
  <2>1. inits \in 0..1 /\ inits' \in 0..1
    BY <1>1, KeyFileBounds DEF TypeOK
  <2>2. KeyPath \in DOMAIN files
    BY <1>1 DEF Opens, WellFormed, get
  <2>3. KeyPath \in DOMAIN files'
    <3>1. DOMAIN files \subseteq DOMAIN files'
      BY <1>1
         DEF Next, keyVars, storeVars, InitializeRepository, PasswordCommand, BackupCommand,
             StartUnlocked, StoreData, ChangePassword, Transferring, Transferred,
             TransferError, Crash, LateUpload, PutStart, PutOpen, PutStored, PutWrite,
             PutReturn, PutError, PutAbandon, PutLate, Retry, PutRetry, Writing, With
    <3> QED
      BY <2>2, <3>1
  <2>4. StoredKeys = 1
    BY <1>1, <2>1, <2>2, KeyFileOpens
  <2>5. (\E new \in Password : Opens(new)') /\ StoredKeys' = 1
    <3>1. IsKeyFile(get(KeyPath)', inits')
      BY <1>1, <2>3 DEF SafeKeys, get
    <3>2. /\ WellFormed(get(KeyPath)')
          /\ get(KeyPath)'[1].pay.pwd \in Password
          /\ get(KeyPath)'[1].pay.keys \in 1..inits'
      BY <3>1, KeyFileReads
    <3> QED
      BY <2>1, <3>2 DEF Opens, StoredKeys
  <2> QED
    BY <2>4, <2>5
<1>2. TypeOK /\ SafeKeys /\ TypeOK' /\ SafeKeys' /\ [Next]_keyVars
          => [\A pwd \in Password : Opens(pwd) =>
                 /\ \E new \in Password : Opens(new)'
                 /\ StoredKeys' = StoredKeys]_keyVars
  BY <1>1
<1> QED
  BY <1>2, KeyTypeCorrect, KeysSafe, PTL DEF Spec, KeysStay

\* On S3, when changePassword returns true, exactly the new password opens the
\* repository, unless another process stored its key file last or a request
\* was given up or repeated.
THEOREM ChangeTakesEffect ==
    ASSUME Backend = "s3"
    PROVE  Spec => ChangedMeansOpens
<1>1. ASSUME TypeOK, SafeKeys, [Next]_keyVars, NEW c \in Client,
             Waiting(c), proc[c].cmd = "write", said'[c] = "updated", c \notin DOMAIN proc'
      PROVE  \/ \A pwd \in Password : Opens(pwd)' <=> pwd = proc[c].new
             \/ get(KeyPath)[1].by # c
             \/ faults > 0
  <2>1. Transferred(c)
    <3>1. PICK d \in Client :
              \/ StoreData(d) \/ ChangePassword(d) \/ Transferred(d)
              \/ TransferError(d) \/ Crash(d)
      BY <1>1
         DEF Next, keyVars, Waiting, InitializeRepository, PasswordCommand, BackupCommand,
             StartUnlocked, Transferring, LateUpload, Retry, With
    <3>2. PICK message : End(d, message)
      BY <1>1, <3>1 DEF Waiting, StoreData, ChangePassword, Transferred, TransferError, Crash
    <3>3. d = c /\ said'[c] = message
      BY <1>1, <3>2 DEF End, Without, Waiting, TypeOK
    <3> QED
      BY <1>1, <3>1, <3>3
         DEF End, Waiting, StoreData, ChangePassword, Ready, TransferError, Crash, TypeOK
  <2>2. /\ put[c].open = "yes" /\ files' = files
        /\ KeyPath \in DOMAIN files
    BY <1>1, <2>1 DEF Transferred, PutReturn, Writing, Waiting, SafeKeys, SafeTransfer
  <2>3. OwnKeyFile(c)
    BY <1>1 DEF Waiting, SafeKeys
  <2>4. SUFFICES ASSUME get(KeyPath)[1].by = c, faults = 0
                 PROVE  \A pwd \in Password : Opens(pwd)' <=> pwd = proc[c].new
    BY <1>1 DEF TypeOK
  <2>5. get(KeyPath) = KeyStream(c, proc[c].new, proc[c].keys)
    BY <2>2, <2>3, <2>4 DEF OwnKeyFile, get
  <2>6. get(KeyPath)' = get(KeyPath)
    BY <2>2 DEF get
  <2> QED
    BY <2>5, <2>6, KeyStreamReads DEF Opens
<1>2. TypeOK /\ SafeKeys /\ [Next]_keyVars
          => [\A c \in Client :
                Waiting(c) /\ proc[c].cmd = "write" /\ said'[c] = "updated" /\ c \notin DOMAIN proc'
                    => \/ \A pwd \in Password : Opens(pwd)' <=> pwd = proc[c].new
                       \/ get(KeyPath)[1].by # c
                       \/ faults > 0]_keyVars
  BY <1>1
<1> QED
  BY <1>2, KeyTypeCorrect, KeysSafe, PTL DEF Spec, ChangedMeansOpens

-----------------------------------------------------------------------------
(***************************************************************************)
(* The file backend, for a user who runs one command at a time             *)
(***************************************************************************)

\* the first n chunks of a key file
Beginning(cells, n) == [k \in 1..n |-> cells[k]]

\* One more chunk of a key file written after those that are there.
LEMMA RewriteGrows ==
    ASSUME NEW cells, NEW n \in 0..1
    PROVE  WriteAt(Beginning(cells, n), n + 1, cells[n + 1]) = Beginning(cells, n + 1)
<1> DEFINE f == Beginning(cells, n)
<1>1. Len(f) = n
  BY DEF Beginning
<1>2. \A k \in 1..n : f[k] = cells[k]
  BY DEF Beginning
<1> HIDE DEF f
<1>3. WriteAt(f, n + 1, cells[n + 1])
          = [k \in 1..(n + 1) |-> IF k = n + 1 THEN cells[n + 1] ELSE f[k]]
  BY <1>1 DEF WriteAt
<1>4. \A k \in 1..(n + 1) : (IF k = n + 1 THEN cells[n + 1] ELSE f[k]) = cells[k]
  BY <1>2
<1>5. WriteAt(f, n + 1, cells[n + 1]) = Beginning(cells, n + 1)
  BY <1>3, <1>4 DEF Beginning
<1> QED
  BY <1>5 DEF f

\* A key file has two cells.
LEMMA KeyFileLength ==
    ASSUME NEW generated, NEW cells, IsKeyFile(cells, generated)
    PROVE  Len(cells) = 2 /\ cells = [k \in 1..2 |-> cells[k]]
<1> PICK by \in Client, pwd \in Password, keys \in 1..generated : cells = KeyStream(by, pwd, keys)
  BY DEF IsKeyFile
<1> QED
  BY DEF KeyStream

\* Who unlocks the repository between two commands gets keys that were
\* generated, from a file that is there.
LEMMA UnlockAtRest ==
    ASSUME SafeRewrites, DOMAIN put = {}, NEW pwd, unlockRepository(pwd) = "true"
    PROVE  KeyPath \in DOMAIN files /\ StoredKeys \in 1..inits
<1>1. WellFormed(get(KeyPath))
  BY DEF unlockRepository, Opens
<1>2. KeyPath \in DOMAIN files
  BY <1>1 DEF WellFormed, get
<1>3. IsKeyFile(get(KeyPath), inits)
  BY <1>2 DEF SafeRewrites, WholeFiles, get
<1> QED
  BY <1>2, <1>3, KeyFileReads DEF StoredKeys

\* A store without files is at rest.
LEMMA InitRewrites == Init => TypeOK /\ SafeRewrites
BY KeyFileBounds, MaxFaultsAssumption
   DEF Init, StoreInit, EmptyFcn, TypeOK, SafeRewrites, WholeFiles

\* Every command leaves a whole key file behind and rewrites it from its
\* beginning meanwhile.
LEMMA NextRewrites ==
    ASSUME Backend = "file", MaxFaults = 0, \A c, d \in Client : c = d,
           TypeOK, SafeRewrites, [Next]_keyVars
    PROVE  TypeOK' /\ SafeRewrites'
<1> USE KeyFileBounds
<1>a. ~Fault /\ faults = 0
  BY DEF Fault, TypeOK
<1>b. ASSUME NEW c \in Client, c \notin DOMAIN put
      PROVE  DOMAIN put = {} /\ WholeFiles
  <2>1. DOMAIN put \subseteq Client
    BY DEF TypeOK
  <2>2. DOMAIN put = {}
    BY <1>b, <2>1
  <2> QED
    BY <2>2 DEF SafeRewrites
<1>c. ASSUME NEW c \in Client, c \notin DOMAIN proc
      PROVE  DOMAIN proc = {} /\ DOMAIN put = {} /\ WholeFiles
  <2>1. DOMAIN put \subseteq DOMAIN proc /\ DOMAIN proc \subseteq Client
    BY DEF TypeOK
  <2>2. DOMAIN proc = {} /\ DOMAIN put = {}
    BY <1>c, <2>1
  <2> QED
    BY <2>2 DEF SafeRewrites
<1>1. ASSUME NEW c \in Client, NEW pwd \in Password, InitializeRepository(c, pwd)
      PROVE  TypeOK' /\ SafeRewrites'
  <2>1. inits' = inits + 1 /\ inits \in Nat /\ inits' \in Nat /\ inits' \in 0..MaxInits
    BY <1>1 DEF InitializeRepository, TypeOK
  <2>2. DOMAIN proc = {} /\ DOMAIN put = {} /\ WholeFiles
    BY <1>1, <1>c DEF InitializeRepository
  <2>3. /\ DOMAIN proc' = {c} /\ DOMAIN put' = {c}
        /\ proc'[c] = Process("init", pwd, pwd, inits')
        /\ put'[c] = Transfer(KeyPath, KeyStream(c, pwd, inits'))
        /\ UNCHANGED <<files, late, faults, commands, data, said>>
    BY <1>1, <2>2 DEF InitializeRepository, PutStart, With
  <2>4. TypeOK'
    BY <2>1, <2>2, <2>3 DEF TypeOK, Process, Transfer
  <2>5. WholeFiles'
    <3>1. inits <= inits'
      BY <2>1
    <3>2. \A p \in DOMAIN files : IsKeyFile(files[p], inits')
      BY <2>1, <2>2, <3>1, KeyFileGrows DEF WholeFiles
    <3> QED
      BY <2>3, <3>2 DEF WholeFiles
  <2>6. IsKeyFile(KeyStream(c, pwd, inits'), inits')
    BY <2>1 DEF IsKeyFile
  <2>7. SafeRewrite(c)'
    BY <2>3, <2>5, <2>6 DEF SafeRewrite, Transfer
  <2> QED
    BY <2>3, <2>4, <2>7 DEF SafeRewrites, Process
<1>2. ASSUME NEW c \in Client, NEW cmd \in {"backup", "password"},
             NEW old \in Password, NEW new \in Password, StartUnlocked(c, cmd, old, new)
      PROVE  TypeOK' /\ SafeRewrites'
  <2>1. /\ UNCHANGED <<files, put, late, faults, inits, data>>
        /\ commands' \in 0..MaxCommands
        /\ c \notin DOMAIN proc
    BY <1>2 DEF StartUnlocked, Command, storeVars, TypeOK
  <2>2. DOMAIN proc = {} /\ DOMAIN put = {} /\ WholeFiles /\ WholeFiles'
    BY <2>1, <1>c DEF WholeFiles
  <2>3. CASE unlockRepository(old) = "true"
    <3>1. KeyPath \in DOMAIN files /\ StoredKeys \in 1..inits
      BY <2>2, <2>3, UnlockAtRest
    <3>2. /\ DOMAIN proc' = {c}
          /\ proc'[c] = Process(cmd, old, new, StoredKeys)
          /\ UNCHANGED said
      BY <1>2, <2>1, <2>2, <2>3 DEF StartUnlocked, With
    <3>3. TypeOK'
      BY <2>1, <2>2, <3>1, <3>2 DEF TypeOK, Process
    <3> QED
      BY <2>1, <2>2, <3>1, <3>2, <3>3 DEF SafeRewrites
  <2>4. CASE unlockRepository(old) # "true"
    <3>1. UNCHANGED proc /\ said' = [said EXCEPT ![c] = "refused"]
      BY <1>2, <2>4 DEF StartUnlocked
    <3>2. TypeOK'
      BY <2>1, <3>1 DEF TypeOK
    <3> QED
      BY <2>1, <2>2, <3>1, <3>2 DEF SafeRewrites
  <2> QED
    BY <2>3, <2>4
<1>3. ASSUME NEW c \in Client, StoreData(c)
      PROVE  TypeOK' /\ SafeRewrites'
  <2>1. /\ UNCHANGED <<files, put, late, faults, inits, commands>>
        /\ c \in DOMAIN proc /\ c \notin DOMAIN put /\ proc[c].cmd = "backup"
        /\ data' = data \cup {proc[c].keys}
        /\ DOMAIN proc' = DOMAIN proc \ {c}
        /\ \A d \in DOMAIN proc' : proc'[d] = proc[d]
        /\ said' = [said EXCEPT ![c] = "stored"]
    BY <1>3 DEF StoreData, Ready, End, Without, storeVars
  <2>2. TypeOK'
    BY <2>1 DEF TypeOK
  <2>3. DOMAIN put' = {} /\ WholeFiles'
    BY <2>1, <1>b DEF WholeFiles
  <2> QED
    BY <2>1, <2>2, <2>3 DEF SafeRewrites
<1>4. ASSUME NEW c \in Client, ChangePassword(c)
      PROVE  TypeOK' /\ SafeRewrites'
  <2>1. /\ UNCHANGED <<files, late, faults, inits, commands, data>>
        /\ c \in DOMAIN proc /\ c \notin DOMAIN put /\ proc[c].cmd = "password"
    BY <1>4 DEF ChangePassword, Ready, PutStart
  <2>2. DOMAIN proc = {c} /\ DOMAIN put = {} /\ WholeFiles /\ WholeFiles'
    BY <2>1, <1>b DEF WholeFiles, TypeOK
  <2>3. CASE unlockRepository(proc[c].old) = "true"
    <3>1. KeyPath \in DOMAIN files /\ StoredKeys \in 1..inits
      BY <2>2, <2>3, UnlockAtRest
    <3>2. /\ UNCHANGED said
          /\ proc' = [proc EXCEPT ![c].keys = StoredKeys, ![c].cmd = "write"]
          /\ DOMAIN put' = {c}
          /\ put'[c] = Transfer(KeyPath, KeyStream(c, proc[c].new, StoredKeys))
      BY <1>4, <2>1, <2>2, <2>3 DEF ChangePassword, PutStart, With
    <3>3. /\ DOMAIN proc' = {c}
          /\ proc'[c] = [proc[c] EXCEPT !.keys = StoredKeys, !.cmd = "write"]
      BY <2>1, <2>2, <3>2
    <3>4. /\ proc[c].new \in Password
          /\ proc'[c] \in [cmd : {"init", "backup", "password", "write"},
                           old : Password, new : Password, keys : 1..inits]
      BY <2>1, <3>1, <3>3 DEF TypeOK
    <3>5. TypeOK'
      BY <2>1, <3>2, <3>3, <3>4 DEF TypeOK, Transfer
    <3>6. IsKeyFile(KeyStream(c, proc[c].new, StoredKeys), inits)
      BY <3>1, <3>4 DEF IsKeyFile
    <3>7. SafeRewrite(c)'
      BY <2>1, <2>2, <3>2, <3>6 DEF SafeRewrite, Transfer
    <3> QED
      BY <2>1, <3>1, <3>2, <3>3, <3>5, <3>7 DEF SafeRewrites
  <2>4. CASE unlockRepository(proc[c].old) # "true"
    <3>1. PICK message \in {"updated", "refused"} : End(c, message) /\ UNCHANGED put
      BY <1>4, <2>4 DEF ChangePassword
    <3>2. /\ DOMAIN proc' = DOMAIN proc \ {c}
          /\ \A d \in DOMAIN proc' : proc'[d] = proc[d]
          /\ said' = [said EXCEPT ![c] = message]
      BY <3>1 DEF End, Without
    <3>3. TypeOK'
      BY <2>1, <3>1, <3>2 DEF TypeOK
    <3> QED
      BY <2>1, <2>2, <3>1, <3>2, <3>3 DEF SafeRewrites
  <2> QED
    BY <2>3, <2>4
<1>5. ASSUME NEW c \in Client, Transferring(c)
      PROVE  TypeOK' /\ SafeRewrites'
  <2>1. /\ c \in DOMAIN put /\ DOMAIN put = {c} /\ put[c].path = KeyPath
        /\ SafeRewrite(c)
        /\ UNCHANGED <<late, faults, proc, inits, commands, data, said>>
    <3>1. c \in DOMAIN put
      BY <1>5 DEF Transferring, Waiting, PutOpen, PutWrite, PutStored, Writing
    <3>2. DOMAIN put \subseteq Client /\ put[c].path = KeyPath
      BY <3>1 DEF TypeOK
    <3>3. SafeRewrite(c)
      BY <3>1 DEF SafeRewrites
    <3>4. UNCHANGED <<late, faults, proc, inits, commands, data, said>>
      BY <1>5 DEF Transferring, PutOpen, PutWrite, PutStored, NoFault
    <3> QED
      BY <3>1, <3>2, <3>3, <3>4
  <2>2. Len(put[c].data) = 2
    BY <2>1, KeyFileLength DEF SafeRewrite
  <2>3. CASE PutOpen(c)
    <3>1. /\ put[c].open = "no" /\ put[c].pos = 0
          /\ DOMAIN files' = DOMAIN files \cup {KeyPath}
          /\ files'[KeyPath] = <<>>
          /\ DOMAIN put' = {c}
          /\ put'[c] = [put[c] EXCEPT !.open = "yes"]
      BY <2>1, <2>3 DEF PutOpen, With, SafeRewrite
    <3>2. /\ DOMAIN put'[c] = {"path", "data", "pos", "open"}
          /\ put'[c].path = KeyPath /\ put'[c].data = put[c].data
          /\ put'[c].pos = 0 /\ put'[c].open = "yes"
      BY <2>1, <3>1 DEF SafeRewrite
    <3>3. TypeOK'
      BY <2>1, <3>1, <3>2 DEF TypeOK
    <3>4. <<>> = [k \in 1..0 |-> put[c].data[k]]
      OBVIOUS
    <3>5. SafeRewrite(c)'
      BY <2>1, <3>1, <3>2, <3>4 DEF SafeRewrite
    <3> QED
      BY <2>1, <3>1, <3>3, <3>5 DEF SafeRewrites
  <2>4. CASE PutWrite(c)
    <3> DEFINE n == put[c].pos
    <3>1. /\ put[c].open = "yes" /\ n \in 0..1 /\ KeyPath \in DOMAIN files
          /\ files[KeyPath] = [k \in 1..n |-> put[c].data[k]]
          /\ DOMAIN files' = DOMAIN files
          /\ files'[KeyPath] = WriteAt(files[KeyPath], n + 1, put[c].data[n + 1])
          /\ DOMAIN put' = {c}
          /\ put'[c] = [put[c] EXCEPT !.pos = n + 1]
      BY <2>1, <2>2, <2>4 DEF PutWrite, Writing, SafeRewrite
    <3>2. /\ DOMAIN put'[c] = {"path", "data", "pos", "open"}
          /\ put'[c].path = KeyPath /\ put'[c].data = put[c].data
          /\ put'[c].pos = n + 1 /\ put'[c].open = "yes"
      BY <2>1, <3>1 DEF SafeRewrite
    <3>3. TypeOK'
      BY <2>1, <3>1, <3>2 DEF TypeOK
    <3> HIDE DEF n
    <3>4. files'[KeyPath] = [k \in 1..(n + 1) |-> put[c].data[k]]
      <4>1. files[KeyPath] = Beginning(put[c].data, n)
        BY <3>1 DEF Beginning
      <4>2. files'[KeyPath] = Beginning(put[c].data, n + 1)
        BY <3>1, <4>1, RewriteGrows
      <4> QED
        BY <4>2 DEF Beginning
    <3>5. n + 1 \in 0..2
      BY <3>1
    <3>6. SafeRewrite(c)'
      BY <2>1, <3>1, <3>2, <3>4, <3>5 DEF SafeRewrite
    <3> QED
      BY <2>1, <3>1, <3>3, <3>6 DEF SafeRewrites
  <2> QED
    BY <1>5, <2>3, <2>4 DEF Transferring, PutStored
<1>6. ASSUME NEW c \in Client, Transferred(c)
      PROVE  TypeOK' /\ SafeRewrites'
  <2>1. PICK message \in {"initialized", "updated"} : End(c, message)
    BY <1>6 DEF Transferred
  <2>2. /\ c \in DOMAIN put /\ DOMAIN put' = {}
        /\ put[c].open # "no" /\ put[c].pos = Len(put[c].data)
        /\ DOMAIN proc' = DOMAIN proc \ {c}
        /\ \A d \in DOMAIN proc' : proc'[d] = proc[d]
        /\ said' = [said EXCEPT ![c] = message]
        /\ UNCHANGED <<files, late, faults, inits, commands, data>>
    <3>1. DOMAIN put \subseteq Client
      BY DEF TypeOK
    <3>2. /\ c \in DOMAIN put
          /\ put[c].open # "no" /\ put[c].pos = Len(put[c].data)
          /\ put' = Without(put, c)
          /\ UNCHANGED <<files, late, faults, inits, commands, data>>
      BY <1>6, <1>a DEF Transferred, Waiting, PutReturn, Writing, NoFault
    <3>3. DOMAIN put' = {}
      BY <3>1, <3>2 DEF Without
    <3> QED
      BY <2>1, <3>2, <3>3 DEF End, Without
  <2>3. TypeOK'
    BY <2>2 DEF TypeOK
  <2>4. SafeRewrite(c) /\ IsKeyFile(put[c].data, inits)
    BY <2>2 DEF SafeRewrites, SafeRewrite
  <2>5. put[c].pos = 2 /\ files[KeyPath] = put[c].data
    BY <2>2, <2>4, KeyFileLength DEF SafeRewrite
  <2>6. WholeFiles'
    BY <2>2, <2>4, <2>5 DEF WholeFiles, TypeOK
  <2> QED
    BY <2>2, <2>3, <2>6 DEF SafeRewrites
<1>7. ASSUME UNCHANGED keyVars
      PROVE  TypeOK' /\ SafeRewrites'
  BY <1>7 DEF keyVars, TypeOK, SafeRewrites, SafeRewrite, WholeFiles
<1>8. ~LateUpload /\ \A c \in Client : ~TransferError(c) /\ ~Crash(c) /\ ~Retry(c)
  BY <1>a DEF LateUpload, TransferError, PutError, Crash, Retry, SafeRewrites
<1> QED
  BY <1>1, <1>2, <1>3, <1>4, <1>5, <1>6, <1>7, <1>8
     DEF Next, PasswordCommand, BackupCommand

\* In a directory, for a user who runs one command at a time and while nothing
\* fails, every put() rewrites the key file from its beginning and leaves a
\* whole one.
THEOREM RewritesSafe ==
    ASSUME Backend = "file", MaxFaults = 0, \A c, d \in Client : c = d
    PROVE  Spec => []SafeRewrites
<1>1. Init => TypeOK /\ SafeRewrites
  BY InitRewrites
<1>2. TypeOK /\ SafeRewrites /\ [Next]_keyVars => (TypeOK /\ SafeRewrites)'
  BY NextRewrites
<1> QED
  BY <1>1, <1>2, PTL DEF Spec

\* The same user, in a repository that was initialised once, has the keys of
\* all the data whenever no command is writing the key file.
THEOREM DataAtRestHasItsKeys ==
    ASSUME Backend = "file", MaxFaults = 0, \A c, d \in Client : c = d, MaxInits <= 1
    PROVE  Spec => []KeysAtRest
<1>1. Init => TypeOK /\ SafeRewrites
  BY InitRewrites
<1>2. TypeOK /\ SafeRewrites /\ [Next]_keyVars => (TypeOK /\ SafeRewrites)'
  BY NextRewrites
<1>3. TypeOK /\ SafeRewrites => KeysAtRest
  <2> SUFFICES ASSUME TypeOK, SafeRewrites, DOMAIN put = {}, data # {}
               PROVE  (\E pwd \in Password : Opens(pwd)) /\ data = {StoredKeys}
    BY DEF KeysAtRest, DataHasItsKeys
  <2>1. inits \in 0..1 /\ data \subseteq 1..inits
    BY KeyFileBounds DEF TypeOK
  <2>2. \A keys \in data : keys = 1
    BY <2>1
  <2>3. data = {1}
    BY <2>2
  <2>4. IsKeyFile(get(KeyPath), inits)
    BY DEF SafeRewrites, WholeFiles, get
  <2>5. /\ WellFormed(get(KeyPath))
        /\ get(KeyPath)[1].pay.pwd \in Password
        /\ get(KeyPath)[1].pay.keys \in 1..inits
    BY <2>4, KeyFileReads
  <2> QED
    BY <2>1, <2>3, <2>5 DEF Opens, StoredKeys
<1> QED
  BY <1>1, <1>2, <1>3, PTL DEF Spec

=============================================================================
