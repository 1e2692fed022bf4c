--------------------------- MODULE Storage_proofs ---------------------------
(***************************************************************************)
(* Proofs about the files of falach-core that several processes share: the *)
(* vault file behind its sidecar lock (VaultHandle) and vaults.toml with   *)
(* the files of the vaults it lists (Registry).                            *)
(***************************************************************************)
EXTENDS AtomicWrite, Registry, VaultHandle, SequenceTheorems, TLAPS

(***************************************************************************)
(* VaultHandle.                                                            *)
(*                                                                         *)
(* What makes the handles current is the sidecar lock: while a reader is   *)
(* open nobody writes, and while a writer is open nobody else does.  So    *)
(* the invariant says who can hold it next to whom (LocksExclude), that a  *)
(* handle never outlives its lock (HandlesAreLocked), and what a handle    *)
(* then knows of the file (HandlesKnowTheFile).                            *)
(***************************************************************************)

Database == [root : {VaultRoot}, edits : SUBSET Nat]
Opened == [key : Key, db : Database]

HandleTypeOK ==
    /\ vfile \in Opened
    /\ vlock \in [HandleProc -> {"none", "shared", "exclusive"}]
    /\ handle \in [HandleProc -> Opened \cup {NoHandle}]
    /\ keyfile \in KeyBytes
    /\ settled \in Password /\ tried \subseteq Password
    /\ vedits \in Nat

LocksExclude ==
    \A p, q \in HandleProc : vlock[p] = "exclusive" /\ vlock[q] # "none" => p = q

HandlesAreLocked == \A p \in HandleProc : handle[p] # NoHandle => vlock[p] # "none"

\* A reader's handle is the file; a writer's has every edit of it and a key
\* whose password was acknowledged, or is one of a change that failed.
HandlesKnowTheFile ==
    \A p \in HandleProc : handle[p] # NoHandle =>
        IF vlock[p] = "exclusive"
        THEN vfile.db.edits \subseteq handle[p].db.edits /\ handle[p].key.pw \in {settled} \cup tried
        ELSE handle[p] = vfile

HandleInv ==
    HandleTypeOK /\ LocksExclude /\ HandlesAreLocked /\ HandlesKnowTheFile /\ PasswordIsSettled

\* A process starts without lock and handle, on a file of this vault.
LEMMA HandleInitInv == HandleInit => HandleInv
<1> SUFFICES ASSUME HandleInit PROVE HandleInv
  OBVIOUS
<1>1. settled \in Password /\ keyfile \in KeyBytes
  BY VaultHandleAssumption DEF HandleInit
<1> QED
  BY <1>1 DEF HandleInit, HandleInv, HandleTypeOK, LocksExclude, HandlesAreLocked,
     HandlesKnowTheFile, PasswordIsSettled, Opened, Database, Key, DatabaseOf

\* A lock is granted only next to locks it coexists with.
LEMMA OpenLockInv ==
    ASSUME HandleInv, NEW p \in HandleProc, NEW kind \in {"shared", "exclusive"},
           OpenLock(p, kind)
    PROVE  HandleInv'
<1> USE DEF HandleInv, HandleTypeOK
<1>1. LocksExclude'
  BY DEF OpenLock, MayLock, LocksExclude
<1>2. HandlesAreLocked' /\ HandlesKnowTheFile' /\ PasswordIsSettled'
  BY DEF OpenLock, HandlesAreLocked, HandlesKnowTheFile, PasswordIsSettled
<1> QED BY <1>1, <1>2 DEF OpenLock

\* The password that opened the file is settled, for every handle there is:
\* the other handles are readers with the same key.
LEMMA OpenReadInv ==
    ASSUME HandleInv, NEW p \in HandleProc, NEW pw \in Password, OpenRead(p, pw)
    PROVE  HandleInv'
<1> USE DEF HandleInv
<1>1. CASE [pw |-> pw, kf |-> keyfile] = vfile.key
  <2>1. /\ handle' = [handle EXCEPT ![p] = vfile]
        /\ vfile.key.pw = pw
    BY <1>1 DEF OpenRead, HandleTypeOK, Opened
  <2>2. HandleTypeOK'
    BY <1>1, <2>1 DEF OpenRead, HandleTypeOK
  <2>3. HandlesKnowTheFile'
    <3> SUFFICES ASSUME NEW q \in HandleProc, handle'[q] # NoHandle
                 PROVE  HandlesKnowTheFile!(q)!2'
      BY DEF HandlesKnowTheFile
    <3> QED
      BY <1>1, <2>1 DEF OpenRead, HandleTypeOK, HandlesKnowTheFile, LocksExclude, HandlesAreLocked
  <2> QED
    BY <1>1, <2>1, <2>2, <2>3
    DEF OpenRead, HandleTypeOK, LocksExclude, HandlesAreLocked, PasswordIsSettled
<1>2. CASE [pw |-> pw, kf |-> keyfile] # vfile.key
  BY <1>2 DEF OpenRead, Unlocked, HandleTypeOK, LocksExclude, HandlesAreLocked,
     HandlesKnowTheFile, PasswordIsSettled
<1> QED BY <1>1, <1>2

\* A handle that is dropped takes its lock along, and nobody else's.
LEMMA CloseHandleInv ==
    ASSUME HandleInv, NEW p \in HandleProc, CloseHandle(p)
    PROVE  HandleInv'
BY DEF CloseHandle, Unlocked, HandleInv, HandleTypeOK, LocksExclude, HandlesAreLocked,
   HandlesKnowTheFile, PasswordIsSettled

\* An edit in memory, or a merged database, only adds edits to a writer's.
LEMMA WriterEditsInv ==
    ASSUME HandleInv, NEW p \in HandleProc,
           EditInMemory(p) \/ (Writer(p) /\ \E db \in Incoming(p) : ReplaceDatabase(p, db))
    PROVE  HandleInv'
<1>1. /\ handle[p] \in Opened /\ handle[p] # NoHandle
      /\ vlock[p] = "exclusive"
  BY DEF EditInMemory, Writer, HandleInv, HandleTypeOK
<1>2. PICK db \in Database :
        /\ handle' = [handle EXCEPT ![p].db = db]
        /\ handle[p].db.edits \subseteq db.edits
  <2>1. CASE EditInMemory(p)
    <3> DEFINE db == [handle[p].db EXCEPT !.edits = @ \cup {vedits + 1}]
    <3>1. db \in Database /\ handle[p].db.edits \subseteq db.edits
      BY <1>1 DEF HandleInv, HandleTypeOK, Opened, Database
    <3>2. handle' = [handle EXCEPT ![p].db = db]
      BY <2>1 DEF EditInMemory
    <3> QED BY <3>1, <3>2
  <2>2. CASE Writer(p) /\ \E db \in Incoming(p) : ReplaceDatabase(p, db)
    <3>1. PICK db \in Incoming(p) : ReplaceDatabase(p, db)
      BY <2>2
    <3>2. db \in Database /\ handle[p].db.edits \subseteq db.edits
      BY <1>1, <3>1 DEF ReplaceDatabase, Incoming, DatabaseOf, Opened, Database
    <3> QED BY <3>1, <3>2 DEF ReplaceDatabase
  <2> QED BY <2>1, <2>2
<1>3. /\ UNCHANGED <<vfile, vlock, keyfile, settled, tried>>
      /\ vedits' \in Nat
  BY DEF EditInMemory, ReplaceDatabase, HandleInv, HandleTypeOK
<1>4. handle' = [handle EXCEPT ![p] = [key |-> handle[p].key, db |-> db]]
  <2>1. [handle[p] EXCEPT !.db = db] = [key |-> handle[p].key, db |-> db]
    BY <1>1 DEF Opened
  <2> QED BY <1>2, <2>1
<1>5. HandleTypeOK'
  BY <1>1, <1>3, <1>4 DEF HandleInv, HandleTypeOK, Opened
<1>6. HandlesKnowTheFile' /\ HandlesAreLocked'
  BY <1>1, <1>2, <1>3, <1>4
  DEF HandleInv, HandleTypeOK, HandlesKnowTheFile, HandlesAreLocked, Opened
<1> QED BY <1>3, <1>5, <1>6 DEF HandleInv, LocksExclude, PasswordIsSettled

\* While a writer is open every other process has neither lock nor handle.
LEMMA WriterIsAlone ==
    ASSUME HandleInv, NEW p \in HandleProc, Writer(p), NEW q \in HandleProc, q # p
    PROVE  vlock[q] = "none" /\ handle[q] = NoHandle
BY DEF Writer, HandleInv, HandleTypeOK, LocksExclude, HandlesAreLocked

\* Whatever a writer's save leaves in the file, it is a file its handle knows:
\* the one of before, or its own database under a key that is accounted for.
LEMMA WriterSavesInv ==
    ASSUME HandleInv, NEW p \in HandleProc, Writer(p),
           NEW key \in Key, vfile' \in {vfile, [key |-> key, db |-> handle[p].db]},
           vfile'.key.pw \in {settled'} \cup tried',
           handle'[p].key.pw \in {settled'} \cup tried',
           handle'[p] \in Opened, handle'[p].db = handle[p].db,
           \A q \in HandleProc : q # p => handle'[q] = handle[q],
           handle' \in [HandleProc -> Opened \cup {NoHandle}],
           settled' \in Password, tried' \subseteq Password,
           UNCHANGED <<vlock, keyfile, vedits>>
    PROVE  HandleInv'
<1>1. handle[p] \in Opened /\ handle[p].db \in Database /\ vlock[p] = "exclusive"
      /\ vfile.db.edits \subseteq handle[p].db.edits
  BY DEF Writer, HandleInv, HandleTypeOK, Opened, HandlesKnowTheFile
<1>2. HandleTypeOK'
  BY <1>1 DEF HandleInv, HandleTypeOK, Opened
<1>3. HandlesAreLocked' /\ HandlesKnowTheFile'
  BY <1>1, WriterIsAlone DEF HandlesAreLocked, HandlesKnowTheFile
<1>4. PasswordIsSettled'
  BY <1>1 DEF HandleInv, PasswordIsSettled, Database
<1> QED BY <1>2, <1>3, <1>4 DEF HandleInv, LocksExclude

\* A step of one process or of the user keeps the invariant.
LEMMA HandleNextInv == HandleInv /\ [HandleNext]_handleVars => HandleInv'
<1> SUFFICES ASSUME HandleInv, [HandleNext]_handleVars PROVE HandleInv'
  OBVIOUS
<1> USE DEF HandleInv
<1>1. ASSUME NEW p \in HandleProc, NEW kind \in {"shared", "exclusive"}, OpenLock(p, kind)
      PROVE  HandleInv'
  BY <1>1, OpenLockInv
<1>2. ASSUME NEW p \in HandleProc, NEW pw \in Password, OpenRead(p, pw)
      PROVE  HandleInv'
  BY <1>2, OpenReadInv
<1>3. ASSUME NEW p \in HandleProc,
             CloseHandle(p) \/ EditInMemory(p)
             \/ (Writer(p) /\ \E db \in Incoming(p) : ReplaceDatabase(p, db))
      PROVE  HandleInv'
  BY <1>3, CloseHandleInv, WriterEditsInv
<1>4. ASSUME NEW p \in HandleProc, Writer(p)
      PROVE  /\ handle[p] \in Opened /\ handle[p].key \in Key
             /\ handle[p].key.pw \in {settled} \cup tried
             /\ \A new \in Password : NewKey(p, new) \in Key /\ NewKey(p, new).pw = new
  BY <1>4 DEF Writer, HandleTypeOK, HandlesKnowTheFile, Opened, Key, NewKey
<1>5. ASSUME NEW p \in HandleProc, SaveHandle(p) \/ SaveHandleFails(p)
      PROVE  HandleInv'
  <2>1. Writer(p)
    BY <1>5 DEF SaveHandle, SaveHandleFails
  <2>2. CASE SaveHandle(p)
    BY <1>4, <2>1, <2>2, WriterSavesInv DEF SaveHandle, HandleTypeOK, Key
  <2>3. CASE SaveHandleFails(p)
    BY <1>4, <2>1, <2>3, WriterSavesInv
    DEF SaveHandleFails, FailedSave, HandleTypeOK, PasswordIsSettled
  <2> QED BY <1>5, <2>2, <2>3
<1>6. ASSUME NEW p \in HandleProc, NEW cur \in Password, NEW new \in Password,
             ChangeMasterPassword(p, cur, new)
      PROVE  HandleInv'
  <2>1. Writer(p) /\ NewKey(p, new) \in Key /\ NewKey(p, new).pw = new
    BY <1>4, <1>6 DEF ChangeMasterPassword
  <2>2. handle'[p] = [key |-> NewKey(p, new), db |-> handle[p].db]
    BY <1>4, <1>6, <2>1 DEF ChangeMasterPassword, HandleTypeOK, Opened
  <2>3. handle'[p] \in Opened
    BY <1>4, <2>1, <2>2 DEF Opened
  <2>4. handle' \in [HandleProc -> Opened \cup {NoHandle}]
    BY <1>6, <2>2, <2>3 DEF ChangeMasterPassword, HandleTypeOK
  <2> QED
    BY <1>6, <2>1, <2>2, <2>3, <2>4, WriterSavesInv DEF ChangeMasterPassword, HandleTypeOK
<1>7. ASSUME NEW p \in HandleProc, NEW cur \in Password, NEW new \in Password,
             ChangeFails(p, cur, new)
      PROVE  HandleInv'
  <2>1. Writer(p) /\ NewKey(p, new) \in Key /\ NewKey(p, new).pw = new
    BY <1>4, <1>7 DEF ChangeFails
  <2> QED
    BY <1>4, <1>7, <2>1, WriterSavesInv
    DEF ChangeFails, FailedSave, HandleTypeOK, PasswordIsSettled
<1>8. ASSUME NEW x \in KeyBytes, ReplaceKeyfile(x)
      PROVE  HandleInv'
  BY <1>8 DEF ReplaceKeyfile, HandleTypeOK, LocksExclude, HandlesAreLocked,
     HandlesKnowTheFile, PasswordIsSettled
<1>9. CASE UNCHANGED handleVars
  BY <1>9 DEF handleVars, HandleTypeOK, LocksExclude, HandlesAreLocked,
     HandlesKnowTheFile, PasswordIsSettled
<1> QED
  BY <1>1, <1>2, <1>3, <1>5, <1>6, <1>7, <1>8, <1>9 DEF HandleNext

\* Vault and VaultReadOnly: in every interleaving of open, save, re-key and
\* close by any number of processes, with any write failing, a writer holds
\* every saved edit, a reader holds the file, and the file's password is the
\* one last acknowledged or that of a failed change.
THEOREM HandlesAreSettled == HandleSpec => []VaultIsSettled
<1>1. HandleInv => VaultIsSettled
  BY DEF HandleInv, VaultIsSettled, HandlesAreCurrent, HandlesKnowTheFile, HandleTypeOK, Writer
<1> QED BY HandleInitInv, HandleNextInv, <1>1, PTL DEF HandleSpec

-----------------------------------------------------------------------------
(***************************************************************************)
(* Registry.                                                               *)
(*                                                                         *)
(* VaultRegistry::save may replace the whole file because the file is what *)
(* the snapshot was made from and stays that until the lock is released;   *)
(* so the invariant relates every snapshot to its baseline                 *)
(* (SnapshotCovers) and, under the lock, the baseline to the file          *)
(* (WriteIsCurrent).  That the registry lists whole files is decided long  *)
(* before, when vault create reserves a path nobody else has (FileIsOwn).  *)
(***************************************************************************)

NamesIn(v) == {v[i].name : i \in DOMAIN v}

\* A body in which no name, no file and no target occurs twice.
Distinct(v) ==
    /\ \A i, j \in DOMAIN v : v[i].name = v[j].name => i = j
    /\ \A i, j \in DOMAIN v : v[i].path = v[j].path => i = j
    /\ \A i, j \in DOMAIN v : v[i].sync # Absent /\ v[i].sync = v[j].sync => i = j

Whole(v) == \A i \in DOMAIN v : file[v[i].path] = "vault"

Creating == {"reserve", "key", "lock", "savefile", "drop", "register"}
Saving == {"savelock", "compare", "write"}
Updating == {"updatelock", "updateload", "updatewrite"}
Reserved == {"key", "lock", "savefile"}
UnderLock == {"compare", "write", "updateload", "updatewrite"}

CommandFits(p) ==
    /\ regPc[p] # "idle" => cmd[p] \in Command
    /\ regPc[p] = "idle" => cmd[p] = NoCommand
    /\ regPc[p] \in Creating => cmd[p].op = "create"
    /\ regPc[p] = "edit" => cmd[p].op \in {"set-lock", "set-sync"}
    /\ regPc[p] \in Saving => cmd[p].op # "update"
    /\ regPc[p] \in Updating => cmd[p].op = "update"

\* v lists what b lists, and differs from it only in the names of S.
Covers(v, b, S) ==
    /\ NamesIn(b) \subseteq NamesIn(v)
    /\ \A n \in Name \ S : Get(v, n) = Get(b, n)

\* A snapshot is its baseline but for what p has edited.
SnapshotCovers(p) == Covers(snap[p].vaults, Load(snap[p].base).vaults, touched[p])

\* The path a vault create has reserved is its own, and in no snapshot of its.
FileIsOwn(p) ==
    /\ regPc[p] \in Reserved => file[cmd[p].val] = "empty"
    /\ regPc[p] = "register" =>
          /\ file[cmd[p].val] = "vault"
          /\ \A i \in DOMAIN snap[p].vaults : snap[p].vaults[i].path # cmd[p].val

\* The name it creates is not in the baseline, and in the snapshot once it is
\* registered.
NameIsNew(p) ==
    cmd[p].op = "create" =>
        /\ cmd[p].name \notin NamesIn(Load(snap[p].base).vaults)
        /\ regPc[p] \in Creating => cmd[p].name \notin NamesIn(snap[p].vaults)
        /\ regPc[p] \in Saving => cmd[p].name \in NamesIn(snap[p].vaults)

\* What p is about to write was made from what the file holds.
WriteIsCurrent(p) ==
    /\ regPc[p] = "write" => disk = snap[p].base
    /\ regPc[p] = "updatewrite" =>
          Covers(latest[p], Load(disk).vaults, {cmd[p].name})

\* What p has in memory, and where its command is.
BodiesOK(p) ==
    /\ Distinct(snap[p].vaults) /\ Whole(snap[p].vaults)
    /\ Distinct(latest[p]) /\ Whole(latest[p])
    /\ SnapshotCovers(p)

ControlOK(p) ==
    /\ CommandFits(p)
    /\ regPc[p] \in UnderLock => regLock = p
    /\ FileIsOwn(p) /\ NameIsNew(p) /\ WriteIsCurrent(p)

ProcOK(p) == BodiesOK(p) /\ ControlOK(p)

ReservedOnce ==
    \A p, q \in RegProc :
        regPc[p] \in Reserved /\ regPc[q] \in Reserved /\ cmd[p].val = cmd[q].val => p = q

CreatedIsListed ==
    \A n \in Name : created[n] <= 1 /\ (created[n] # 0 => n \in NamesIn(Load(disk).vaults))

RegInv ==
    /\ RegTypeOK
    /\ \A p \in RegProc : ProcOK(p)
    /\ Distinct(Load(disk).vaults) /\ Whole(Load(disk).vaults)
    /\ ReservedOnce /\ CreatedIsListed

(* Bodies of vaults.toml.                                                  *)

\* w lists what v does, in an order of its own (o), with e for entry i: the
\* shape of both ways of editing an entry, to the end and in place.
EditOf(v, w, i, e) ==
    /\ DOMAIN w = DOMAIN v /\ i \in DOMAIN v
    /\ \E o \in [DOMAIN v -> DOMAIN v] :
          /\ \A k, m \in DOMAIN v : o[k] = o[m] => k = m
          /\ \A m \in DOMAIN v : \E k \in DOMAIN v : o[k] = m
          /\ \A k \in DOMAIN v : w[k] = IF o[k] = i THEN e ELSE v[o[k]]

\* The updated entry has the name and path of entry i and no other's target.
Updates(v, i, e) ==
    /\ e.name = v[i].name /\ e.path = v[i].path
    /\ e.sync # Absent => \A j \in DOMAIN v : v[j].sync = e.sync => j = i

\* deregister and register move the updated entry to the end and lose none.
LEMMA ReplaceIsEdit ==
    ASSUME NEW v \in Seq(RegisteredVault), NEW i \in 1..Len(v), NEW e \in RegisteredVault
    PROVE  Replace(v, i, e) \in Seq(RegisteredVault) /\ EditOf(v, Replace(v, i, e), i, e)
<1> DEFINE r == RemoveAt(v, i)
           w == Replace(v, i, e)
           o == [k \in 1..Len(v) |-> IF k < i THEN k ELSE IF k < Len(v) THEN k + 1 ELSE i]
<1>1. Len(v) \in Nat /\ \A k \in 1..Len(v) : v[k] \in RegisteredVault
  BY LenProperties
<1>2. /\ SubSeq(v, 1, i - 1) \in Seq(RegisteredVault) /\ Len(SubSeq(v, 1, i - 1)) = i - 1
      /\ \A k \in 1..(i - 1) : SubSeq(v, 1, i - 1)[k] = v[k]
  <2>1. \A k \in 1..(i - 1) : v[k] \in RegisteredVault
    BY <1>1
  <2> QED BY <1>1, <2>1, SubSeqProperties
<1>3. /\ SubSeq(v, i + 1, Len(v)) \in Seq(RegisteredVault) /\ Len(SubSeq(v, i + 1, Len(v))) = Len(v) - i
      /\ \A k \in 1..(Len(v) - i) : SubSeq(v, i + 1, Len(v))[k] = v[i + k]
  <2>1. \A k \in (i + 1)..Len(v) : v[k] \in RegisteredVault
    BY <1>1
  <2> QED BY <1>1, <2>1, SubSeqProperties
<1>4. /\ r \in Seq(RegisteredVault) /\ Len(r) = Len(v) - 1
      /\ \A k \in 1..(Len(v) - 1) : r[k] = IF k < i THEN v[k] ELSE v[k + 1]
  <2> DEFINE s1 == SubSeq(v, 1, i - 1)
             s2 == SubSeq(v, i + 1, Len(v))
  <2>1. r = s1 \o s2
    BY DEF RemoveAt
  <2>2. /\ s1 \o s2 \in Seq(RegisteredVault) /\ Len(s1 \o s2) = Len(s1) + Len(s2)
        /\ \A k \in 1..(Len(s1) + Len(s2)) :
              (s1 \o s2)[k] = IF k <= Len(s1) THEN s1[k] ELSE s2[k - Len(s1)]
    BY <1>2, <1>3, ConcatProperties
  <2> HIDE DEF s1, s2, r
  <2>3. /\ Len(s1) = i - 1 /\ Len(s2) = Len(v) - i
        /\ \A k \in 1..(i - 1) : s1[k] = v[k]
        /\ \A k \in 1..(Len(v) - i) : s2[k] = v[i + k]
    BY <1>2, <1>3 DEF s1, s2
  <2>4. ASSUME NEW k \in 1..(Len(v) - 1)
        PROVE  r[k] = IF k < i THEN v[k] ELSE v[k + 1]
    <3>1. CASE k < i
      BY <1>1, <2>1, <2>2, <2>3, <3>1
    <3>2. CASE ~ (k < i)
      <4>1. k - Len(s1) \in 1..(Len(v) - i) /\ i + (k - Len(s1)) = k + 1
        BY <1>1, <2>3, <3>2
      <4>2. k \in 1..(Len(s1) + Len(s2)) /\ ~ (k <= Len(s1))
        BY <1>1, <2>3, <3>2
      <4>3. r[k] = s2[k - Len(s1)]
        BY <2>1, <2>2, <4>2
      <4> QED BY <2>3, <3>2, <4>1, <4>3
    <3> QED BY <3>1, <3>2
  <2> QED BY <1>1, <2>1, <2>2, <2>3, <2>4
<1>5. /\ w \in Seq(RegisteredVault) /\ Len(w) = Len(v)
      /\ \A k \in 1..Len(v) : w[k] = IF k < i THEN v[k] ELSE IF k < Len(v) THEN v[k + 1] ELSE e
  BY <1>1, <1>4, AppendProperties DEF Replace
<1>6. /\ o \in [1..Len(v) -> 1..Len(v)]
      /\ \A k, m \in 1..Len(v) : o[k] = o[m] => k = m
  BY <1>1
<1>7. \A m \in 1..Len(v) : \E k \in 1..Len(v) : o[k] = m
  <2> TAKE m \in 1..Len(v)
  <2>1. CASE m < i
    BY <1>1, <2>1
  <2>2. CASE m = i
    <3>1. o[Len(v)] = m
      BY <1>1, <2>2
    <3> QED BY <1>1, <3>1
  <2>3. CASE m > i
    <3>1. m - 1 \in 1..Len(v) /\ o[m - 1] = m
      BY <1>1, <2>3
    <3> QED BY <3>1
  <2> QED BY <1>1, <2>1, <2>2, <2>3
<1>8. \A k \in 1..Len(v) : w[k] = IF o[k] = i THEN e ELSE v[o[k]]
  BY <1>1, <1>5
<1>9. DOMAIN v = 1..Len(v) /\ DOMAIN w = 1..Len(v)
  BY <1>5, LenProperties
<1>10. EditOf(v, w, i, e)
  <2> HIDE DEF o, w
  <2>1. \E o1 \in [DOMAIN v -> DOMAIN v] :
          /\ \A k, m \in DOMAIN v : o1[k] = o1[m] => k = m
          /\ \A m \in DOMAIN v : \E k \in DOMAIN v : o1[k] = m
          /\ \A k \in DOMAIN v : w[k] = IF o1[k] = i THEN e ELSE v[o1[k]]
    <3>1. o \in [DOMAIN v -> DOMAIN v]
      BY <1>6, <1>9
    <3> WITNESS o \in [DOMAIN v -> DOMAIN v]
    <3>2. \A k, m \in DOMAIN v : o[k] = o[m] => k = m
      BY <1>6, <1>9
    <3>3. \A m \in DOMAIN v : \E k \in DOMAIN v : o[k] = m
      BY <1>7, <1>9
    <3>4. \A k \in DOMAIN v : w[k] = IF o[k] = i THEN e ELSE v[o[k]]
      BY <1>8, <1>9
    <3> QED BY <3>2, <3>3, <3>4
  <2> QED BY <1>9, <2>1 DEF EditOf
<1> QED BY <1>5, <1>10

\* An edit in place keeps the order.
LEMMA ExceptIsEdit ==
    ASSUME NEW v \in Seq(RegisteredVault), NEW i \in 1..Len(v), NEW e \in RegisteredVault
    PROVE  [v EXCEPT ![i] = e] \in Seq(RegisteredVault) /\ EditOf(v, [v EXCEPT ![i] = e], i, e)
<1> DEFINE w == [v EXCEPT ![i] = e]
           o == [k \in 1..Len(v) |-> k]
<1>1. /\ w \in Seq(RegisteredVault) /\ Len(w) = Len(v)
      /\ \A k \in 1..Len(v) : w[k] = IF k = i THEN e ELSE v[k]
  BY ExceptSeq
<1>2. DOMAIN v = 1..Len(v) /\ DOMAIN w = 1..Len(v)
  BY <1>1, LenProperties
<1>3. /\ o \in [1..Len(v) -> 1..Len(v)]
      /\ \A k \in 1..Len(v) : o[k] = k
  OBVIOUS
<1>4. EditOf(v, w, i, e)
  BY <1>1, <1>2, <1>3 DEF EditOf
<1> QED BY <1>1, <1>4

\* An edit that updates entry i keeps a body distinct and whole, its names and
\* every entry of another name.
LEMMA EditKeeps ==
    ASSUME NEW v, NEW w, NEW i, NEW e, EditOf(v, w, i, e), Updates(v, i, e)
    PROVE  /\ Distinct(v) => Distinct(w)
           /\ NamesIn(w) = NamesIn(v)
           /\ Whole(v) => Whole(w)
           /\ \A n : n # e.name => Get(w, n) = Get(v, n)
<1>1. PICK D : D = DOMAIN v /\ D = DOMAIN w /\ i \in D
  BY DEF EditOf
<1>2. PICK o \in [D -> D] :
          /\ \A k, m \in D : o[k] = o[m] => k = m
          /\ \A m \in D : \E k \in D : o[k] = m
          /\ \A k \in D : w[k] = IF o[k] = i THEN e ELSE v[o[k]]
  BY <1>1 DEF EditOf
<1>3. /\ \A k \in D : w[k].name = v[o[k]].name /\ w[k].path = v[o[k]].path
      /\ \A k \in D : w[k].sync = IF o[k] = i THEN e.sync ELSE v[o[k]].sync
  BY <1>2 DEF Updates
<1>4. ASSUME Distinct(v) PROVE Distinct(w)
  <2>1. ASSUME NEW k \in D, NEW m \in D, w[k].sync # Absent, w[k].sync = w[m].sync PROVE k = m
    <3>1. v[o[k]].sync = w[k].sync \/ o[k] = i
      BY <1>3
    <3>2. v[o[m]].sync = w[m].sync \/ o[m] = i
      BY <1>3
    <3>3. o[k] = o[m]
      BY <1>1, <1>2, <1>3, <1>4, <2>1, <3>1, <3>2 DEF Distinct, Updates
    <3> QED BY <1>2, <3>3
  <2>2. ASSUME NEW k \in D, NEW m \in D, w[k].name = w[m].name PROVE k = m
    BY <1>1, <1>2, <1>3, <1>4, <2>2 DEF Distinct
  <2>3. ASSUME NEW k \in D, NEW m \in D, w[k].path = w[m].path PROVE k = m
    BY <1>1, <1>2, <1>3, <1>4, <2>3 DEF Distinct
  <2> QED BY <1>1, <2>1, <2>2, <2>3 DEF Distinct
<1>5. NamesIn(w) = NamesIn(v)
  <2>1. NamesIn(w) = {w[k].name : k \in D} /\ NamesIn(v) = {v[k].name : k \in D}
    BY <1>1 DEF NamesIn
  <2>2. /\ \A k \in D : \E m \in D : w[k].name = v[m].name
        /\ \A m \in D : \E k \in D : w[k].name = v[m].name
    BY <1>2, <1>3
  <2>3. NamesIn(w) \subseteq NamesIn(v)
    BY <2>1, <2>2
  <2>4. NamesIn(v) \subseteq NamesIn(w)
    BY <2>1, <2>2
  <2> QED BY <2>3, <2>4
<1>6. Whole(v) => Whole(w)
  BY <1>1, <1>2, <1>3 DEF Whole
<1>7. ASSUME NEW n, n # e.name PROVE Get(w, n) = Get(v, n)
  <2>1. /\ Get(w, n) = {x \in {w[k] : k \in D} : x.name = n}
        /\ Get(v, n) = {x \in {v[k] : k \in D} : x.name = n}
    BY <1>1 DEF Get, ToSet
  <2>2. \A k \in D : w[k].name = n => \E m \in D : w[k] = v[m]
    BY <1>1, <1>2, <1>3, <1>7 DEF Updates
  <2>3. \A m \in D : v[m].name = n => \E k \in D : w[k] = v[m]
    BY <1>1, <1>2, <1>3, <1>7 DEF Updates
  <2> QED BY <2>1, <2>2, <2>3
<1> QED BY <1>4, <1>5, <1>6, <1>7

\* register of a name that is not listed, with a file no entry has and no
\* target, keeps a body distinct and every entry it has.
LEMMA AppendKeeps ==
    ASSUME NEW v \in Seq(RegisteredVault), NEW e \in RegisteredVault,
           e.name \notin NamesIn(v), \A k \in DOMAIN v : v[k].path # e.path, e.sync = Absent
    PROVE  /\ Append(v, e) \in Seq(RegisteredVault)
           /\ Distinct(v) => Distinct(Append(v, e))
           /\ NamesIn(Append(v, e)) = NamesIn(v) \cup {e.name}
           /\ Whole(v) /\ file[e.path] = "vault" => Whole(Append(v, e))
           /\ \A n : n # e.name => Get(Append(v, e), n) = Get(v, n)
<1> DEFINE w == Append(v, e)
           last == Len(v) + 1
<1>1. /\ w \in Seq(RegisteredVault) /\ Len(w) = last /\ Len(v) \in Nat
      /\ \A k \in 1..Len(v) : w[k] = v[k]
      /\ w[last] = e
  BY AppendProperties, LenProperties
<1>2. last \notin 1..Len(v) /\ 1..last = 1..Len(v) \cup {last}
  BY <1>1
<1>3. DOMAIN v = 1..Len(v) /\ DOMAIN w = 1..last
  BY <1>1, LenProperties
<1> HIDE DEF w, last
<1>4. /\ DOMAIN w = DOMAIN v \cup {last} /\ last \notin DOMAIN v
      /\ \A k \in DOMAIN v : w[k] = v[k]
  BY <1>1, <1>2, <1>3, Zenon
<1>5. ASSUME Distinct(v) PROVE Distinct(w)
  <2>1. \A k \in DOMAIN v : v[k].name # e.name
    BY DEF NamesIn
  <2> QED BY <1>1, <1>4, <1>5, <2>1 DEF Distinct
<1>6. NamesIn(w) = NamesIn(v) \cup {e.name}
  BY <1>1, <1>4 DEF NamesIn
<1>7. Whole(v) /\ file[e.path] = "vault" => Whole(w)
  BY <1>1, <1>4 DEF Whole
<1>8. ASSUME NEW n, n # e.name PROVE Get(w, n) = Get(v, n)
  BY <1>1, <1>4, <1>8 DEF Get, ToSet
<1> QED BY <1>1, <1>5, <1>6, <1>7, <1>8 DEF w

\* What load returns: nothing for a missing file, else the entries of the file.
LEMMA LoadFacts ==
    ASSUME NEW d \in Seq(RegisteredVault) \cup {NoFile}
    PROVE  /\ Load(d).base = d /\ Load(d).vaults \in Seq(RegisteredVault) /\ Load(d) \in Snapshot
           /\ d \in Seq(RegisteredVault) => Load(d).vaults = d
           /\ d = NoFile => Load(d).vaults = <<>>
<1>1. <<>> \in Seq(RegisteredVault)
  BY EmptySeq
<1>2. Load(d).vaults \in Seq(RegisteredVault)
  BY <1>1 DEF Load
<1>3. Load(d) \in Snapshot
  BY <1>2 DEF Load, Snapshot
<1> QED BY <1>2, <1>3, RegistryAssumption DEF Load

\* An empty body lists nothing twice and no file that is not whole.
LEMMA EmptyBody == Distinct(<<>>) /\ Whole(<<>>) /\ NamesIn(<<>>) = {}
<1>1. DOMAIN <<>> = {}
  OBVIOUS
<1> QED BY <1>1 DEF Distinct, Whole, NamesIn

\* A command carries a name, and a value of the kind its operation takes.
LEMMA CommandTypes ==
    ASSUME NEW c \in Command
    PROVE  /\ c.name \in Name
           /\ c.op \in {"create", "set-lock", "update", "set-sync"}
           /\ c.op = "create" => c.val \in Path
           /\ c.op \in {"set-lock", "update"} => c.val \in Timeout
           /\ c.op = "set-sync" => c.val \in Bucket
BY DEF Command

\* The types of what one process has.
LEMMA ProcessTypes ==
    ASSUME RegTypeOK, NEW p \in RegProc
    PROVE  /\ snap[p] \in Snapshot /\ snap[p].vaults \in Seq(RegisteredVault)
           /\ snap[p].base \in Seq(RegisteredVault) \cup {NoFile}
           /\ latest[p] \in Seq(RegisteredVault) /\ touched[p] \subseteq Name
           /\ regPc[p] \in RegSteps
BY DEF RegTypeOK, Snapshot

-----------------------------------------------------------------------------
(* A step of one process.                                                  *)

FilesStay == \A f \in Path : file[f] = "vault" => file'[f] = "vault"

\* What a step of p leaves alone: what the others have in memory, the files and
\* the lock they count on, and vaults.toml unless p holds its lock.
OnlyBy(p) ==
    /\ \A q \in RegProc \ {p} :
          /\ snap'[q] = snap[q] /\ latest'[q] = latest[q] /\ touched'[q] = touched[q]
          /\ regPc'[q] = regPc[q] /\ cmd'[q] = cmd[q]
          /\ regLock = q => regLock' = q
    /\ FilesStay
    /\ \A f \in Path :
          file'[f] # file[f] => file[f] = "none" \/ (regPc[p] \in Reserved /\ cmd[p].val = f)
    /\ disk' # disk => regLock = p
    /\ regPc'[p] \in Reserved =>
          /\ cmd'[p] = cmd[p] /\ regPc[p] # "idle"
          /\ regPc[p] \in Reserved \/ file[cmd[p].val] = "none"

\* A body whose files were whole still has them whole.
LEMMA WholeKeeps ==
    ASSUME NEW v \in Seq(RegisteredVault), Whole(v), FilesStay
    PROVE  \A k \in DOMAIN v : file'[v[k].path] = "vault"
<1>1. \A k \in DOMAIN v : v[k] \in RegisteredVault
  BY LenProperties
<1>2. \A k \in DOMAIN v : v[k].path \in Path
  BY <1>1 DEF RegisteredVault
<1> QED BY <1>2 DEF Whole, FilesStay

\* What a process has in memory stays right while it stays as it is.
LEMMA BodiesKeep ==
    ASSUME RegTypeOK, NEW q \in RegProc, BodiesOK(q), FilesStay,
           snap'[q] = snap[q], latest'[q] = latest[q], touched'[q] = touched[q]
    PROVE  BodiesOK(q)'
<1>1. snap[q].vaults \in Seq(RegisteredVault) /\ latest[q] \in Seq(RegisteredVault)
  BY ProcessTypes
<1>2. /\ \A k \in DOMAIN snap[q].vaults : file'[snap[q].vaults[k].path] = "vault"
      /\ \A k \in DOMAIN latest[q] : file'[latest[q][k].path] = "vault"
  BY <1>1, WholeKeeps DEF BodiesOK
<1>3. Whole(snap[q].vaults)' /\ Whole(latest[q])'
  BY <1>2 DEF Whole
<1> QED BY <1>3 DEF BodiesOK, SnapshotCovers

\* vaults.toml stays right while it stays as it is.
LEMMA DiskKeeps ==
    ASSUME RegInv, FilesStay, UNCHANGED <<disk, created>>
    PROVE  Distinct(Load(disk).vaults)' /\ Whole(Load(disk).vaults)' /\ CreatedIsListed'
<1>1. Load(disk).vaults \in Seq(RegisteredVault)
  BY LoadFacts DEF RegInv, RegTypeOK
<1>2. \A k \in DOMAIN Load(disk).vaults : file'[Load(disk).vaults[k].path] = "vault"
  BY <1>1, WholeKeeps DEF RegInv
<1>3. Whole(Load(disk).vaults)'
  BY <1>2 DEF Whole
<1> QED BY <1>3 DEF RegInv, CreatedIsListed

\* A step of p leaves every other process as the invariant has it.
LEMMA OthersKeep ==
    ASSUME RegInv, NEW p \in RegProc, NEW q \in RegProc, q # p, OnlyBy(p)
    PROVE  ProcOK(q)'
<1>1. /\ snap'[q] = snap[q] /\ latest'[q] = latest[q] /\ touched'[q] = touched[q]
      /\ regPc'[q] = regPc[q] /\ cmd'[q] = cmd[q]
      /\ regLock = q => regLock' = q
      /\ disk' # disk => regLock = p
  BY DEF OnlyBy
<1>2. ControlOK(q) /\ BodiesOK(q)
  BY DEF RegInv, ProcOK
<1>3. CommandFits(q)'
  BY <1>1, <1>2 DEF ControlOK, CommandFits
<1>4. regPc'[q] \in UnderLock => regLock' = q /\ disk' = disk
  BY <1>1, <1>2 DEF ControlOK
<1>5. BodiesOK(q)'
  BY <1>1, <1>2, BodiesKeep DEF OnlyBy, RegInv
<1>6. NameIsNew(q)'
  BY <1>1, <1>2 DEF ControlOK, NameIsNew
<1>7. WriteIsCurrent(q)'
  BY <1>1, <1>2, <1>4 DEF ControlOK, WriteIsCurrent, UnderLock
<1>8. FileIsOwn(q)'
  <2>1. ASSUME regPc[q] \in Reserved PROVE file'[cmd[q].val] = "empty"
    <3>1. cmd[q].val \in Path /\ file[cmd[q].val] = "empty"
      BY <1>2, <2>1, CommandTypes DEF ControlOK, FileIsOwn, CommandFits, Reserved, Creating
    <3>2. ~ (regPc[p] \in Reserved /\ cmd[p].val = cmd[q].val)
      BY <2>1 DEF RegInv, ReservedOnce
    <3> QED BY <3>1, <3>2 DEF OnlyBy
  <2>2. ASSUME regPc[q] = "register" PROVE file'[cmd[q].val] = "vault"
    <3>1. cmd[q].val \in Path /\ file[cmd[q].val] = "vault"
      BY <1>2, <2>2, CommandTypes DEF ControlOK, FileIsOwn, CommandFits, Creating
    <3> QED BY <3>1 DEF OnlyBy, FilesStay
  <2> QED BY <1>1, <1>2, <2>1, <2>2 DEF ControlOK, FileIsOwn
<1> QED BY <1>3, <1>4, <1>5, <1>6, <1>7, <1>8 DEF ProcOK, ControlOK

\* So a step of p keeps the invariant when it keeps what concerns p and the
\* file.
LEMMA StepKeeps ==
    ASSUME RegInv, NEW p \in RegProc, OnlyBy(p), RegTypeOK', ProcOK(p)',
           Distinct(Load(disk).vaults)', Whole(Load(disk).vaults)', CreatedIsListed'
    PROVE  RegInv'
<1>1. \A q \in RegProc : ProcOK(q)'
  BY OthersKeep
<1>2. ReservedOnce'
  <2>1. ASSUME NEW q \in RegProc, q # p, regPc'[p] \in Reserved, regPc'[q] \in Reserved
        PROVE  cmd'[p].val # cmd'[q].val
    <3>1. regPc[q] \in Reserved /\ cmd'[q] = cmd[q] /\ cmd'[p] = cmd[p]
      BY <2>1 DEF OnlyBy
    <3>2. CASE regPc[p] \in Reserved
      BY <2>1, <3>1, <3>2 DEF RegInv, ReservedOnce
    <3>3. CASE file[cmd[p].val] = "none"
      BY <3>1, <3>3 DEF RegInv, ProcOK, ControlOK, FileIsOwn
    <3> QED BY <2>1, <3>2, <3>3 DEF OnlyBy
  <2>2. ASSUME NEW q \in RegProc, NEW r \in RegProc, q # p, r # p,
               regPc'[q] \in Reserved, regPc'[r] \in Reserved, cmd'[q].val = cmd'[r].val
        PROVE  q = r
    BY <2>2 DEF OnlyBy, RegInv, ReservedOnce
  <2> QED BY <2>1, <2>2 DEF ReservedOnce
<1> QED BY <1>1, <1>2 DEF RegInv

\* What the return of p's command changes besides its locks.
LEMMA ReturnFacts ==
    ASSUME RegTypeOK, NEW p \in RegProc, Return(p)
    PROVE  /\ regPc'[p] = "idle" /\ cmd'[p] = NoCommand
           /\ \A q \in RegProc \ {p} :
                 regPc'[q] = regPc[q] /\ cmd'[q] = cmd[q] /\ (regLock = q => regLock' = q)
           /\ regPc' \in [RegProc -> RegSteps] /\ cmd' \in [RegProc -> Command \cup {NoCommand}]
           /\ regLock' \in RegProc \cup {Absent}
           /\ fileLock' \in [Path -> RegProc \cup {Absent}]
<1>1. /\ regPc' = [regPc EXCEPT ![p] = "idle"] /\ cmd' = [cmd EXCEPT ![p] = NoCommand]
      /\ regLock' = IF regLock = p THEN Absent ELSE regLock
      /\ fileLock' = [f \in Path |-> IF fileLock[f] = p THEN Absent ELSE fileLock[f]]
  BY DEF Return
<1>2. /\ regPc \in [RegProc -> RegSteps] /\ cmd \in [RegProc -> Command \cup {NoCommand}]
      /\ regLock \in RegProc \cup {Absent} /\ fileLock \in [Path -> RegProc \cup {Absent}]
      /\ "idle" \in RegSteps
  BY DEF RegTypeOK, RegSteps
<1> QED BY <1>1, <1>2

\* A process whose command has returned has nothing under way.
LEMMA IdleIsOK ==
    ASSUME NEW p \in RegProc, regPc'[p] = "idle", cmd'[p] = NoCommand, BodiesOK(p)'
    PROVE  ProcOK(p)'
BY DEF ProcOK, ControlOK, CommandFits, FileIsOwn, NameIsNew, WriteIsCurrent, NoCommand,
   Creating, Saving, Updating, Reserved, UnderLock

\* A command that returns and leaves its process's memory alone.
LEMMA ReturnKeeps ==
    ASSUME RegInv, NEW p \in RegProc, Return(p), UNCHANGED <<snap, latest, touched, created>>,
           file' \in [Path -> {"none", "empty", "vault"}], FilesStay,
           \A f \in Path : file'[f] # file[f] => regPc[p] \in Reserved /\ cmd[p].val = f,
           disk' \in Seq(RegisteredVault) \cup {NoFile}, disk' # disk => regLock = p,
           commands' \in 0..MaxCommands, regFaults' \in 0..MaxRegFaults,
           Distinct(Load(disk).vaults)', Whole(Load(disk).vaults)', CreatedIsListed'
    PROVE  RegInv'
<1>1. OnlyBy(p)
  BY ReturnFacts DEF OnlyBy, Reserved, RegInv
<1>2. RegTypeOK'
  BY ReturnFacts DEF RegInv, RegTypeOK
<1>3. ProcOK(p)'
  BY ReturnFacts, BodiesKeep, IdleIsOK DEF RegInv, ProcOK
<1> QED BY <1>1, <1>2, <1>3, StepKeeps

\* The commands that end without a change: a path or a lock somebody else has, a
\* keyfile that cannot be read, a target that is taken, a changed vaults.toml.
LEMMA QuietReturnKeeps ==
    ASSUME RegInv, NEW p \in RegProc, Return(p),
           UNCHANGED <<disk, file, snap, latest, touched, created, commands>>,
           regFaults' \in 0..MaxRegFaults
    PROVE  RegInv'
<1>1. FilesStay
  BY DEF FilesStay
<1> QED BY <1>1, DiskKeeps, ReturnKeeps DEF RegInv, RegTypeOK

\* Faults are bounded.
LEMMA FaultType ==
    ASSUME RegTypeOK, RegFault
    PROVE  regFaults' \in 0..MaxRegFaults
BY RegistryAssumption DEF RegTypeOK, RegFault

\* The steps that return at once.
LEMMA EarlyReturns ==
    ASSUME RegInv, NEW p \in RegProc, KeyfileFails(p) \/ Drop(p)
    PROVE  RegInv'
BY QuietReturnKeeps, FaultType DEF KeyfileFails, Drop, bounds, RegInv, RegTypeOK

\* vault create finds the path taken, or takes it; only a path without a file
\* is taken, so nobody else has it and no snapshot lists it.
LEMMA ReserveKeeps ==
    ASSUME RegInv, NEW p \in RegProc, Reserve(p)
    PROVE  RegInv'
<1>1. CASE file[cmd[p].val] = "none"
  <2>1. /\ regPc[p] = "reserve" /\ regPc' = [regPc EXCEPT ![p] = "key"]
        /\ file' = [file EXCEPT ![cmd[p].val] = "empty"]
        /\ UNCHANGED <<disk, regLock, fileLock, snap, latest, cmd, touched, created, bounds>>
    BY <1>1 DEF Reserve, RegGoto
  <2>2. ProcOK(p) /\ cmd[p] \in Command /\ cmd[p].op = "create" /\ cmd[p].val \in Path
    BY <2>1, CommandTypes DEF RegInv, ProcOK, ControlOK, CommandFits, Creating
  <2>3. RegTypeOK'
    BY <2>1, <2>2 DEF RegInv, RegTypeOK, RegSteps, bounds
  <2>4. /\ FilesStay /\ file'[cmd[p].val] = "empty"
        /\ \A f \in Path : file'[f] # file[f] => file[f] = "none"
    BY <1>1, <2>1, <2>2 DEF FilesStay, RegInv, RegTypeOK
  <2>5. regPc'[p] = "key" /\ \A q \in RegProc \ {p} : regPc'[q] = regPc[q]
    BY <2>1 DEF RegInv, RegTypeOK
  <2>6. OnlyBy(p)
    BY <1>1, <2>1, <2>4, <2>5 DEF OnlyBy
  <2>7. BodiesOK(p)'
    BY <2>1, <2>2, <2>4, BodiesKeep DEF ProcOK, RegInv
  <2>8. ControlOK(p)'
    BY <2>1, <2>2, <2>4, <2>5 DEF ProcOK, ControlOK, CommandFits, FileIsOwn, NameIsNew,
       WriteIsCurrent, Creating, Saving, Updating, Reserved, UnderLock
  <2> QED BY <2>1, <2>3, <2>4, <2>6, <2>7, <2>8, DiskKeeps, StepKeeps DEF ProcOK
<1>2. CASE file[cmd[p].val] # "none"
  BY <1>2, QuietReturnKeeps DEF Reserve, bounds, RegInv, RegTypeOK
<1> QED BY <1>1, <1>2

\* A step that moves p's command on and leaves its memory and vaults.toml alone.
LEMMA AdvanceKeeps ==
    ASSUME RegInv, NEW p \in RegProc, NEW step \in RegSteps, RegGoto(p, step),
           UNCHANGED <<disk, snap, latest, cmd, touched, created>>,
           commands' \in 0..MaxCommands, regFaults' \in 0..MaxRegFaults,
           regLock' \in RegProc \cup {Absent}, fileLock' \in [Path -> RegProc \cup {Absent}],
           file' \in [Path -> {"none", "empty", "vault"}], FilesStay,
           \A f \in Path : file'[f] # file[f] => regPc[p] \in Reserved /\ cmd[p].val = f,
           regLock' # regLock => regLock = Absent,
           step \in Reserved => regPc[p] \in Reserved,
           regPc'[p] = step => ControlOK(p)'
    PROVE  RegInv'
<1>1. /\ regPc' \in [RegProc -> RegSteps] /\ regPc'[p] = step
      /\ \A q \in RegProc \ {p} : regPc'[q] = regPc[q]
  BY DEF RegGoto, RegInv, RegTypeOK
<1>2. RegTypeOK'
  BY <1>1 DEF RegInv, RegTypeOK
<1>3. regPc[p] \in Reserved => regPc[p] # "idle"
  BY DEF Reserved
<1>4. Absent \notin RegProc
  BY RegistryAssumption DEF RegProc
<1>5. OnlyBy(p)
  BY <1>1, <1>3, <1>4 DEF OnlyBy
<1>6. ProcOK(p)'
  BY <1>1, BodiesKeep DEF ProcOK, RegInv
<1> QED BY <1>2, <1>5, <1>6, DiskKeeps, StepKeeps

\* What the invariant says of a process in the middle of a command.
LEMMA RunningFacts ==
    ASSUME RegInv, NEW p \in RegProc, regPc[p] # "idle"
    PROVE  /\ BodiesOK(p) /\ ControlOK(p) /\ cmd[p] \in Command /\ cmd[p].name \in Name
           /\ regPc[p] \in Creating => cmd[p].op = "create" /\ cmd[p].val \in Path
<1>1. BodiesOK(p) /\ ControlOK(p)
  BY DEF RegInv, ProcOK
<1> QED BY <1>1, CommandTypes DEF ControlOK, CommandFits

\* The composite key is built.
LEMMA BuildKeyKeeps ==
    ASSUME RegInv, NEW p \in RegProc, BuildKey(p)
    PROVE  RegInv'
<1>1. /\ regPc[p] = "key" /\ RegGoto(p, "lock") /\ "lock" \in RegSteps
      /\ UNCHANGED <<disk, regLock, file, fileLock, snap, cmd, latest, touched, created, commands, regFaults>>
  BY DEF BuildKey, files, bounds, RegSteps
<1>2. regPc'[p] = "lock" => ControlOK(p)'
  BY <1>1, RunningFacts DEF ControlOK, CommandFits, FileIsOwn, NameIsNew,
     WriteIsCurrent, Creating, Saving, Updating, Reserved, UnderLock
<1> QED BY <1>1, <1>2, AdvanceKeeps DEF RegInv, RegTypeOK, FilesStay, Reserved

\* The vault's lock: granted, or the reserved file is removed again.
LEMMA LockFileKeeps ==
    ASSUME RegInv, NEW p \in RegProc, LockFile(p)
    PROVE  RegInv'
<1>1. /\ regPc[p] = "lock" /\ "lock" \in Reserved /\ "lock" \in Creating
      /\ UNCHANGED <<disk, snap, latest, touched, created, commands, regFaults>>
  BY DEF LockFile, bounds, Reserved, Creating
<1>2. /\ cmd[p].val \in Path /\ cmd[p].op = "create" /\ cmd[p] \in Command
      /\ ControlOK(p) /\ file[cmd[p].val] = "empty"
  BY <1>1, RunningFacts DEF ControlOK, FileIsOwn
<1>3. CASE fileLock[cmd[p].val] = Absent
  <2>1. /\ fileLock' = [fileLock EXCEPT ![cmd[p].val] = p] /\ UNCHANGED <<file, regLock, cmd>>
        /\ RegGoto(p, "savefile") /\ "savefile" \in RegSteps
    BY <1>3 DEF LockFile, RegSteps
  <2>2. regPc'[p] = "savefile" => ControlOK(p)'
    BY <1>1, <1>2, <2>1 DEF ControlOK, CommandFits, FileIsOwn, NameIsNew,
       WriteIsCurrent, Creating, Saving, Updating, Reserved, UnderLock
  <2> QED BY <1>1, <1>2, <2>1, <2>2, AdvanceKeeps DEF RegInv, RegTypeOK, FilesStay
<1>4. CASE fileLock[cmd[p].val] # Absent
  <2>1. file' = [file EXCEPT ![cmd[p].val] = "none"] /\ Return(p)
    BY <1>4 DEF LockFile
  <2>2. /\ file' \in [Path -> {"none", "empty", "vault"}] /\ FilesStay
        /\ \A f \in Path : file'[f] # file[f] => cmd[p].val = f
    BY <1>2, <2>1 DEF RegInv, RegTypeOK, FilesStay
  <2> QED BY <1>1, <2>1, <2>2, DiskKeeps, ReturnKeeps DEF RegInv, RegTypeOK
<1> QED BY <1>3, <1>4

\* save_database into the reserved file: from now on the file is whole, and no
\* entry of the snapshot has its path, for theirs were whole before.
LEMMA SaveFileKeeps ==
    ASSUME RegInv, NEW p \in RegProc, SaveFile(p)
    PROVE  RegInv'
<1>1. /\ regPc[p] = "savefile" /\ "savefile" \in Reserved /\ "savefile" \in Creating
      /\ file' = [file EXCEPT ![cmd[p].val] = "vault"]
      /\ RegGoto(p, "register") /\ "register" \in RegSteps /\ "register" \notin Reserved
      /\ UNCHANGED <<disk, regLock, fileLock, snap, cmd, latest, touched, created, commands, regFaults>>
  BY DEF SaveFile, bounds, Reserved, Creating, RegSteps
<1>2. /\ cmd[p].val \in Path /\ cmd[p].op = "create" /\ cmd[p] \in Command
      /\ ControlOK(p) /\ BodiesOK(p) /\ file[cmd[p].val] = "empty"
  BY <1>1, RunningFacts DEF ControlOK, FileIsOwn
<1>3. /\ file' \in [Path -> {"none", "empty", "vault"}] /\ FilesStay
      /\ file'[cmd[p].val] = "vault"
      /\ \A f \in Path : file'[f] # file[f] => regPc[p] \in Reserved /\ cmd[p].val = f
  BY <1>1, <1>2 DEF RegInv, RegTypeOK, FilesStay
<1>4. \A i \in DOMAIN snap[p].vaults : snap[p].vaults[i].path # cmd[p].val
  BY <1>2 DEF BodiesOK, Whole
<1>5. regPc'[p] = "register" => ControlOK(p)'
  BY <1>1, <1>2, <1>3, <1>4 DEF ControlOK, CommandFits, FileIsOwn, NameIsNew,
     WriteIsCurrent, Creating, Saving, Updating, Reserved, UnderLock
<1>6. /\ commands' \in 0..MaxCommands /\ regFaults' \in 0..MaxRegFaults
      /\ regLock' \in RegProc \cup {Absent} /\ fileLock' \in [Path -> RegProc \cup {Absent}]
      /\ regLock' # regLock => regLock = Absent
  BY <1>1 DEF RegInv, RegTypeOK
<1> QED BY <1>1, <1>3, <1>5, <1>6, AdvanceKeeps

\* save_database fails: the file is removed.
LEMMA SaveFileFailsKeeps ==
    ASSUME RegInv, NEW p \in RegProc, SaveFileFails(p)
    PROVE  RegInv'
<1>1. /\ regPc[p] = "savefile" /\ "savefile" \in Reserved /\ "savefile" \in Creating
      /\ file' = [file EXCEPT ![cmd[p].val] = "none"]
      /\ RegGoto(p, "drop") /\ "drop" \in RegSteps /\ "drop" \notin Reserved
      /\ UNCHANGED <<disk, regLock, fileLock, snap, cmd, latest, touched, created, commands>>
  BY DEF SaveFileFails, Reserved, Creating, RegSteps
<1>2. /\ cmd[p].val \in Path /\ cmd[p].op = "create" /\ cmd[p] \in Command
      /\ ControlOK(p) /\ file[cmd[p].val] = "empty"
  BY <1>1, RunningFacts DEF ControlOK, FileIsOwn
<1>3. /\ file' \in [Path -> {"none", "empty", "vault"}] /\ FilesStay
      /\ \A f \in Path : file'[f] # file[f] => regPc[p] \in Reserved /\ cmd[p].val = f
  BY <1>1, <1>2 DEF RegInv, RegTypeOK, FilesStay
<1>4. regPc'[p] = "drop" => ControlOK(p)'
  BY <1>1, <1>2 DEF ControlOK, CommandFits, FileIsOwn, NameIsNew,
     WriteIsCurrent, Creating, Saving, Updating, Reserved, UnderLock
<1>5. regFaults' \in 0..MaxRegFaults
  BY FaultType DEF SaveFileFails, RegInv
<1>6. /\ commands' \in 0..MaxCommands
      /\ regLock' \in RegProc \cup {Absent} /\ fileLock' \in [Path -> RegProc \cup {Absent}]
      /\ regLock' # regLock => regLock = Absent
  BY <1>1 DEF RegInv, RegTypeOK
<1> QED BY <1>1, <1>3, <1>4, <1>5, <1>6, AdvanceKeeps

\* The lock of vaults.toml, for a save or an update.
LEMMA RegistryLockKeeps ==
    ASSUME RegInv, NEW p \in RegProc, SaveLock(p) \/ UpdateLock(p)
    PROVE  RegInv'
<1>1. UNCHANGED <<disk, file, snap, latest, touched, created, commands, regFaults>>
  BY DEF SaveLock, UpdateLock, bounds
<1>2. CASE regLock = Absent
  <2>1. PICK step \in {"compare", "updateload"} :
          /\ RegGoto(p, step) /\ regLock' = p /\ UNCHANGED <<fileLock, cmd>>
          /\ step = "compare" => regPc[p] = "savelock"
          /\ step = "updateload" => regPc[p] = "updatelock"
    BY <1>2 DEF SaveLock, UpdateLock
  <2>2. step \in RegSteps /\ step \notin Reserved /\ regPc[p] # "idle"
    BY <2>1 DEF RegSteps, Reserved
  <2>3. regPc'[p] = step => ControlOK(p)'
    BY <1>1, <2>1, <2>2, RunningFacts DEF ControlOK, CommandFits, FileIsOwn, NameIsNew,
       WriteIsCurrent, Creating, Saving, Updating, Reserved, UnderLock
  <2>4. /\ commands' \in 0..MaxCommands /\ regFaults' \in 0..MaxRegFaults /\ FilesStay
        /\ file' \in [Path -> {"none", "empty", "vault"}]
        /\ regLock' \in RegProc \cup {Absent} /\ fileLock' \in [Path -> RegProc \cup {Absent}]
        /\ \A f \in Path : file'[f] # file[f] => regPc[p] \in Reserved /\ cmd[p].val = f
    BY <1>1, <2>1 DEF RegInv, RegTypeOK, FilesStay
  <2>5. UNCHANGED <<disk, snap, latest, cmd, touched, created>>
    BY <1>1, <2>1
  <2> QED BY <1>2, <2>1, <2>2, <2>3, <2>4, <2>5, AdvanceKeeps
<1>3. CASE regLock # Absent
  <2>1. Return(p)
    BY <1>3 DEF SaveLock, UpdateLock
  <2> QED BY <1>1, <2>1, QuietReturnKeeps DEF RegInv, RegTypeOK
<1> QED BY <1>2, <1>3

\* The bytes of vaults.toml are compared with the baseline.
LEMMA CompareKeeps ==
    ASSUME RegInv, NEW p \in RegProc, Compare(p)
    PROVE  RegInv'
<1>1. regPc[p] = "compare" /\ UNCHANGED <<disk, file, snap, latest, touched, created, commands, regFaults>>
  BY DEF Compare, bounds
<1>2. CASE disk = snap[p].base
  <2>1. RegGoto(p, "write") /\ UNCHANGED <<regLock, fileLock, cmd>>
    BY <1>2 DEF Compare
  <2>2. "write" \in RegSteps /\ "write" \notin Reserved
    BY DEF RegSteps, Reserved
  <2>3. regPc'[p] = "write" => ControlOK(p)'
    BY <1>1, <1>2, <2>1, RunningFacts DEF ControlOK, CommandFits, FileIsOwn, NameIsNew,
       WriteIsCurrent, Creating, Saving, Updating, Reserved, UnderLock
  <2>4. /\ commands' \in 0..MaxCommands /\ regFaults' \in 0..MaxRegFaults /\ FilesStay
        /\ file' \in [Path -> {"none", "empty", "vault"}]
        /\ regLock' \in RegProc \cup {Absent} /\ fileLock' \in [Path -> RegProc \cup {Absent}]
        /\ \A f \in Path : file'[f] # file[f] => regPc[p] \in Reserved /\ cmd[p].val = f
    BY <1>1, <2>1 DEF RegInv, RegTypeOK, FilesStay
  <2>5. UNCHANGED <<disk, snap, latest, cmd, touched, created>>
    BY <1>1, <2>1
  <2>6. regLock' # regLock => regLock = Absent
    BY <2>1
  <2> QED BY <2>1, <2>2, <2>3, <2>4, <2>5, <2>6, AdvanceKeeps
<1>3. CASE disk # snap[p].base
  <2>1. Return(p)
    BY <1>3 DEF Compare
  <2> QED BY <1>1, <2>1, QuietReturnKeeps DEF RegInv, RegTypeOK
<1> QED BY <1>2, <1>3

-----------------------------------------------------------------------------
(* Steps that load or edit a registry.                                     *)

\* A snapshot that was just loaded is its baseline.
LEMMA FreshSnapshot ==
    ASSUME RegTypeOK, NEW p \in RegProc, BodiesOK(p), UNCHANGED file,
           NEW d \in Seq(RegisteredVault) \cup {NoFile}, Distinct(Load(d).vaults), Whole(Load(d).vaults),
           snap'[p] = Load(d), latest'[p] = latest[p], touched'[p] = {}
    PROVE  BodiesOK(p)'
<1>1. Load(d).base = d
  BY LoadFacts
<1>2. Covers(Load(d).vaults, Load(d).vaults, {})
  BY DEF Covers
<1>3. Whole(snap[p].vaults)' /\ Whole(latest[p])'
  BY DEF BodiesOK, Whole
<1> QED BY <1>1, <1>2, <1>3 DEF BodiesOK, SnapshotCovers

\* A CLI command loads the registry.
LEMMA StartCliKeeps ==
    ASSUME RegInv, NEW p \in RegProc, NEW c \in Command, StartCli(p, c)
    PROVE  RegInv'
<1> DEFINE step == IF c.op = "create" THEN "reserve" ELSE "edit"
<1>1. /\ regPc[p] = "idle" /\ c.op # "update"
      /\ snap' = [snap EXCEPT ![p] = Load(disk)] /\ touched' = [touched EXCEPT ![p] = {}]
      /\ c.op = "create" => Get(Load(disk).vaults, c.name) = {}
      /\ cmd' = [cmd EXCEPT ![p] = c] /\ regPc' = [regPc EXCEPT ![p] = step]
      /\ commands < MaxCommands /\ commands' = commands + 1
      /\ UNCHANGED <<disk, regLock, file, fileLock, latest, created, regFaults>>
  BY DEF StartCli, RegGoto, files
<1>2. step \in RegSteps \ Reserved /\ step \in {"reserve", "edit"}
  BY DEF RegSteps, Reserved
<1>3. disk \in Seq(RegisteredVault) \cup {NoFile} /\ Load(disk) \in Snapshot
  BY LoadFacts DEF RegInv, RegTypeOK
<1>4. RegTypeOK'
  BY <1>1, <1>2, <1>3, RegistryAssumption DEF RegInv, RegTypeOK
<1>5. /\ snap'[p] = Load(disk) /\ touched'[p] = {} /\ latest'[p] = latest[p]
      /\ cmd'[p] = c /\ regPc'[p] = step
  BY <1>1 DEF RegInv, RegTypeOK
<1>6. FilesStay
  BY <1>1 DEF FilesStay
<1>7. OnlyBy(p)
  BY <1>1, <1>2, <1>5, <1>6 DEF OnlyBy, RegInv, RegTypeOK
<1>8. BodiesOK(p)'
  BY <1>1, <1>3, <1>5, FreshSnapshot DEF RegInv, ProcOK
<1>9. ControlOK(p)'
  <2>1. c.op = "create" => c.name \notin NamesIn(Load(disk).vaults)
    BY <1>1 DEF Get, ToSet, NamesIn
  <2>2. Load(disk).base = disk
    BY <1>3, LoadFacts
  <2>3. NameIsNew(p)'
    BY <1>2, <1>5, <2>1, <2>2 DEF NameIsNew, Creating, Saving
  <2> QED
    BY <1>1, <1>2, <1>5, <2>3, CommandTypes
    DEF ControlOK, CommandFits, FileIsOwn, WriteIsCurrent, Creating, Saving, Updating, Reserved, UnderLock
<1> QED BY <1>1, <1>4, <1>6, <1>7, <1>8, <1>9, DiskKeeps, StepKeeps DEF ProcOK

\* A TUI session is launched, or a command is killed, and starts from a registry
\* of its own.
LEMMA LaunchKeeps ==
    ASSUME RegInv, NEW p \in RegProc, Launch(p)
    PROVE  RegInv'
<1>1. /\ regPc[p] = "idle" /\ snap' = [snap EXCEPT ![p] = Load(disk)]
      /\ touched' = [touched EXCEPT ![p] = {}]
      /\ commands < MaxCommands /\ commands' = commands + 1
      /\ UNCHANGED <<disk, regLock, file, fileLock, regPc, cmd, latest, created, regFaults>>
  BY DEF Launch, files
<1>2. disk \in Seq(RegisteredVault) \cup {NoFile} /\ Load(disk) \in Snapshot
  BY LoadFacts DEF RegInv, RegTypeOK
<1>3. RegTypeOK'
  BY <1>1, <1>2, RegistryAssumption DEF RegInv, RegTypeOK
<1>4. snap'[p] = Load(disk) /\ touched'[p] = {} /\ latest'[p] = latest[p] /\ cmd[p] = NoCommand
  BY <1>1 DEF RegInv, RegTypeOK, ProcOK, ControlOK, CommandFits
<1>5. FilesStay
  BY <1>1 DEF FilesStay
<1>6. OnlyBy(p)
  BY <1>1, <1>4, <1>5 DEF OnlyBy, RegInv, RegTypeOK, Reserved
<1>7. BodiesOK(p)'
  BY <1>1, <1>2, <1>4, FreshSnapshot DEF RegInv, ProcOK
<1>8. ProcOK(p)'
  BY <1>1, <1>4, <1>7, IdleIsOK
<1> QED BY <1>1, <1>3, <1>5, <1>6, <1>8, DiskKeeps, StepKeeps

\* A killed process has nothing in memory.
LEMMA KillKeeps ==
    ASSUME RegInv, NEW p \in RegProc, KillCommand(p)
    PROVE  RegInv'
<1>1. /\ Return(p) /\ snap' = [snap EXCEPT ![p] = Load(NoFile)]
      /\ touched' = [touched EXCEPT ![p] = {}]
      /\ UNCHANGED <<disk, file, latest, created, commands>>
      /\ regFaults' \in 0..MaxRegFaults
  BY FaultType DEF KillCommand, RegInv
<1>2. Load(NoFile) \in Snapshot /\ Load(NoFile).vaults = <<>>
  BY LoadFacts
<1>3. RegTypeOK'
  BY <1>1, <1>2, ReturnFacts DEF RegInv, RegTypeOK
<1>4. snap'[p] = Load(NoFile) /\ touched'[p] = {} /\ latest'[p] = latest[p]
  BY <1>1 DEF RegInv, RegTypeOK
<1>5. FilesStay
  BY <1>1 DEF FilesStay
<1>6. OnlyBy(p)
  BY <1>1, <1>5, ReturnFacts DEF OnlyBy, RegInv, RegTypeOK, Reserved
<1>7. BodiesOK(p)'
  BY <1>1, <1>2, <1>4, EmptyBody, FreshSnapshot DEF RegInv, ProcOK
<1>8. ProcOK(p)'
  BY <1>1, <1>7, ReturnFacts, IdleIsOK DEF RegInv
<1> QED BY <1>1, <1>3, <1>5, <1>6, <1>8, DiskKeeps, StepKeeps

\* A command of a TUI session works on the snapshot the session has.
LEMMA StartTuiKeeps ==
    ASSUME RegInv, NEW p \in RegProc, NEW c \in Command, StartTui(p, c)
    PROVE  RegInv'
<1> DEFINE step == IF c.op = "update" THEN "updatelock" ELSE "edit"
<1>1. /\ regPc[p] = "idle" /\ c.op \in {"set-sync", "update"}
      /\ cmd' = [cmd EXCEPT ![p] = c] /\ regPc' = [regPc EXCEPT ![p] = step]
      /\ commands < MaxCommands /\ commands' = commands + 1
      /\ UNCHANGED <<disk, regLock, file, fileLock, snap, latest, touched, created, regFaults>>
  BY DEF StartTui, RegGoto, files
<1>2. step \in RegSteps \ Reserved /\ step \in {"updatelock", "edit"}
  BY DEF RegSteps, Reserved
<1>3. RegTypeOK'
  BY <1>1, <1>2, RegistryAssumption DEF RegInv, RegTypeOK
<1>4. cmd'[p] = c /\ regPc'[p] = step
  BY <1>1 DEF RegInv, RegTypeOK
<1>5. FilesStay
  BY <1>1 DEF FilesStay
<1>6. OnlyBy(p)
  BY <1>1, <1>2, <1>4, <1>5 DEF OnlyBy, RegInv, RegTypeOK
<1>7. BodiesOK(p)'
  BY <1>1, <1>5, BodiesKeep DEF RegInv, ProcOK
<1>8. ControlOK(p)'
  BY <1>1, <1>2, <1>4
  DEF ControlOK, CommandFits, FileIsOwn, NameIsNew, WriteIsCurrent, Creating, Saving,
      Updating, Reserved, UnderLock
<1> QED BY <1>1, <1>3, <1>5, <1>6, <1>7, <1>8, DiskKeeps, StepKeeps DEF ProcOK

\* A snapshot in which one name has been edited, or added, is still covered.
LEMMA EditedSnapshot ==
    ASSUME RegTypeOK, NEW p \in RegProc, BodiesOK(p), UNCHANGED <<file, latest>>,
           NEW w \in Seq(RegisteredVault), NEW n \in Name, EditSnapshot(p, n, w), Distinct(w), Whole(w),
           NamesIn(snap[p].vaults) \subseteq NamesIn(w),
           \A m \in Name : m # n => Get(w, m) = Get(snap[p].vaults, m)
    PROVE  /\ BodiesOK(p)'
           /\ snap' \in [RegProc -> Snapshot] /\ touched' \in [RegProc -> SUBSET Name]
           /\ snap'[p].vaults = w /\ snap'[p].base = snap[p].base
           /\ \A q \in RegProc \ {p} : snap'[q] = snap[q] /\ touched'[q] = touched[q]
<1>1. /\ snap \in [RegProc -> Snapshot] /\ touched \in [RegProc -> SUBSET Name]
      /\ snap' = [snap EXCEPT ![p].vaults = w]
      /\ touched' = [touched EXCEPT ![p] = @ \cup {n}]
  BY DEF EditSnapshot, RegTypeOK
<1>2. [snap[p] EXCEPT !.vaults = w] = [vaults |-> w, base |-> snap[p].base]
  BY <1>1 DEF Snapshot
<1>3. [vaults |-> w, base |-> snap[p].base] \in Snapshot
  BY <1>1 DEF Snapshot
<1>4. snap' = [snap EXCEPT ![p] = [vaults |-> w, base |-> snap[p].base]]
  BY <1>1, <1>2
<1>5. /\ snap' \in [RegProc -> Snapshot] /\ snap'[p] = [vaults |-> w, base |-> snap[p].base]
      /\ \A q \in RegProc \ {p} : snap'[q] = snap[q]
  BY <1>1, <1>3, <1>4
<1>6. /\ touched' \in [RegProc -> SUBSET Name] /\ touched'[p] = touched[p] \cup {n}
      /\ \A q \in RegProc \ {p} : touched'[q] = touched[q]
  BY <1>1
<1>7. Covers(w, Load(snap[p].base).vaults, touched[p] \cup {n})
  BY DEF BodiesOK, SnapshotCovers, Covers
<1>8. SnapshotCovers(p)'
  BY <1>5, <1>6, <1>7 DEF SnapshotCovers
<1>9. Whole(snap[p].vaults)' /\ Whole(latest[p])'
  BY <1>5 DEF BodiesOK, Whole
<1> QED BY <1>5, <1>6, <1>8, <1>9 DEF BodiesOK

\* register of a vault that was created: its name is new, its file is whole and
\* no entry has it.
LEMMA RegisterKeeps ==
    ASSUME RegInv, NEW p \in RegProc, Register(p)
    PROVE  RegInv'
<1> DEFINE e == [name |-> cmd[p].name, path |-> cmd[p].val, lock |-> Absent, sync |-> Absent]
           v == snap[p].vaults
           w == Append(v, e)
<1>1. /\ regPc[p] = "register" /\ EditSnapshot(p, cmd[p].name, w)
      /\ regPc' = [regPc EXCEPT ![p] = "savelock"]
      /\ UNCHANGED <<disk, regLock, file, fileLock, cmd, latest, created, commands, regFaults>>
  BY DEF Register, RegGoto, files, bounds
<1>2. /\ BodiesOK(p) /\ ControlOK(p) /\ cmd[p] \in Command /\ cmd[p].name \in Name
      /\ cmd[p].op = "create" /\ cmd[p].val \in Path
  BY <1>1, RunningFacts DEF Creating
<1>3. e \in RegisteredVault /\ e.name = cmd[p].name /\ e.path = cmd[p].val /\ e.sync = Absent
  BY <1>2 DEF RegisteredVault
<1>4. /\ v \in Seq(RegisteredVault) /\ Distinct(v) /\ Whole(v)
      /\ cmd[p].name \notin NamesIn(v)
      /\ \A k \in DOMAIN v : v[k].path # cmd[p].val
      /\ file[cmd[p].val] = "vault"
  BY <1>1, <1>2, ProcessTypes
  DEF RegInv, BodiesOK, ControlOK, NameIsNew, FileIsOwn, Creating
<1> HIDE DEF e, v
<1>5. /\ w \in Seq(RegisteredVault) /\ Distinct(w) /\ Whole(w)
      /\ NamesIn(w) = NamesIn(v) \cup {cmd[p].name}
      /\ \A m \in Name : m # cmd[p].name => Get(w, m) = Get(v, m)
  BY <1>3, <1>4, AppendKeeps
<1> HIDE DEF w
<1>6. /\ BodiesOK(p)' /\ snap' \in [RegProc -> Snapshot] /\ touched' \in [RegProc -> SUBSET Name]
      /\ snap'[p].vaults = w /\ snap'[p].base = snap[p].base
      /\ \A q \in RegProc \ {p} : snap'[q] = snap[q] /\ touched'[q] = touched[q]
  BY <1>1, <1>2, <1>5, EditedSnapshot DEF RegInv, v
<1>7. /\ regPc' \in [RegProc -> RegSteps] /\ regPc'[p] = "savelock"
      /\ \A q \in RegProc \ {p} : regPc'[q] = regPc[q]
  BY <1>1 DEF RegInv, RegTypeOK, RegSteps
<1>8. RegTypeOK'
  BY <1>1, <1>6, <1>7 DEF RegInv, RegTypeOK
<1>9. FilesStay
  BY <1>1 DEF FilesStay
<1>10. OnlyBy(p)
  BY <1>1, <1>6, <1>7, <1>9 DEF OnlyBy, Reserved
<1>11. cmd[p].name \in NamesIn(w)
  BY <1>5
<1>12. ControlOK(p)'
  BY <1>1, <1>2, <1>6, <1>7, <1>11
  DEF ControlOK, CommandFits, FileIsOwn, NameIsNew, WriteIsCurrent, Creating, Saving,
      Updating, Reserved, UnderLock
<1> QED BY <1>1, <1>6, <1>8, <1>9, <1>10, <1>12, DiskKeeps, StepKeeps DEF ProcOK

\* The entry set-lock or set-sync puts in place of entry i: its own name and path,
\* and the target it had or one that no other entry has.
LEMMA EditedEntry ==
    ASSUME NEW v \in Seq(RegisteredVault), Distinct(v), NEW i \in 1..Len(v), NEW c \in Command,
           v[i].name = c.name,
           c.op = "set-lock" \/ (c.op = "set-sync" /\ ~ DuplicateTarget(v, c.name, c.val)),
           NEW e, e = IF c.op = "set-lock" THEN [v[i] EXCEPT !.lock = c.val]
                                           ELSE [v[i] EXCEPT !.sync = c.val]
    PROVE  e \in RegisteredVault /\ e.name = c.name /\ Updates(v, i, e)
<1>1. v[i] \in RegisteredVault
  BY LenProperties
<1>2. i \in DOMAIN v
  BY LenProperties
<1>3. CASE c.op = "set-lock"
  <2>1. c.val \in Timeout
    BY <1>3, CommandTypes
  <2>2. e = [name |-> v[i].name, path |-> v[i].path, lock |-> c.val, sync |-> v[i].sync]
    BY <1>1, <1>3 DEF RegisteredVault
  <2>3. e \in RegisteredVault
    BY <1>1, <2>1, <2>2 DEF RegisteredVault
  <2>4. \A j \in DOMAIN v : v[i].sync # Absent /\ v[j].sync = v[i].sync => j = i
    BY <1>2 DEF Distinct
  <2> QED BY <2>2, <2>3, <2>4 DEF Updates
<1>4. CASE c.op = "set-sync"
  <2>1. c.val \in Bucket /\ ~ DuplicateTarget(v, c.name, c.val)
    BY <1>4, CommandTypes
  <2>2. e = [name |-> v[i].name, path |-> v[i].path, lock |-> v[i].lock, sync |-> c.val]
    BY <1>1, <1>4 DEF RegisteredVault
  <2>3. e \in RegisteredVault
    BY <1>1, <2>1, <2>2 DEF RegisteredVault
  <2>4. \A j \in DOMAIN v : v[j].sync = c.val => v[j].name = c.name
    BY <2>1 DEF DuplicateTarget, ToSet
  <2>5. \A j \in DOMAIN v : v[j].sync = c.val => j = i
    BY <1>2, <2>4 DEF Distinct
  <2> QED BY <2>2, <2>3, <2>5 DEF Updates
<1> QED BY <1>3, <1>4

\* set-lock and configure_remote edit one entry of the snapshot, or refuse.
LEMMA EditStepKeeps ==
    ASSUME RegInv, NEW p \in RegProc, EditRow(p)
    PROVE  RegInv'
<1> DEFINE v == snap[p].vaults
<1>1. /\ regPc[p] = "edit"
      /\ UNCHANGED <<disk, file, latest, created, commands, regFaults>>
  BY DEF EditRow, bounds
<1>2. /\ BodiesOK(p) /\ ControlOK(p) /\ cmd[p] \in Command /\ cmd[p].name \in Name
      /\ cmd[p].op \in {"set-lock", "set-sync"}
  BY <1>1, RunningFacts DEF ControlOK, CommandFits
<1>3. v \in Seq(RegisteredVault) /\ Distinct(v) /\ Whole(v)
  BY <1>2, ProcessTypes DEF RegInv, BodiesOK
<1>4. PICK i \in PositionOf(v, cmd[p].name) :
        IF cmd[p].op = "set-sync" /\ DuplicateTarget(v, cmd[p].name, cmd[p].val)
        THEN Return(p) /\ UNCHANGED <<snap, touched>>
        ELSE /\ EditSnapshot(p, cmd[p].name, Replace(v, i,
                   IF cmd[p].op = "set-lock" THEN [v[i] EXCEPT !.lock = cmd[p].val]
                                             ELSE [v[i] EXCEPT !.sync = cmd[p].val]))
             /\ RegGoto(p, "savelock") /\ UNCHANGED <<regLock, fileLock, cmd>>
  BY DEF EditRow
<1>5. i \in 1..Len(v) /\ v[i].name = cmd[p].name
  BY <1>4 DEF PositionOf
<1>6. CASE cmd[p].op = "set-sync" /\ DuplicateTarget(v, cmd[p].name, cmd[p].val)
  BY <1>1, <1>4, <1>6, QuietReturnKeeps DEF RegInv, RegTypeOK
<1>7. CASE ~ (cmd[p].op = "set-sync" /\ DuplicateTarget(v, cmd[p].name, cmd[p].val))
  <2> DEFINE e == IF cmd[p].op = "set-lock" THEN [v[i] EXCEPT !.lock = cmd[p].val]
                                            ELSE [v[i] EXCEPT !.sync = cmd[p].val]
             w == Replace(v, i, e)
  <2>1. e \in RegisteredVault /\ e.name = cmd[p].name /\ Updates(v, i, e)
    BY <1>2, <1>3, <1>5, <1>7, EditedEntry
  <2>2. /\ EditSnapshot(p, cmd[p].name, w) /\ regPc' = [regPc EXCEPT ![p] = "savelock"]
        /\ UNCHANGED <<regLock, fileLock, cmd>>
    BY <1>4, <1>7 DEF RegGoto
  <2> HIDE DEF e, v
  <2>3. w \in Seq(RegisteredVault) /\ EditOf(v, w, i, e)
    BY <1>3, <1>5, <2>1, ReplaceIsEdit
  <2> HIDE DEF w
  <2>4. /\ Distinct(w) /\ Whole(w) /\ NamesIn(w) = NamesIn(v)
        /\ \A m \in Name : m # cmd[p].name => Get(w, m) = Get(v, m)
    BY <1>3, <2>1, <2>3, EditKeeps
  <2>5. /\ BodiesOK(p)' /\ snap' \in [RegProc -> Snapshot] /\ touched' \in [RegProc -> SUBSET Name]
        /\ snap'[p].vaults = w /\ snap'[p].base = snap[p].base
        /\ \A q \in RegProc \ {p} : snap'[q] = snap[q] /\ touched'[q] = touched[q]
    BY <1>1, <1>2, <2>2, <2>3, <2>4, EditedSnapshot DEF RegInv, v
  <2>6. /\ regPc' \in [RegProc -> RegSteps] /\ regPc'[p] = "savelock"
        /\ \A q \in RegProc \ {p} : regPc'[q] = regPc[q]
    BY <2>2 DEF RegInv, RegTypeOK, RegSteps
  <2>7. RegTypeOK'
    BY <1>1, <2>2, <2>5, <2>6 DEF RegInv, RegTypeOK
  <2>8. FilesStay
    BY <1>1 DEF FilesStay
  <2>9. OnlyBy(p)
    BY <1>1, <2>2, <2>5, <2>6, <2>8 DEF OnlyBy, Reserved
  <2>10. ControlOK(p)'
    BY <1>1, <1>2, <2>2, <2>5, <2>6
    DEF ControlOK, CommandFits, FileIsOwn, NameIsNew, WriteIsCurrent, Creating, Saving,
        Updating, Reserved, UnderLock
  <2> QED BY <1>1, <2>5, <2>7, <2>8, <2>9, <2>10, DiskKeeps, StepKeeps DEF ProcOK
<1> QED BY <1>6, <1>7

-----------------------------------------------------------------------------
(* Steps that write vaults.toml.                                           *)

\* A body that is sound and lists what vaults.toml lists may replace it; a
\* create that returns Ok was for a name that is only now listed.
LEMMA DiskReplaced ==
    ASSUME RegInv, NEW v \in Seq(RegisteredVault), Distinct(v), Whole(v), UNCHANGED file,
           NamesIn(Load(disk).vaults) \subseteq NamesIn(v), disk' \in {disk, v},
           \/ created' = created
           \/ /\ disk' = v
              /\ \E n \in Name : /\ n \notin NamesIn(Load(disk).vaults) /\ n \in NamesIn(v)
                                 /\ created' = [created EXCEPT ![n] = @ + 1]
    PROVE  /\ disk' \in Seq(RegisteredVault) \cup {NoFile} /\ created' \in [Name -> Nat] /\ FilesStay
           /\ Distinct(Load(disk).vaults)' /\ Whole(Load(disk).vaults)' /\ CreatedIsListed'
<1>1. disk \in Seq(RegisteredVault) \cup {NoFile} /\ created \in [Name -> Nat]
  BY DEF RegInv, RegTypeOK
<1>2. FilesStay
  BY DEF FilesStay
<1>3. Load(v).vaults = v
  BY LoadFacts
<1>4. \A n \in Name : created[n] <= 1 /\ (created[n] # 0 => n \in NamesIn(Load(disk).vaults))
  BY DEF RegInv, CreatedIsListed
<1>5. CASE disk' = disk
  <2>1. created' = created \/ disk' = v
    OBVIOUS
  <2>2. CASE created' = created
    BY <1>1, <1>2, <1>5, <2>2, DiskKeeps
  <2>3. CASE created' # created
    <3>1. disk = v
      BY <1>5, <2>3
    <3> QED BY <1>3, <2>3, <3>1
  <2> QED BY <2>2, <2>3
<1>6. CASE disk' = v
  <2>1. Load(disk').vaults = v
    BY <1>3, <1>6
  <2>2. Distinct(Load(disk).vaults)' /\ Whole(Load(disk).vaults)'
    BY <2>1 DEF Whole
  <2>3. /\ created' \in [Name -> Nat]
        /\ \A n \in Name : created'[n] <= 1 /\ (created'[n] # 0 => n \in NamesIn(v))
    <3>1. CASE created' = created
      BY <1>1, <1>4, <3>1
    <3>2. CASE created' # created
      <4>1. PICK n \in Name : /\ n \notin NamesIn(Load(disk).vaults) /\ n \in NamesIn(v)
                              /\ created' = [created EXCEPT ![n] = @ + 1]
        BY <3>2
      <4>2. created[n] = 0
        BY <1>4, <4>1
      <4> QED BY <1>1, <1>4, <4>1, <4>2
    <3> QED BY <3>1, <3>2
  <2>4. CreatedIsListed'
    BY <2>1, <2>3 DEF CreatedIsListed
  <2> QED BY <1>2, <1>6, <2>2, <2>3, <2>4
<1> QED BY <1>5, <1>6

\* What p has under vaults.toml's lock when it is about to save its snapshot.
LEMMA WriteFacts ==
    ASSUME RegInv, NEW p \in RegProc, regPc[p] = "write"
    PROVE  /\ regLock = p /\ disk = snap[p].base /\ snap[p].vaults \in Seq(RegisteredVault)
           /\ Distinct(snap[p].vaults) /\ Whole(snap[p].vaults)
           /\ Covers(snap[p].vaults, Load(disk).vaults, touched[p])
           /\ NamesIn(Load(disk).vaults) \subseteq NamesIn(snap[p].vaults)
           /\ cmd[p].name \in Name
           /\ cmd[p].op = "create" => /\ cmd[p].name \notin NamesIn(Load(disk).vaults)
                                      /\ cmd[p].name \in NamesIn(snap[p].vaults)
<1>1. BodiesOK(p) /\ ControlOK(p) /\ cmd[p].name \in Name
  BY RunningFacts
<1>2. regLock = p /\ disk = snap[p].base
  BY <1>1 DEF ControlOK, UnderLock, WriteIsCurrent
<1>3. Distinct(snap[p].vaults) /\ Whole(snap[p].vaults) /\ snap[p].vaults \in Seq(RegisteredVault)
  BY <1>1, ProcessTypes DEF BodiesOK, RegInv
<1>4. Covers(snap[p].vaults, Load(disk).vaults, touched[p])
  BY <1>1, <1>2 DEF BodiesOK, SnapshotCovers
<1>5. cmd[p].op = "create" => /\ cmd[p].name \notin NamesIn(Load(disk).vaults)
                              /\ cmd[p].name \in NamesIn(snap[p].vaults)
  BY <1>1, <1>2 DEF ControlOK, NameIsNew, Saving
<1> QED BY <1>1, <1>2, <1>3, <1>4, <1>5 DEF Covers

\* And when it is about to write the edited registry of an update.
LEMMA UpdateFacts ==
    ASSUME RegInv, NEW p \in RegProc, regPc[p] = "updatewrite"
    PROVE  /\ regLock = p /\ latest[p] \in Seq(RegisteredVault)
           /\ Distinct(latest[p]) /\ Whole(latest[p])
           /\ Covers(latest[p], Load(disk).vaults, {cmd[p].name})
           /\ NamesIn(Load(disk).vaults) \subseteq NamesIn(latest[p])
<1>1. BodiesOK(p) /\ ControlOK(p)
  BY RunningFacts
<1>2. regLock = p /\ Covers(latest[p], Load(disk).vaults, {cmd[p].name})
  BY <1>1 DEF ControlOK, UnderLock, WriteIsCurrent
<1>3. Distinct(latest[p]) /\ Whole(latest[p]) /\ latest[p] \in Seq(RegisteredVault)
  BY <1>1, ProcessTypes DEF BodiesOK, RegInv
<1> QED BY <1>2, <1>3 DEF Covers

\* A write that succeeds and the registry it leaves in memory.
LEMMA WrittenKeeps ==
    ASSUME RegInv, NEW p \in RegProc, Return(p), regLock = p, NEW v \in Seq(RegisteredVault),
           Distinct(v), Whole(v), NamesIn(Load(disk).vaults) \subseteq NamesIn(v),
           disk' = v, snap' = [snap EXCEPT ![p] = Load(v)], touched' = [touched EXCEPT ![p] = {}],
           UNCHANGED <<file, latest, commands, regFaults>>,
           \/ created' = created
           \/ \E n \in Name : /\ n \notin NamesIn(Load(disk).vaults) /\ n \in NamesIn(v)
                              /\ created' = [created EXCEPT ![n] = @ + 1]
    PROVE  RegInv'
<1>1. /\ disk' \in Seq(RegisteredVault) \cup {NoFile} /\ created' \in [Name -> Nat] /\ FilesStay
      /\ Distinct(Load(disk).vaults)' /\ Whole(Load(disk).vaults)' /\ CreatedIsListed'
  BY DiskReplaced
<1>2. Load(v) \in Snapshot /\ Load(v).vaults = v
  BY LoadFacts
<1>3. RegTypeOK'
  BY <1>1, <1>2, ReturnFacts DEF RegInv, RegTypeOK
<1>4. snap'[p] = Load(v) /\ touched'[p] = {} /\ latest'[p] = latest[p]
  BY DEF RegInv, RegTypeOK
<1>5. \A q \in RegProc \ {p} : snap'[q] = snap[q] /\ touched'[q] = touched[q]
  BY DEF RegInv, RegTypeOK
<1>6. OnlyBy(p)
  BY <1>1, <1>5, ReturnFacts DEF OnlyBy, RegInv, Reserved
<1>7. BodiesOK(p)'
  BY <1>2, <1>4, FreshSnapshot DEF RegInv, ProcOK
<1>8. ProcOK(p)'
  BY <1>7, ReturnFacts, IdleIsOK DEF RegInv
<1> QED BY <1>1, <1>3, <1>6, <1>8, StepKeeps

\* A save that succeeds.
LEMMA WriteOkKeeps ==
    ASSUME RegInv, NEW p \in RegProc, WriteOk(p)
    PROVE  RegInv'
<1> DEFINE v == snap[p].vaults
<1>1. /\ regPc[p] = "write" /\ Return(p) /\ disk' = v
      /\ snap' = [snap EXCEPT ![p].base = v] /\ touched' = [touched EXCEPT ![p] = {}]
      /\ created' = IF cmd[p].op = "create" THEN [created EXCEPT ![cmd[p].name] = @ + 1]
                                            ELSE created
      /\ UNCHANGED <<file, latest, commands, regFaults>>
  BY DEF WriteOk, bounds
<1>2. /\ regLock = p /\ v \in Seq(RegisteredVault) /\ Distinct(v) /\ Whole(v)
      /\ NamesIn(Load(disk).vaults) \subseteq NamesIn(v)
      /\ cmd[p].name \in Name
      /\ cmd[p].op = "create" => /\ cmd[p].name \notin NamesIn(Load(disk).vaults)
                                 /\ cmd[p].name \in NamesIn(v)
  BY <1>1, WriteFacts
<1>3. snap' = [snap EXCEPT ![p] = Load(v)]
  <2>1. snap[p] \in Snapshot
    BY ProcessTypes DEF RegInv
  <2>2. [snap[p] EXCEPT !.base = v] = [vaults |-> v, base |-> v]
    BY <2>1 DEF Snapshot
  <2>3. v # NoFile
    BY <1>2, RegistryAssumption
  <2>4. Load(v) = [vaults |-> v, base |-> v]
    BY <2>3 DEF Load
  <2>5. snap' = [snap EXCEPT ![p] = [snap[p] EXCEPT !.base = v]]
    BY <1>1
  <2> HIDE DEF v
  <2> QED BY <2>2, <2>4, <2>5
<1> HIDE DEF v
<1>4. \/ created' = created
      \/ \E n \in Name : /\ n \notin NamesIn(Load(disk).vaults) /\ n \in NamesIn(v)
                         /\ created' = [created EXCEPT ![n] = @ + 1]
  BY <1>1, <1>2
<1> QED BY <1>1, <1>2, <1>3, <1>4, WrittenKeeps

\* An update that succeeds.
LEMMA UpdateOkKeeps ==
    ASSUME RegInv, NEW p \in RegProc, UpdateOk(p)
    PROVE  RegInv'
<1>1. /\ regPc[p] = "updatewrite" /\ Return(p) /\ disk' = latest[p]
      /\ snap' = [snap EXCEPT ![p] = Load(latest[p])] /\ touched' = [touched EXCEPT ![p] = {}]
      /\ UNCHANGED <<file, latest, created, commands, regFaults>>
  BY DEF UpdateOk, bounds
<1> QED BY <1>1, UpdateFacts, WrittenKeeps

\* A write that fails leaves the old file or the new one.
LEMMA WriteFailsKeeps ==
    ASSUME RegInv, NEW p \in RegProc, WriteFails(p) \/ UpdateFails(p)
    PROVE  RegInv'
<1>1. /\ regPc[p] \in {"write", "updatewrite"} /\ Return(p)
      /\ UNCHANGED <<file, snap, latest, touched, created, commands>>
      /\ regFaults' \in 0..MaxRegFaults
  BY FaultType DEF WriteFails, UpdateFails, RegInv
<1>2. PICK v \in Seq(RegisteredVault) :
        /\ disk' \in {disk, v} /\ Distinct(v) /\ Whole(v) /\ regLock = p
        /\ NamesIn(Load(disk).vaults) \subseteq NamesIn(v)
  <2>1. CASE WriteFails(p)
    BY <2>1, WriteFacts DEF WriteFails
  <2>2. CASE UpdateFails(p)
    BY <2>2, UpdateFacts DEF UpdateFails
  <2> QED BY <2>1, <2>2
<1>3. /\ disk' \in Seq(RegisteredVault) \cup {NoFile} /\ FilesStay
      /\ Distinct(Load(disk).vaults)' /\ Whole(Load(disk).vaults)' /\ CreatedIsListed'
  BY <1>1, <1>2, DiskReplaced
<1>4. /\ file' \in [Path -> {"none", "empty", "vault"}] /\ commands' \in 0..MaxCommands
      /\ \A f \in Path : file'[f] # file[f] => regPc[p] \in Reserved /\ cmd[p].val = f
  BY <1>1 DEF RegInv, RegTypeOK
<1> QED BY <1>1, <1>2, <1>3, <1>4, ReturnKeeps

\* Under the lock vaults.toml is loaded and one auto-lock time edited.
LEMMA UpdateLoadKeeps ==
    ASSUME RegInv, NEW p \in RegProc, UpdateLoad(p)
    PROVE  RegInv'
<1> DEFINE v == Load(disk).vaults
<1>1. /\ regPc[p] = "updateload"
      /\ UNCHANGED <<disk, file, snap, touched, created, commands, regFaults>>
  BY DEF UpdateLoad, bounds
<1>2. /\ BodiesOK(p) /\ ControlOK(p) /\ cmd[p] \in Command /\ cmd[p].name \in Name
      /\ cmd[p].op = "update" /\ regLock = p
  BY <1>1, RunningFacts DEF ControlOK, CommandFits, Updating, UnderLock
<1>3. v \in Seq(RegisteredVault) /\ Distinct(v) /\ Whole(v)
  BY LoadFacts DEF RegInv, RegTypeOK
<1>4. CASE Return(p) /\ UNCHANGED latest
  BY <1>1, <1>4, QuietReturnKeeps DEF RegInv, RegTypeOK
<1>5. ASSUME NEW i \in PositionOf(v, cmd[p].name),
             latest' = [latest EXCEPT ![p] = [v EXCEPT ![i].lock = cmd[p].val]],
             RegGoto(p, "updatewrite"), UNCHANGED <<regLock, fileLock, cmd>>
      PROVE  RegInv'
  <2> DEFINE e == [v[i] EXCEPT !.lock = cmd[p].val]
             w == [v EXCEPT ![i] = e]
  <2>1. i \in 1..Len(v) /\ v[i].name = cmd[p].name
    BY <1>5 DEF PositionOf
  <2>2. e \in RegisteredVault /\ e.name = cmd[p].name /\ Updates(v, i, e)
    <3>1. v[i] \in RegisteredVault /\ i \in DOMAIN v
      BY <1>3, <2>1, LenProperties
    <3>2. cmd[p].val \in Timeout
      BY <1>2, CommandTypes
    <3>3. e = [name |-> v[i].name, path |-> v[i].path, lock |-> cmd[p].val, sync |-> v[i].sync]
      BY <3>1 DEF RegisteredVault
    <3>4. e \in RegisteredVault
      BY <3>1, <3>2, <3>3 DEF RegisteredVault
    <3>5. \A j \in DOMAIN v : v[i].sync # Absent /\ v[j].sync = v[i].sync => j = i
      BY <1>3, <3>1 DEF Distinct
    <3> QED BY <2>1, <3>3, <3>4, <3>5 DEF Updates
  <2>3. latest' = [latest EXCEPT ![p] = w] /\ regPc' = [regPc EXCEPT ![p] = "updatewrite"]
    BY <1>5 DEF RegGoto
  <2> HIDE DEF e, v
  <2>4. w \in Seq(RegisteredVault) /\ EditOf(v, w, i, e)
    BY <1>3, <2>1, <2>2, ExceptIsEdit
  <2> HIDE DEF w
  <2>5. /\ Distinct(w) /\ Whole(w) /\ NamesIn(w) = NamesIn(v)
        /\ \A m \in Name : m # cmd[p].name => Get(w, m) = Get(v, m)
    BY <1>3, <2>2, <2>4, EditKeeps
  <2>6. /\ latest' \in [RegProc -> Seq(RegisteredVault)] /\ regPc' \in [RegProc -> RegSteps]
        /\ latest'[p] = w /\ regPc'[p] = "updatewrite"
        /\ \A q \in RegProc \ {p} : latest'[q] = latest[q] /\ regPc'[q] = regPc[q]
    BY <2>3, <2>4 DEF RegInv, RegTypeOK, RegSteps
  <2>7. RegTypeOK'
    BY <1>1, <1>5, <2>6 DEF RegInv, RegTypeOK
  <2>8. FilesStay
    BY <1>1 DEF FilesStay
  <2>9. OnlyBy(p)
    BY <1>1, <1>5, <2>6, <2>8 DEF OnlyBy, Reserved
  <2>10. Covers(w, v, {cmd[p].name})
    BY <2>5 DEF Covers
  <2>11. BodiesOK(p)'
    <3>1. Whole(snap[p].vaults)' /\ Whole(latest[p])'
      BY <1>1, <1>2, <2>5, <2>6 DEF BodiesOK, Whole
    <3>2. Distinct(latest[p])'
      BY <2>5, <2>6
    <3>3. Distinct(snap[p].vaults)' /\ SnapshotCovers(p)'
      BY <1>1, <1>2 DEF BodiesOK, SnapshotCovers
    <3> QED BY <3>1, <3>2, <3>3 DEF BodiesOK
  <2>12. ControlOK(p)'
    BY <1>1, <1>2, <1>5, <2>6, <2>10
    DEF ControlOK, CommandFits, FileIsOwn, NameIsNew, WriteIsCurrent, Creating, Saving,
        Updating, Reserved, UnderLock, v
  <2> QED BY <1>1, <2>7, <2>8, <2>9, <2>11, <2>12, DiskKeeps, StepKeeps DEF ProcOK
<1> QED BY <1>4, <1>5 DEF UpdateLoad

-----------------------------------------------------------------------------
(* The theorems.                                                           *)

\* An empty registry and no command.
LEMMA RegInitInv == RegInit => RegInv
<1> SUFFICES ASSUME RegInit PROVE RegInv
  OBVIOUS
<1>1. Load(NoFile) \in Snapshot /\ Load(NoFile).vaults = <<>> /\ Load(NoFile).base = NoFile
  BY LoadFacts
<1>2. <<>> \in Seq(RegisteredVault)
  BY EmptySeq
<1>3. RegTypeOK
  BY <1>1, <1>2, RegistryAssumption DEF RegInit, RegTypeOK, RegSteps
<1>4. ASSUME NEW p \in RegProc PROVE ProcOK(p)
  <2>1. /\ regPc[p] = "idle" /\ cmd[p] = NoCommand /\ snap[p] = Load(NoFile)
        /\ latest[p] = <<>> /\ touched[p] = {}
    BY DEF RegInit
  <2>2. Covers(<<>>, <<>>, {})
    BY DEF Covers
  <2>3. BodiesOK(p)
    BY <1>1, <2>1, <2>2, EmptyBody DEF BodiesOK, SnapshotCovers
  <2> QED
    BY <2>1, <2>3
    DEF ProcOK, ControlOK, CommandFits, FileIsOwn, NameIsNew, WriteIsCurrent, NoCommand,
        Creating, Saving, Updating, Reserved, UnderLock
<1>5. Distinct(Load(disk).vaults) /\ Whole(Load(disk).vaults)
  BY <1>1, EmptyBody DEF RegInit
<1>6. ReservedOnce /\ CreatedIsListed
  BY DEF RegInit, ReservedOnce, CreatedIsListed, Reserved
<1> QED BY <1>3, <1>4, <1>5, <1>6 DEF RegInv

\* Every step keeps the invariant.
LEMMA RegNextInv == RegInv /\ [RegNext]_regVars => RegInv'
<1> SUFFICES ASSUME RegInv, [RegNext]_regVars PROVE RegInv'
  OBVIOUS
<1>1. ASSUME NEW p \in RegProc, NEW c \in Command, StartCli(p, c) \/ StartTui(p, c)
      PROVE  RegInv'
  BY <1>1, StartCliKeeps, StartTuiKeeps
<1>2. ASSUME NEW p \in RegProc, Create(p) PROVE RegInv'
  BY <1>2, ReserveKeeps, BuildKeyKeeps, EarlyReturns, LockFileKeeps, SaveFileKeeps,
     SaveFileFailsKeeps, RegisterKeeps DEF Create
<1>3. ASSUME NEW p \in RegProc, Save(p) PROVE RegInv'
  BY <1>3, RegistryLockKeeps, CompareKeeps, WriteOkKeeps, WriteFailsKeeps DEF Save
<1>4. ASSUME NEW p \in RegProc,
             UpdateLock(p) \/ UpdateLoad(p) \/ UpdateOk(p) \/ UpdateFails(p)
      PROVE  RegInv'
  BY <1>4, RegistryLockKeeps, UpdateLoadKeeps, UpdateOkKeeps, WriteFailsKeeps
<1>5. ASSUME NEW p \in RegProc, Launch(p) \/ EditRow(p) \/ KillCommand(p) PROVE RegInv'
  BY <1>5, LaunchKeeps, EditStepKeeps, KillKeeps
<1>6. CASE UNCHANGED regVars
  <2>1. RegTypeOK'
    BY <1>6 DEF regVars, RegInv, RegTypeOK
  <2>2. FilesStay
    BY <1>6 DEF regVars, FilesStay
  <2>3. ASSUME NEW p \in RegProc PROVE ProcOK(p)'
    <3>1. BodiesOK(p)'
      BY <1>6, <2>2, BodiesKeep DEF regVars, RegInv, ProcOK
    <3>2. ControlOK(p)'
      BY <1>6
      DEF regVars, RegInv, ProcOK, ControlOK, CommandFits, FileIsOwn, NameIsNew, WriteIsCurrent
    <3> QED BY <3>1, <3>2 DEF ProcOK
  <2>4. ReservedOnce'
    BY <1>6 DEF regVars, RegInv, ReservedOnce
  <2> QED BY <1>6, <2>1, <2>2, <2>3, <2>4, DiskKeeps DEF regVars, RegInv
<1> QED BY <1>1, <1>2, <1>3, <1>4, <1>5, <1>6 DEF RegNext

\* The inductive invariant holds of every behaviour.
LEMMA RegInvariant == RegSpec => []RegInv
BY RegInitInv, RegNextInv, PTL DEF RegSpec

\* Whichever commands of several processes interleave, fail or are killed,
\* vaults.toml lists each vault once, with a whole file and an S3 target of its
\* own, and vault create returns Ok once for a name.
THEOREM RegistrySound == RegSpec => []RegistryIsSound
<1>1. RegInv => RegistryIsSound
  <2> SUFFICES ASSUME RegInv PROVE RegistryIsSound
    OBVIOUS
  <2> DEFINE v == Load(disk).vaults
  <2>1. RegTypeOK /\ Distinct(v) /\ Whole(v) /\ CreatedIsListed
    BY DEF RegInv
  <2>2. \A n \in Name : created[n] <= 1
    BY <2>1 DEF CreatedIsListed
  <2>3. \A e \in ToSet(v) : file[e.path] = "vault"
    BY <2>1 DEF Whole, ToSet
  <2> QED
    BY <2>1, <2>2, <2>3
    DEF RegistryIsSound, CreateIsExclusive, RegisteredIsWhole, NoSharedTarget, Distinct
<1> QED BY <1>1, RegInvariant, PTL

\* Only a write under the lock changes vaults.toml, and it was made from what
\* the file holds: an entry it changes is one its process has edited.
THEOREM ForeignEditsAreKept == RegSpec => NoForeignEditLost
<1> DEFINE WritesItsOwn ==
             \A n \in Name :
                Get(Load(disk).vaults, n) # Get(Load(disk').vaults, n)
                => \E p \in RegProc : regPc[p] \in {"write", "updatewrite"} /\ n \in Own(p)
<1>1. RegInv /\ [RegNext]_regVars => [WritesItsOwn]_regVars
  <2> SUFFICES ASSUME RegInv, RegNext, NEW n \in Name,
                      Get(Load(disk).vaults, n) # Get(Load(disk').vaults, n)
               PROVE  \E p \in RegProc : regPc[p] \in {"write", "updatewrite"} /\ n \in Own(p)
    OBVIOUS
  <2>1. disk' # disk
    OBVIOUS
  <2>2. PICK p \in RegProc :
          \/ regPc[p] = "write" /\ disk' = snap[p].vaults
          \/ regPc[p] = "updatewrite" /\ disk' = latest[p]
    BY <2>1
    DEF RegNext, StartCli, StartTui, Launch, Create, Reserve, BuildKey, KeyfileFails, LockFile,
        SaveFile, SaveFileFails, Drop, Register, EditRow, Save, SaveLock, Compare, WriteOk,
        WriteFails, UpdateLock, UpdateLoad, UpdateOk, UpdateFails, KillCommand
  <2>3. CASE regPc[p] = "write" /\ disk' = snap[p].vaults
    <3>1. /\ snap[p].vaults \in Seq(RegisteredVault)
          /\ Covers(snap[p].vaults, Load(disk).vaults, touched[p])
      BY <2>3, WriteFacts
    <3>2. Load(disk').vaults = snap[p].vaults
      BY <2>3, <3>1, LoadFacts
    <3>3. n \in touched[p]
      BY <3>1, <3>2 DEF Covers
    <3> QED BY <2>3, <3>3 DEF Own
  <2>4. CASE regPc[p] = "updatewrite" /\ disk' = latest[p]
    <3>1. latest[p] \in Seq(RegisteredVault) /\ Covers(latest[p], Load(disk).vaults, {cmd[p].name})
      BY <2>4, UpdateFacts
    <3>2. Load(disk').vaults = latest[p]
      BY <2>4, <3>1, LoadFacts
    <3>3. n = cmd[p].name
      BY <3>1, <3>2 DEF Covers
    <3> QED BY <2>4, <3>3 DEF Own
  <2> QED BY <2>2, <2>3, <2>4
<1> QED BY <1>1, RegInvariant, PTL DEF RegSpec, NoForeignEditLost

(***************************************************************************)
(* AtomicWrite, for any number of processes, targets, temp files and faults. *)
(*                                                                         *)
(* The inductive invariant Inv says who owns which temp file (Owners, Locks), *)
(* what a power failure can bring back (Durable) and where the entries of a *)
(* running cleanup are (Sweep).                                            *)
(***************************************************************************)

\* Steps at which the write has a temp file of its own, renamed or not; steps
\* at which it has locked it; steps of the cleanup.
Mine == OwnsTemp \cup {"dirsync"}
Locked == HasLock \cup {"dirsync"}
Cleaning == {"clean", "trylock", "unlink"}

\* Every inode in use has been created.
Bounds ==
    /\ temps \subseteq 0..nInodes /\ maybeTemps \subseteq 0..nInodes
    /\ \A t \in Target : maybe[t] \subseteq 0..nInodes
    /\ \A p \in Proc :
          /\ pc[p] # "idle" => call[p].goal \in Target
          /\ call[p].listed \subseteq 0..nInodes
          /\ pc[p] \in Mine => call[p].ino \in 1..nInodes
          /\ call[p].since <= faults

\* A temp file has one owner, is no target's content before its rename, and
\* is synced by then.
Owners ==
    /\ \A p, q \in Proc :
          pc[p] \in Mine /\ pc[q] \in Mine /\ call[p].ino = call[q].ino => p = q
    /\ \A p \in Proc :
          /\ pc[p] \in OwnsTemp => \A t \in Target : call[p].ino \notin maybe[t]
          /\ pc[p] = "rename" => data[call[p].ino] = "synced"

\* What a power failure may leave as a target is synced and not older than
\* what was acknowledged.
Durable ==
    /\ \A t \in Target :
          /\ shown[t] \in maybe[t]
          /\ \A i \in maybe[t] : data[i] = "synced" /\ acked[t] <= gen[i]
    /\ \A i \in Inode : gen[i] <= nRenames
    /\ \A p \in Proc : pc[p] = "dirsync" =>
          /\ call[p].ino \notin temps
          /\ gen[call[p].ino] <= gen[shown[call[p].goal]]

\* Who holds which lock.
Locks ==
    /\ \A p \in Proc :
          /\ pc[p] = "unlink" => flock[call[p].cur] = p
          /\ pc[p] \in Locked => flock[call[p].ino] = p
    /\ \A i \in Inode : \A p \in Proc : flock[i] = p =>
          \/ pc[p] = "unlink" /\ call[p].cur = i
          \/ pc[p] \in Locked /\ call[p].ino = i

\* A temp file a cleanup was given and that still exists is yet to be looked
\* at, is being looked at, or belongs to somebody.
Sweep ==
    \A p \in Proc : pc[p] \in Cleaning /\ call[p].since = faults =>
        \A i \in call[p].listed : i \in temps =>
            \/ i \in call[p].todo
            \/ pc[p] # "clean" /\ call[p].cur = i
            \/ flock[i] # None
            \/ \E q \in Proc : pc[q] \in OwnsTemp /\ call[q].ino = i

Inv == TypeOK /\ Bounds /\ Owners /\ Durable /\ Locks /\ Sweep

-----------------------------------------------------------------------------
(* What the shared steps change.                                           *)

\* The empty record of locals has the type of the locals.
LEMMA NoCallFacts ==
    /\ NoCall \in Call
    /\ NoCall.listed = {} /\ NoCall.since = 0 /\ NoCall.goal = None
BY AtomicWriteAssumption DEF NoCall, Call, Inode

\* The locals after an entry has been opened.
LEMMA OpenFacts ==
    ASSUME NEW c \in Call, NEW i \in Inode
    PROVE  LET d == [c EXCEPT !.todo = @ \ {i}, !.cur = i]
           IN d \in Call /\ d.cur = i /\ d.todo = c.todo \ {i} /\ d.listed = c.listed
                  /\ d.goal = c.goal /\ d.since = c.since
<1> DEFINE d1 == [c EXCEPT !.todo = @ \ {i}]
           d2 == [d1 EXCEPT !.cur = i]
<1>1. d1 \in Call /\ d1.todo = c.todo \ {i} /\ d1.listed = c.listed /\ d1.goal = c.goal /\ d1.since = c.since
  BY DEF Call
<1>2. d2 \in Call /\ d2.todo = c.todo \ {i} /\ d2.listed = c.listed /\ d2.goal = c.goal /\ d2.since = c.since /\ d2.cur = i
  BY <1>1 DEF Call
<1> QED
  BY <1>2

\* The locals after an entry has been skipped.
LEMMA SkipFacts ==
    ASSUME NEW c \in Call, NEW i \in Inode
    PROVE  LET d == [c EXCEPT !.todo = @ \ {i}]
           IN d \in Call /\ d.todo = c.todo \ {i} /\ d.listed = c.listed
                  /\ d.goal = c.goal /\ d.since = c.since
  BY DEF Call

\* Goto changes the control state of one process.
LEMMA GotoFacts ==
    ASSUME TypeOK, NEW p \in Proc, NEW s \in Steps, NEW c \in Call, Goto(p, s, c)
    PROVE  /\ pc' \in [Proc -> Steps] /\ call' \in [Proc -> Call]
           /\ pc'[p] = s /\ call'[p] = c
           /\ \A q \in Proc : q # p => pc'[q] = pc[q] /\ call'[q] = call[q]
BY DEF Goto, TypeOK

\* CloseFiles ends the locks of one process.
LEMMA CloseFacts ==
    ASSUME TypeOK, NEW p \in Proc, CloseFiles(p)
    PROVE  /\ flock' \in [Inode -> Proc \cup {None}]
           /\ \A i \in Inode : flock[i] = p => flock'[i] = None
           /\ \A i \in Inode : flock[i] # p => flock'[i] = flock[i]
BY DEF CloseFiles, TypeOK

\* The locals of a call, and the inodes, have their types.
LEMMA CallFacts ==
    ASSUME TypeOK, NEW p \in Proc
    PROVE  /\ call[p] \in Call
           /\ call[p].ino \in Inode /\ call[p].cur \in Inode
           /\ call[p].todo \subseteq Inode /\ call[p].listed \subseteq Inode
           /\ call[p].goal \in Target \cup {None} /\ call[p].since \in Nat
           /\ pc[p] \in Steps
BY AtomicWriteAssumption DEF TypeOK, Call

\* The rest of the state has its types.
LEMMA StateFacts ==
    ASSUME TypeOK
    PROVE  /\ temps \in SUBSET Inode /\ maybeTemps \in SUBSET Inode
           /\ shown \in [Target -> Inode] /\ maybe \in [Target -> SUBSET Inode]
           /\ data \in [Inode -> DataState] /\ flock \in [Inode -> Proc \cup {None}]
           /\ gen \in [Inode -> Nat] /\ acked \in [Target -> Nat]
           /\ nInodes \in Nat /\ nRenames \in Nat /\ faults \in Nat
           /\ faults \in 0..MaxFaults /\ nInodes \in Inode
           /\ pc \in [Proc -> Steps] /\ call \in [Proc -> Call]
           /\ None \notin Proc /\ None \notin Target
           /\ \A i \in Inode : i \in Nat
BY AtomicWriteAssumption DEF TypeOK, Inode

-----------------------------------------------------------------------------
(* Each action preserves the invariant.                                    *)

\* The cleanup starts: all it lists is still to be looked at.
LEMMA ReadDirStep ==
    ASSUME Inv, NEW p \in Proc, NEW t \in Target, ReadDir(p, t)
    PROVE  Inv'
<1> USE DEF Steps, Mine, OwnsTemp, Locked, HasLock, Cleaning
<1>0. TypeOK /\ Bounds /\ Owners /\ Durable /\ Locks /\ Sweep
  BY DEF Inv
<1> DEFINE c == [NoCall EXCEPT !.goal = t, !.todo = temps, !.listed = temps, !.since = faults]
<1>g. pc[p] = "idle" /\ Goto(p, "clean", c) /\ UNCHANGED <<dir, data, flock, meta, faults>>
  BY DEF ReadDir
<1>c. c \in Call /\ c.listed = temps /\ c.todo = temps /\ c.goal = t /\ c.since = faults
  <2>1. temps \in SUBSET Inode /\ faults \in 0..MaxFaults
    BY <1>0, StateFacts
  <2> DEFINE d1 == [NoCall EXCEPT !.goal = t]
             d2 == [d1 EXCEPT !.todo = temps]
             d3 == [d2 EXCEPT !.listed = temps]
             d4 == [d3 EXCEPT !.since = faults]
  <2>2. d1 \in Call /\ d1.goal = t
    BY NoCallFacts DEF Call
  <2>3. d2 \in Call /\ d2.goal = t /\ d2.todo = temps
    BY <2>1, <2>2 DEF Call
  <2>4. d3 \in Call /\ d3.goal = t /\ d3.todo = temps /\ d3.listed = temps
    BY <2>1, <2>3 DEF Call
  <2>5. d4 \in Call /\ d4.goal = t /\ d4.todo = temps /\ d4.listed = temps /\ d4.since = faults
    BY <2>1, <2>4 DEF Call
  <2> QED
    BY <2>5
<1> HIDE DEF c
<1>f. /\ pc' \in [Proc -> Steps] /\ call' \in [Proc -> Call]
      /\ pc[p] = "idle" /\ pc'[p] = "clean"
      /\ call'[p].listed = temps /\ call'[p].todo = temps
      /\ call'[p].goal = t /\ call'[p].since = faults
      /\ UNCHANGED <<temps, maybeTemps, shown, maybe, data, flock, nInodes, gen, nRenames, acked, faults>>
      /\ \A q \in Proc : q # p => pc'[q] = pc[q] /\ call'[q] = call[q]
  BY <1>0, <1>c, <1>g, GotoFacts DEF dir, meta
<1>1. TypeOK'
  BY <1>0, <1>f, CallFacts, StateFacts, NoCallFacts DEF TypeOK
<1>2. Bounds'
  <2>1. /\ temps' \subseteq 0..nInodes' /\ maybeTemps' \subseteq 0..nInodes'
        /\ \A u \in Target : maybe'[u] \subseteq 0..nInodes'
    BY <1>0, <1>f, CallFacts, StateFacts DEF Bounds, Durable
  <2>2. ASSUME NEW q \in Proc
        PROVE  /\ pc'[q] # "idle" => call'[q].goal \in Target
               /\ call'[q].listed \subseteq 0..nInodes'
               /\ pc'[q] \in Mine => call'[q].ino \in 1..nInodes'
               /\ call'[q].since <= faults'
    <3>1. CASE q = p
      <4>1. pc'[q] = "clean" /\ call'[q].listed = temps' /\ call'[q].goal = t /\ call'[q].since = faults'
        BY <1>f, <3>1
      <4>2. faults' \in Nat
        BY <1>0, <1>f, StateFacts
      <4> QED
        BY <2>1, <4>1, <4>2
    <3>2. CASE q # p
      BY <1>0, <1>f, <3>2, CallFacts, StateFacts DEF Bounds
    <3> QED
      BY <3>1, <3>2
  <2> QED
    BY <2>1, <2>2 DEF Bounds
<1>3. Owners'
  BY <1>0, <1>f, CallFacts, StateFacts, NoCallFacts DEF Owners
<1>4. Durable'
  BY <1>0, <1>f, CallFacts, StateFacts, NoCallFacts DEF Durable
<1>5. Locks'
  BY <1>0, <1>f, CallFacts, StateFacts, NoCallFacts DEF Locks
<1>6. Sweep'
  BY <1>0, <1>f, CallFacts, StateFacts, NoCallFacts DEF Sweep
<1> QED
  BY <1>1, <1>2, <1>3, <1>4, <1>5, <1>6 DEF Inv

\* An entry is opened, or skipped because it is gone.
LEMMA CleanOpenStep ==
    ASSUME Inv, NEW p \in Proc, NEW j \in Inode, CleanOpen(p, j)
    PROVE  Inv'
<1> USE DEF Steps, Mine, OwnsTemp, Locked, HasLock, Cleaning
<1>0. TypeOK /\ Bounds /\ Owners /\ Durable /\ Locks /\ Sweep
  BY DEF Inv
<1> DEFINE c == IF j \in temps THEN [call[p] EXCEPT !.todo = @ \ {j}, !.cur = j]
                                  ELSE [call[p] EXCEPT !.todo = @ \ {j}]
           s == IF j \in temps THEN "trylock" ELSE "clean"
<1>g. pc[p] = "clean" /\ Goto(p, s, c) /\ UNCHANGED <<dir, data, flock, meta, faults>>
  BY DEF CleanOpen
<1>p. call[p] \in Call
  BY <1>0, CallFacts
<1>c. /\ c \in Call /\ c.listed = call[p].listed /\ c.todo = call[p].todo \ {j}
      /\ c.goal = call[p].goal /\ c.since = call[p].since
      /\ j \in temps => c.cur = j
  <2>1. CASE j \in temps
    BY <1>p, <2>1, OpenFacts, Zenon
  <2>2. CASE j \notin temps
    BY <1>p, <2>2, SkipFacts, Zenon
  <2> QED
    BY <2>1, <2>2
<1>s. s \in Steps /\ s \in {"clean", "trylock"} /\ (j \in temps => s = "trylock")
  OBVIOUS
<1> HIDE DEF c, s
<1>f. /\ pc' \in [Proc -> Steps] /\ call' \in [Proc -> Call]
      /\ pc[p] = "clean" /\ pc'[p] \in {"clean", "trylock"}
      /\ j \in temps => pc'[p] = "trylock" /\ call'[p].cur = j
      /\ call'[p].listed = call[p].listed /\ call'[p].todo = call[p].todo \ {j}
      /\ call'[p].goal = call[p].goal /\ call'[p].since = call[p].since
      /\ UNCHANGED <<temps, maybeTemps, shown, maybe, data, flock, nInodes, gen, nRenames, acked, faults>>
      /\ \A q \in Proc : q # p => pc'[q] = pc[q] /\ call'[q] = call[q]
  BY <1>0, <1>c, <1>s, <1>g, GotoFacts DEF dir, meta
<1>1. TypeOK'
  BY <1>0, <1>f, CallFacts, StateFacts, NoCallFacts DEF TypeOK
<1>2. Bounds'
  BY <1>0, <1>f, CallFacts, StateFacts, NoCallFacts DEF Bounds
<1>3. Owners'
  BY <1>0, <1>f, CallFacts, StateFacts, NoCallFacts DEF Owners
<1>4. Durable'
  BY <1>0, <1>f, CallFacts, StateFacts, NoCallFacts DEF Durable
<1>5. Locks'
  BY <1>0, <1>f, CallFacts, StateFacts, NoCallFacts DEF Locks
<1>6. Sweep'
  <2> SUFFICES ASSUME NEW q \in Proc, pc'[q] \in Cleaning, call'[q].since = faults,
                      NEW i \in call'[q].listed, i \in temps
               PROVE  \/ i \in call'[q].todo
                      \/ pc'[q] # "clean" /\ call'[q].cur = i
                      \/ flock[i] # None
                      \/ \E u \in Proc : pc'[u] \in OwnsTemp /\ call'[u].ino = i
    BY <1>f DEF Sweep
  <2>1. pc[q] \in Cleaning /\ call[q].since = faults /\ i \in call[q].listed
    BY <1>f
  <2>2. \/ i \in call[q].todo
        \/ pc[q] # "clean" /\ call[q].cur = i
        \/ flock[i] # None
        \/ \E u \in Proc : pc[u] \in OwnsTemp /\ call[u].ino = i
    BY <1>0, <2>1 DEF Sweep
  <2>3. (\E u \in Proc : pc[u] \in OwnsTemp /\ call[u].ino = i)
           => \E u \in Proc : pc'[u] \in OwnsTemp /\ call'[u].ino = i
    BY <1>f
  <2> QED
    BY <1>f, <2>2, <2>3
<1> QED
  BY <1>1, <1>2, <1>3, <1>4, <1>5, <1>6 DEF Inv

\* A file somebody holds is skipped, another one is locked.
LEMMA CleanTryLockStep ==
    ASSUME Inv, NEW p \in Proc, CleanTryLock(p)
    PROVE  Inv'
<1> USE DEF Steps, Mine, OwnsTemp, Locked, HasLock, Cleaning
<1>0. TypeOK /\ Bounds /\ Owners /\ Durable /\ Locks /\ Sweep
  BY DEF Inv
<1>f. /\ pc[p] = "trylock" /\ call'[p] = call[p]
      /\ \/ /\ flock[call[p].cur] = None /\ pc'[p] = "unlink"
            /\ flock' = [flock EXCEPT ![call[p].cur] = p]
         \/ flock[call[p].cur] # None /\ pc'[p] = "clean" /\ flock' = flock
      /\ pc' \in [Proc -> Steps] /\ call' \in [Proc -> Call]
      /\ \A q \in Proc : q # p => pc'[q] = pc[q] /\ call'[q] = call[q]
      /\ UNCHANGED <<temps, maybeTemps, shown, maybe, data, nInodes, gen, nRenames, acked, faults>>
  BY <1>0, CallFacts, GotoFacts DEF CleanTryLock, dir, meta
<1>1. TypeOK'
  BY <1>0, <1>f, CallFacts, StateFacts, NoCallFacts DEF TypeOK
<1>2. Bounds'
  BY <1>0, <1>f, CallFacts, StateFacts, NoCallFacts DEF Bounds
<1>3. Owners'
  BY <1>0, <1>f, CallFacts, StateFacts, NoCallFacts DEF Owners
<1>4. Durable'
  BY <1>0, <1>f, CallFacts, StateFacts, NoCallFacts DEF Durable
<1>5. Locks'
  BY <1>0, <1>f, CallFacts, StateFacts, NoCallFacts DEF Locks
<1>6. Sweep'
  BY <1>0, <1>f, CallFacts, StateFacts, NoCallFacts DEF Sweep
<1> QED
  BY <1>1, <1>2, <1>3, <1>4, <1>5, <1>6 DEF Inv

\* The stale file goes, and its lock.
LEMMA CleanUnlinkStep ==
    ASSUME Inv, NEW p \in Proc, CleanUnlink(p)
    PROVE  Inv'
<1> USE DEF Steps, Mine, OwnsTemp, Locked, HasLock, Cleaning
<1>0. TypeOK /\ Bounds /\ Owners /\ Durable /\ Locks /\ Sweep
  BY DEF Inv
<1>f. /\ pc[p] = "unlink"
      /\ \/ pc'[p] = "clean" /\ call'[p] = call[p] /\ temps' = temps \ {call[p].cur}
         \/ pc'[p] = "idle" /\ call'[p] = NoCall /\ call[p].cur \notin temps /\ temps' = temps
      /\ flock' \in [Inode -> Proc \cup {None}]
      /\ \A i \in Inode : flock'[i] = IF flock[i] = p THEN None ELSE flock[i]
      /\ pc' \in [Proc -> Steps] /\ call' \in [Proc -> Call]
      /\ \A q \in Proc : q # p => pc'[q] = pc[q] /\ call'[q] = call[q]
      /\ UNCHANGED <<maybeTemps, shown, maybe, data, nInodes, gen, nRenames, acked, faults>>
  BY <1>0, CallFacts, GotoFacts, CloseFacts, NoCallFacts DEF CleanUnlink, Unlink, dir, meta
<1>1. TypeOK'
  BY <1>0, <1>f, CallFacts, StateFacts, NoCallFacts DEF TypeOK
<1>2. Bounds'
  <2>1. /\ temps' \subseteq 0..nInodes' /\ maybeTemps' \subseteq 0..nInodes'
        /\ \A t \in Target : maybe'[t] \subseteq 0..nInodes'
    BY <1>0, <1>f, CallFacts, StateFacts DEF Bounds, Durable
  <2>2. ASSUME NEW q \in Proc
        PROVE  /\ pc'[q] # "idle" => call'[q].goal \in Target
               /\ call'[q].listed \subseteq 0..nInodes'
               /\ pc'[q] \in Mine => call'[q].ino \in 1..nInodes'
               /\ call'[q].since <= faults'
    <3>1. CASE q = p
      BY <1>0, <1>f, <2>1, <3>1, CallFacts, StateFacts, NoCallFacts DEF Bounds
    <3>2. CASE q # p
      BY <1>0, <1>f, <3>2, CallFacts, StateFacts DEF Bounds
    <3> QED
      BY <3>1, <3>2
  <2> QED
    BY <2>1, <2>2 DEF Bounds
<1>3. Owners'
  BY <1>0, <1>f, CallFacts, StateFacts, NoCallFacts DEF Owners
<1>4. Durable'
  BY <1>0, <1>f, CallFacts, StateFacts, NoCallFacts DEF Durable
<1>5. Locks'
  BY <1>0, <1>f, CallFacts, StateFacts, NoCallFacts DEF Locks
<1>6. Sweep'
  <2> SUFFICES ASSUME NEW q \in Proc, pc'[q] \in Cleaning, call'[q].since = faults',
                      NEW i \in call'[q].listed, i \in temps'
               PROVE  \/ i \in call'[q].todo
                      \/ pc'[q] # "clean" /\ call'[q].cur = i
                      \/ flock'[i] # None
                      \/ \E r \in Proc : pc'[r] \in OwnsTemp /\ call'[r].ino = i
    BY DEF Sweep
  <2>1. pc[q] \in Cleaning /\ call[q].since = faults /\ i \in call[q].listed /\ i \in temps
    BY <1>f, NoCallFacts
  <2>2. i \in Inode
    BY <1>0, <2>1, StateFacts
  <2>3. \/ i \in call[q].todo
        \/ pc[q] # "clean" /\ call[q].cur = i
        \/ flock[i] # None
        \/ \E r \in Proc : pc[r] \in OwnsTemp /\ call[r].ino = i
    BY <1>0, <2>1 DEF Sweep
  <2>4. CASE i \in call[q].todo
    BY <1>f, <2>4
  <2>5. CASE pc[q] # "clean" /\ call[q].cur = i
    BY <1>f, <2>5
  <2>6. CASE flock[i] # None
    <3>1. CASE flock[i] = p
      BY <1>0, <1>f, <2>1, <2>2, <3>1 DEF Locks, Durable
    <3>2. CASE flock[i] # p
      BY <1>f, <2>2, <2>6, <3>2
    <3> QED
      BY <3>1, <3>2
  <2>7. CASE \E r \in Proc : pc[r] \in OwnsTemp /\ call[r].ino = i
    BY <1>f, <2>7
  <2> QED
    BY <2>3, <2>4, <2>5, <2>6, <2>7
<1> QED
  BY <1>1, <1>2, <1>3, <1>4, <1>5, <1>6 DEF Inv

\* The new temp file is nobody else's.
LEMMA CreateTempStep ==
    ASSUME Inv, NEW p \in Proc, CreateTemp(p)
    PROVE  Inv'
<1> USE DEF Steps, Mine, OwnsTemp, Locked, HasLock, Cleaning
<1>0. TypeOK /\ Bounds /\ Owners /\ Durable /\ Locks /\ Sweep
  BY DEF Inv
<1> DEFINE c == [NoCall EXCEPT !.goal = call[p].goal, !.ino = nInodes + 1]
<1>n. nInodes + 1 \in Inode /\ nInodes \in Nat
  BY <1>0, AtomicWriteAssumption DEF CreateTemp, TypeOK, Inode
<1>c. /\ c \in Call /\ c.goal = call[p].goal /\ c.ino = nInodes + 1
      /\ c.listed = {} /\ c.since = 0
  <2>1. call[p].goal \in Target \cup {None}
    BY <1>0, CallFacts
  <2> DEFINE d1 == [NoCall EXCEPT !.goal = call[p].goal]
             d2 == [d1 EXCEPT !.ino = nInodes + 1]
  <2>2. d1 \in Call /\ d1.goal = call[p].goal /\ d1.listed = {} /\ d1.since = 0
    BY <2>1, NoCallFacts DEF Call
  <2>3. /\ d2 \in Call /\ d2.goal = call[p].goal /\ d2.ino = nInodes + 1
        /\ d2.listed = {} /\ d2.since = 0
    BY <1>n, <2>2 DEF Call
  <2> QED
    BY <2>3
<1>g. /\ pc[p] = "clean" /\ Goto(p, "lock", c)
      /\ nInodes' = nInodes + 1
      /\ temps' = temps \cup {nInodes + 1} /\ maybeTemps' = maybeTemps \cup {nInodes + 1}
      /\ UNCHANGED <<shown, maybe, data, flock, gen, nRenames, acked, faults>>
  BY DEF CreateTemp
<1> HIDE DEF c
<1>f. /\ pc' \in [Proc -> Steps] /\ call' \in [Proc -> Call]
      /\ pc[p] = "clean" /\ pc'[p] = "lock"
      /\ call'[p].goal = call[p].goal /\ call'[p].ino = nInodes + 1
      /\ call'[p].listed = {} /\ call'[p].since = 0
      /\ nInodes' = nInodes + 1 /\ nInodes + 1 \in Inode /\ nInodes \in Nat
      /\ temps' = temps \cup {nInodes + 1} /\ maybeTemps' = maybeTemps \cup {nInodes + 1}
      /\ UNCHANGED <<shown, maybe, data, flock, gen, nRenames, acked, faults>>
      /\ \A q \in Proc : q # p => pc'[q] = pc[q] /\ call'[q] = call[q]
  BY <1>0, <1>n, <1>c, <1>g, GotoFacts
<1>1. TypeOK'
  BY <1>0, <1>f, CallFacts, StateFacts, NoCallFacts DEF TypeOK
<1>2. Bounds'
  BY <1>0, <1>f, CallFacts, StateFacts, NoCallFacts DEF Bounds
<1>3. Owners'
  <2>1. ASSUME NEW q \in Proc, NEW r \in Proc, pc'[q] \in Mine, pc'[r] \in Mine,
               call'[q].ino = call'[r].ino
        PROVE  q = r
    BY <1>0, <1>f, <2>1, CallFacts, StateFacts DEF Owners, Bounds
  <2>2. ASSUME NEW q \in Proc, pc'[q] \in OwnsTemp, NEW u \in Target
        PROVE  call'[q].ino \notin maybe'[u]
    BY <1>0, <1>f, <2>2, CallFacts, StateFacts DEF Owners, Bounds, Durable
  <2>3. ASSUME NEW q \in Proc, pc'[q] = "rename"
        PROVE  data'[call'[q].ino] = "synced"
    BY <1>0, <1>f, <2>3, CallFacts, StateFacts DEF Owners
  <2> QED
    BY <2>1, <2>2, <2>3 DEF Owners
<1>4. Durable'
  <2>1. ASSUME NEW u \in Target
        PROVE  /\ shown'[u] \in maybe'[u]
               /\ \A i \in maybe'[u] : data'[i] = "synced" /\ acked'[u] <= gen'[i]
    BY <1>0, <1>f, CallFacts, StateFacts DEF Durable, Owners, Bounds
  <2>2. \A i \in Inode : gen'[i] <= nRenames'
    BY <1>0, <1>f, CallFacts, StateFacts DEF Durable
  <2>3. ASSUME NEW q \in Proc, pc'[q] = "dirsync"
        PROVE  /\ call'[q].ino \notin temps'
               /\ gen'[call'[q].ino] <= gen'[shown'[call'[q].goal]]
    BY <1>0, <1>f, <2>3, CallFacts, StateFacts DEF Durable, Owners, Bounds
  <2> QED
    BY <2>1, <2>2, <2>3 DEF Durable
<1>5. Locks'
  BY <1>0, <1>f, CallFacts, StateFacts, NoCallFacts DEF Locks
<1>6. Sweep'
  BY <1>0, <1>f, CallFacts, StateFacts, NoCallFacts DEF Sweep
<1> QED
  BY <1>1, <1>2, <1>3, <1>4, <1>5, <1>6 DEF Inv

\* The owner locks its temp file.
LEMMA LockTempStep ==
    ASSUME Inv, NEW p \in Proc, LockTemp(p)
    PROVE  Inv'
<1> USE DEF Steps, Mine, OwnsTemp, Locked, HasLock, Cleaning
<1>0. TypeOK /\ Bounds /\ Owners /\ Durable /\ Locks /\ Sweep
  BY DEF Inv
<1>f. /\ pc[p] = "lock" /\ pc'[p] = "write" /\ call'[p] = call[p]
      /\ flock[call[p].ino] = None /\ flock' = [flock EXCEPT ![call[p].ino] = p]
      /\ pc' \in [Proc -> Steps] /\ call' \in [Proc -> Call]
      /\ \A q \in Proc : q # p => pc'[q] = pc[q] /\ call'[q] = call[q]
      /\ UNCHANGED <<temps, maybeTemps, shown, maybe, data, nInodes, gen, nRenames, acked, faults>>
  BY <1>0, CallFacts, GotoFacts DEF LockTemp, dir, meta
<1>1. TypeOK'
  BY <1>0, <1>f, CallFacts, StateFacts, NoCallFacts DEF TypeOK
<1>2. Bounds'
  BY <1>0, <1>f, CallFacts, StateFacts, NoCallFacts DEF Bounds
<1>3. Owners'
  BY <1>0, <1>f, CallFacts, StateFacts, NoCallFacts DEF Owners
<1>4. Durable'
  BY <1>0, <1>f, CallFacts, StateFacts, NoCallFacts DEF Durable
<1>5. Locks'
  BY <1>0, <1>f, CallFacts, StateFacts, NoCallFacts DEF Locks
<1>6. Sweep'
  BY <1>0, <1>f, CallFacts, StateFacts, NoCallFacts DEF Sweep
<1> QED
  BY <1>1, <1>2, <1>3, <1>4, <1>5, <1>6 DEF Inv

\* The bytes are written.
LEMMA WriteTempStep ==
    ASSUME Inv, NEW p \in Proc, WriteTemp(p)
    PROVE  Inv'
<1> USE DEF Steps, Mine, OwnsTemp, Locked, HasLock, Cleaning
<1>0. TypeOK /\ Bounds /\ Owners /\ Durable /\ Locks /\ Sweep
  BY DEF Inv
<1>f. /\ pc[p] = "write" /\ pc'[p] = "fsync" /\ call'[p] = call[p]
      /\ data' = [data EXCEPT ![call[p].ino] = "full"]
      /\ pc' \in [Proc -> Steps] /\ call' \in [Proc -> Call]
      /\ \A q \in Proc : q # p => pc'[q] = pc[q] /\ call'[q] = call[q]
      /\ UNCHANGED <<temps, maybeTemps, shown, maybe, flock, nInodes, gen, nRenames, acked, faults>>
  BY <1>0, CallFacts, GotoFacts DEF WriteTemp, dir, meta
<1>1. TypeOK'
  BY <1>0, <1>f, CallFacts DEF TypeOK, DataState
<1>2. Bounds'
  BY <1>0, <1>f, CallFacts, StateFacts, NoCallFacts DEF Bounds
<1>3. Owners'
  BY <1>0, <1>f, CallFacts, StateFacts, NoCallFacts DEF Owners
<1>4. Durable'
  <2>1. ASSUME NEW u \in Target
        PROVE  /\ shown'[u] \in maybe'[u]
               /\ \A i \in maybe'[u] : data'[i] = "synced" /\ acked'[u] <= gen'[i]
    BY <1>0, <1>f, CallFacts, StateFacts DEF Durable, Owners, Bounds
  <2>2. \A i \in Inode : gen'[i] <= nRenames'
    BY <1>0, <1>f, CallFacts, StateFacts DEF Durable
  <2>3. ASSUME NEW q \in Proc, pc'[q] = "dirsync"
        PROVE  /\ call'[q].ino \notin temps'
               /\ gen'[call'[q].ino] <= gen'[shown'[call'[q].goal]]
    BY <1>0, <1>f, <2>3, CallFacts, StateFacts DEF Durable, Owners, Bounds
  <2> QED
    BY <2>1, <2>2, <2>3 DEF Durable
<1>5. Locks'
  BY <1>0, <1>f, CallFacts, StateFacts, NoCallFacts DEF Locks
<1>6. Sweep'
  BY <1>0, <1>f, CallFacts, StateFacts, NoCallFacts DEF Sweep
<1> QED
  BY <1>1, <1>2, <1>3, <1>4, <1>5, <1>6 DEF Inv

\* The temp file is synced.
LEMMA FsyncTempStep ==
    ASSUME Inv, NEW p \in Proc, FsyncTemp(p)
    PROVE  Inv'
<1> USE DEF Steps, Mine, OwnsTemp, Locked, HasLock, Cleaning
<1>0. TypeOK /\ Bounds /\ Owners /\ Durable /\ Locks /\ Sweep
  BY DEF Inv
<1>f. /\ pc[p] = "fsync" /\ pc'[p] = "rename" /\ call'[p] = call[p]
      /\ data' = [data EXCEPT ![call[p].ino] = "synced"]
      /\ pc' \in [Proc -> Steps] /\ call' \in [Proc -> Call]
      /\ \A q \in Proc : q # p => pc'[q] = pc[q] /\ call'[q] = call[q]
      /\ UNCHANGED <<temps, maybeTemps, shown, maybe, flock, nInodes, gen, nRenames, acked, faults>>
  BY <1>0, CallFacts, GotoFacts DEF FsyncTemp, dir, meta
<1>1. TypeOK'
  BY <1>0, <1>f, CallFacts DEF TypeOK, DataState
<1>2. Bounds'
  BY <1>0, <1>f, CallFacts, StateFacts, NoCallFacts DEF Bounds
<1>3. Owners'
  BY <1>0, <1>f, CallFacts, StateFacts, NoCallFacts DEF Owners
<1>4. Durable'
  <2>1. ASSUME NEW u \in Target
        PROVE  /\ shown'[u] \in maybe'[u]
               /\ \A i \in maybe'[u] : data'[i] = "synced" /\ acked'[u] <= gen'[i]
    BY <1>0, <1>f, CallFacts, StateFacts DEF Durable, Owners, Bounds
  <2>2. \A i \in Inode : gen'[i] <= nRenames'
    BY <1>0, <1>f, CallFacts, StateFacts DEF Durable
  <2>3. ASSUME NEW q \in Proc, pc'[q] = "dirsync"
        PROVE  /\ call'[q].ino \notin temps'
               /\ gen'[call'[q].ino] <= gen'[shown'[call'[q].goal]]
    BY <1>0, <1>f, <2>3, CallFacts, StateFacts DEF Durable, Owners, Bounds
  <2> QED
    BY <2>1, <2>2, <2>3 DEF Durable
<1>5. Locks'
  BY <1>0, <1>f, CallFacts, StateFacts, NoCallFacts DEF Locks
<1>6. Sweep'
  BY <1>0, <1>f, CallFacts, StateFacts, NoCallFacts DEF Sweep
<1> QED
  BY <1>1, <1>2, <1>3, <1>4, <1>5, <1>6 DEF Inv

\* The rename shows a synced file, newer than every acknowledged one.
LEMMA RenameStep ==
    ASSUME Inv, NEW p \in Proc, RenameTemp(p)
    PROVE  Inv'
<1> USE DEF Steps, Mine, OwnsTemp, Locked, HasLock, Cleaning
<1>0. TypeOK /\ Bounds /\ Owners /\ Durable /\ Locks /\ Sweep
  BY DEF Inv
<1>f. /\ pc[p] = "rename" /\ pc'[p] = "dirsync" /\ call'[p] = call[p]
      /\ call[p].ino \in temps /\ temps' = temps \ {call[p].ino}
      /\ shown' = [shown EXCEPT ![call[p].goal] = call[p].ino]
      /\ maybe' = [maybe EXCEPT ![call[p].goal] = @ \cup {call[p].ino}]
      /\ nRenames' = nRenames + 1
      /\ gen' = [gen EXCEPT ![call[p].ino] = nRenames + 1]
      /\ pc' \in [Proc -> Steps] /\ call' \in [Proc -> Call]
      /\ \A q \in Proc : q # p => pc'[q] = pc[q] /\ call'[q] = call[q]
      /\ UNCHANGED <<maybeTemps, data, flock, nInodes, acked, faults>>
  BY <1>0, CallFacts, GotoFacts DEF RenameTemp
<1>1. TypeOK'
  <2>1. call[p].ino \in Inode /\ call[p].goal \in Target
    BY <1>0, <1>f, CallFacts DEF Bounds
  <2>2. shown' \in [Target -> Inode] /\ gen' \in [Inode -> Nat] /\ nRenames' \in Nat
    BY <1>0, <1>f, <2>1, StateFacts
  <2>3. maybe[call[p].goal] \cup {call[p].ino} \in SUBSET Inode
    BY <1>0, <2>1, StateFacts
  <2>4. maybe' \in [Target -> SUBSET Inode]
    BY <1>0, <1>f, <2>1, <2>3, StateFacts
  <2> QED
    BY <1>0, <1>f, <2>2, <2>4 DEF TypeOK
<1>2. Bounds'
  <2>1. call[p].ino \in 1..nInodes /\ call[p].goal \in Target /\ nInodes \in Nat
    BY <1>0, <1>f, StateFacts DEF Bounds
  <2>2. temps' \subseteq 0..nInodes' /\ maybeTemps' \subseteq 0..nInodes'
    BY <1>0, <1>f DEF Bounds
  <2>3. \A u \in Target : maybe'[u] \subseteq maybe[u] \cup {call[p].ino}
    BY <1>0, <1>f, <2>1, StateFacts
  <2>4. \A u \in Target : maybe'[u] \subseteq 0..nInodes'
    BY <1>0, <1>f, <2>1, <2>3 DEF Bounds
  <2>5. ASSUME NEW q \in Proc
        PROVE  /\ pc'[q] # "idle" => call'[q].goal \in Target
               /\ call'[q].listed \subseteq 0..nInodes'
               /\ pc'[q] \in Mine => call'[q].ino \in 1..nInodes'
               /\ call'[q].since <= faults'
    BY <1>0, <1>f DEF Bounds
  <2> QED
    BY <2>2, <2>4, <2>5 DEF Bounds
<1>3. Owners'
  BY <1>0, <1>f, CallFacts, StateFacts, NoCallFacts DEF Owners
<1>4. Durable'
  <2>1. ASSUME NEW u \in Target
        PROVE  /\ shown'[u] \in maybe'[u]
               /\ \A i \in maybe'[u] : data'[i] = "synced" /\ acked'[u] <= gen'[i]
    BY <1>0, <1>f, CallFacts, StateFacts DEF Durable, Owners, Bounds
  <2>2. \A i \in Inode : gen'[i] <= nRenames'
    BY <1>0, <1>f, CallFacts, StateFacts DEF Durable
  <2>3. ASSUME NEW q \in Proc, pc'[q] = "dirsync"
        PROVE  /\ call'[q].ino \notin temps'
               /\ gen'[call'[q].ino] <= gen'[shown'[call'[q].goal]]
    BY <1>0, <1>f, <2>3, CallFacts, StateFacts DEF Durable, Owners, Bounds
  <2> QED
    BY <2>1, <2>2, <2>3 DEF Durable
<1>5. Locks'
  BY <1>0, <1>f, CallFacts, StateFacts, NoCallFacts DEF Locks
<1>6. Sweep'
  BY <1>0, <1>f, CallFacts, StateFacts, NoCallFacts DEF Sweep
<1> QED
  BY <1>1, <1>2, <1>3, <1>4, <1>5, <1>6 DEF Inv

\* The directory is synced, the content acknowledged.
LEMMA SyncParentDirStep ==
    ASSUME Inv, NEW p \in Proc, SyncParentDir(p)
    PROVE  Inv'
<1> USE DEF Steps, Mine, OwnsTemp, Locked, HasLock, Cleaning
<1>0. TypeOK /\ Bounds /\ Owners /\ Durable /\ Locks /\ Sweep
  BY DEF Inv
<1>f. /\ pc[p] = "dirsync" /\ pc'[p] = "idle" /\ call'[p] = NoCall
      /\ maybe' = [t \in Target |-> {shown[t]}] /\ maybeTemps' = temps
      /\ acked' = [acked EXCEPT ![call[p].goal] =
                      IF @ < gen[call[p].ino] THEN gen[call[p].ino] ELSE @]
      /\ flock' \in [Inode -> Proc \cup {None}]
      /\ \A i \in Inode : flock'[i] = IF flock[i] = p THEN None ELSE flock[i]
      /\ pc' \in [Proc -> Steps] /\ call' \in [Proc -> Call]
      /\ \A q \in Proc : q # p => pc'[q] = pc[q] /\ call'[q] = call[q]
      /\ UNCHANGED <<temps, shown, data, nInodes, gen, nRenames, faults>>
  BY <1>0, GotoFacts, CloseFacts, NoCallFacts DEF SyncParentDir, ReturnOk
<1>1. TypeOK'
  BY <1>0, <1>f, CallFacts, StateFacts, NoCallFacts DEF TypeOK, Bounds
<1>2. Bounds'
  <2>1. /\ temps' \subseteq 0..nInodes' /\ maybeTemps' \subseteq 0..nInodes'
        /\ \A t \in Target : maybe'[t] \subseteq 0..nInodes'
    BY <1>0, <1>f, CallFacts, StateFacts DEF Bounds, Durable
  <2>2. ASSUME NEW q \in Proc
        PROVE  /\ pc'[q] # "idle" => call'[q].goal \in Target
               /\ call'[q].listed \subseteq 0..nInodes'
               /\ pc'[q] \in Mine => call'[q].ino \in 1..nInodes'
               /\ call'[q].since <= faults'
    <3>1. CASE q = p
      BY <1>0, <1>f, <2>1, <3>1, CallFacts, StateFacts, NoCallFacts DEF Bounds
    <3>2. CASE q # p
      BY <1>0, <1>f, <3>2, CallFacts, StateFacts DEF Bounds
    <3> QED
      BY <3>1, <3>2
  <2> QED
    BY <2>1, <2>2 DEF Bounds
<1>3. Owners'
  <2>1. ASSUME NEW q \in Proc, NEW r \in Proc, pc'[q] \in Mine, pc'[r] \in Mine,
               call'[q].ino = call'[r].ino
        PROVE  q = r
    BY <1>0, <1>f, <2>1, CallFacts, StateFacts DEF Owners, Bounds
  <2>2. ASSUME NEW q \in Proc, pc'[q] \in OwnsTemp, NEW u \in Target
        PROVE  call'[q].ino \notin maybe'[u]
    BY <1>0, <1>f, <2>2, CallFacts, StateFacts DEF Owners, Bounds, Durable
  <2>3. ASSUME NEW q \in Proc, pc'[q] = "rename"
        PROVE  data'[call'[q].ino] = "synced"
    BY <1>0, <1>f, <2>3, CallFacts, StateFacts DEF Owners
  <2> QED
    BY <2>1, <2>2, <2>3 DEF Owners
<1>4. Durable'
  BY <1>0, <1>f, CallFacts, StateFacts, NoCallFacts DEF Durable
<1>5. Locks'
  BY <1>0, <1>f, CallFacts, StateFacts, NoCallFacts DEF Locks
<1>6. Sweep'
  <2> SUFFICES ASSUME NEW q \in Proc, pc'[q] \in Cleaning, call'[q].since = faults',
                      NEW i \in call'[q].listed, i \in temps'
               PROVE  \/ i \in call'[q].todo
                      \/ pc'[q] # "clean" /\ call'[q].cur = i
                      \/ flock'[i] # None
                      \/ \E r \in Proc : pc'[r] \in OwnsTemp /\ call'[r].ino = i
    BY DEF Sweep
  <2>1. pc[q] \in Cleaning /\ call[q].since = faults /\ i \in call[q].listed /\ i \in temps
    BY <1>f, NoCallFacts
  <2>2. i \in Inode
    BY <1>0, <2>1, StateFacts
  <2>3. \/ i \in call[q].todo
        \/ pc[q] # "clean" /\ call[q].cur = i
        \/ flock[i] # None
        \/ \E r \in Proc : pc[r] \in OwnsTemp /\ call[r].ino = i
    BY <1>0, <2>1 DEF Sweep
  <2>4. CASE i \in call[q].todo
    BY <1>f, <2>4
  <2>5. CASE pc[q] # "clean" /\ call[q].cur = i
    BY <1>f, <2>5
  <2>6. CASE flock[i] # None
    <3>1. CASE flock[i] = p
      BY <1>0, <1>f, <2>1, <2>2, <3>1 DEF Locks, Durable
    <3>2. CASE flock[i] # p
      BY <1>f, <2>2, <2>6, <3>2
    <3> QED
      BY <3>1, <3>2
  <2>7. CASE \E r \in Proc : pc[r] \in OwnsTemp /\ call[r].ino = i
    BY <1>f, <2>7
  <2> QED
    BY <2>3, <2>4, <2>5, <2>6, <2>7
<1> QED
  BY <1>1, <1>2, <1>3, <1>4, <1>5, <1>6 DEF Inv

\* An error return leaves nothing locked; only a fault lets a temp file stay.
LEMMA ReturnErrStep ==
    ASSUME Inv, NEW p \in Proc, ReturnErr(p),
           faults' \in 0..MaxFaults, faults' \in {faults, faults + 1},
           faults' = faults => pc[p] # "unlink"
    PROVE  Inv'
<1> USE DEF Steps, Mine, OwnsTemp, Locked, HasLock, Cleaning
<1>0. TypeOK /\ Bounds /\ Owners /\ Durable /\ Locks /\ Sweep
  BY DEF Inv
<1>f. /\ pc'[p] = "idle" /\ call'[p] = NoCall
      /\ \/ pc[p] \in OwnsTemp /\ temps' = temps \ {call[p].ino}
         \/ pc[p] \notin OwnsTemp /\ temps' = temps
      /\ flock' \in [Inode -> Proc \cup {None}]
      /\ \A i \in Inode : flock'[i] = IF flock[i] = p THEN None ELSE flock[i]
      /\ pc' \in [Proc -> Steps] /\ call' \in [Proc -> Call]
      /\ \A q \in Proc : q # p => pc'[q] = pc[q] /\ call'[q] = call[q]
      /\ UNCHANGED <<maybeTemps, shown, maybe, data, nInodes, gen, nRenames, acked>>
  BY <1>0, GotoFacts, CloseFacts, NoCallFacts DEF ReturnErr, Unlink, dir, meta
<1>1. TypeOK'
  BY <1>0, <1>f, CallFacts, StateFacts, NoCallFacts DEF TypeOK
<1>2. Bounds'
  <2>1. /\ temps' \subseteq 0..nInodes' /\ maybeTemps' \subseteq 0..nInodes'
        /\ \A t \in Target : maybe'[t] \subseteq 0..nInodes'
    BY <1>0, <1>f, CallFacts, StateFacts DEF Bounds, Durable
  <2>2. ASSUME NEW q \in Proc
        PROVE  /\ pc'[q] # "idle" => call'[q].goal \in Target
               /\ call'[q].listed \subseteq 0..nInodes'
               /\ pc'[q] \in Mine => call'[q].ino \in 1..nInodes'
               /\ call'[q].since <= faults'
    <3>1. CASE q = p
      BY <1>0, <1>f, <2>1, <3>1, CallFacts, StateFacts, NoCallFacts DEF Bounds
    <3>2. CASE q # p
      BY <1>0, <1>f, <3>2, CallFacts, StateFacts DEF Bounds
    <3> QED
      BY <3>1, <3>2
  <2> QED
    BY <2>1, <2>2 DEF Bounds
<1>3. Owners'
  BY <1>0, <1>f, CallFacts, StateFacts, NoCallFacts DEF Owners
<1>4. Durable'
  BY <1>0, <1>f, CallFacts, StateFacts, NoCallFacts DEF Durable
<1>5. Locks'
  BY <1>0, <1>f, CallFacts, StateFacts, NoCallFacts DEF Locks
<1>6. Sweep'
  <2> SUFFICES ASSUME NEW q \in Proc, pc'[q] \in Cleaning, call'[q].since = faults',
                      NEW i \in call'[q].listed, i \in temps'
               PROVE  \/ i \in call'[q].todo
                      \/ pc'[q] # "clean" /\ call'[q].cur = i
                      \/ flock'[i] # None
                      \/ \E r \in Proc : pc'[r] \in OwnsTemp /\ call'[r].ino = i
    BY DEF Sweep
  <2>a. CASE faults' = faults
    <3>0. pc[p] # "unlink"
      BY <2>a
    <3>1. pc[q] \in Cleaning /\ call[q].since = faults /\ i \in call[q].listed /\ i \in temps
      BY <1>f, <2>a, NoCallFacts
    <3>2. i \in Inode
      BY <1>0, <3>1, StateFacts
    <3>3. \/ i \in call[q].todo
          \/ pc[q] # "clean" /\ call[q].cur = i
          \/ flock[i] # None
          \/ \E r \in Proc : pc[r] \in OwnsTemp /\ call[r].ino = i
      BY <1>0, <3>1 DEF Sweep
    <3>4. CASE i \in call[q].todo
      BY <1>f, <3>4
    <3>5. CASE pc[q] # "clean" /\ call[q].cur = i
      BY <1>f, <3>5
    <3>6. CASE flock[i] # None
      <4>1. CASE flock[i] = p
        BY <1>0, <1>f, <3>1, <3>2, <3>0, <4>1 DEF Locks, Durable
      <4>2. CASE flock[i] # p
        BY <1>f, <3>2, <3>6, <4>2
      <4> QED
        BY <4>1, <4>2
    <3>7. CASE \E r \in Proc : pc[r] \in OwnsTemp /\ call[r].ino = i
      BY <1>f, <3>7
    <3> QED
      BY <3>3, <3>4, <3>5, <3>6, <3>7
  <2>b. CASE faults' = faults + 1
    <3>1. q # p /\ call[q].since = faults + 1
      BY <1>f, <2>b
    <3> QED
      BY <1>0, <3>1, CallFacts, StateFacts DEF Bounds
  <2> QED
    BY <2>a, <2>b
<1> QED
  BY <1>1, <1>2, <1>3, <1>4, <1>5, <1>6 DEF Inv

\* A killed process leaves its temp file and no lock.
LEMMA KillStep ==
    ASSUME Inv, NEW p \in Proc, Kill(p)
    PROVE  Inv'
<1> USE DEF Steps, Mine, OwnsTemp, Locked, HasLock, Cleaning
<1>0. TypeOK /\ Bounds /\ Owners /\ Durable /\ Locks /\ Sweep
  BY DEF Inv
<1>f. /\ pc'[p] = "idle" /\ call'[p] = NoCall /\ faults' = faults + 1 /\ faults' \in 0..MaxFaults
      /\ flock' \in [Inode -> Proc \cup {None}]
      /\ \A i \in Inode : flock'[i] = IF flock[i] = p THEN None ELSE flock[i]
      /\ pc' \in [Proc -> Steps] /\ call' \in [Proc -> Call]
      /\ \A q \in Proc : q # p => pc'[q] = pc[q] /\ call'[q] = call[q]
      /\ UNCHANGED <<temps, maybeTemps, shown, maybe, data, nInodes, gen, nRenames, acked>>
  BY <1>0, GotoFacts, CloseFacts, NoCallFacts, AtomicWriteAssumption DEF Kill, Fault, dir, meta, TypeOK
<1>1. TypeOK'
  BY <1>0, <1>f, CallFacts, StateFacts, NoCallFacts DEF TypeOK
<1>2. Bounds'
  BY <1>0, <1>f, CallFacts, StateFacts, NoCallFacts DEF Bounds
<1>3. Owners'
  BY <1>0, <1>f, CallFacts, StateFacts, NoCallFacts DEF Owners
<1>4. Durable'
  BY <1>0, <1>f, CallFacts, StateFacts, NoCallFacts DEF Durable
<1>5. Locks'
  BY <1>0, <1>f, CallFacts, StateFacts, NoCallFacts DEF Locks
<1>6. Sweep'
  <2> SUFFICES ASSUME NEW q \in Proc, pc'[q] \in Cleaning, call'[q].since = faults',
                      NEW i \in call'[q].listed, i \in temps'
               PROVE  \/ i \in call'[q].todo
                      \/ pc'[q] # "clean" /\ call'[q].cur = i
                      \/ flock'[i] # None
                      \/ \E r \in Proc : pc'[r] \in OwnsTemp /\ call'[r].ino = i
    BY DEF Sweep
  <2>1. q # p /\ call[q].since = faults + 1
    BY <1>f
  <2> QED
    BY <1>0, <2>1, CallFacts, StateFacts DEF Bounds
<1> QED
  BY <1>1, <1>2, <1>3, <1>4, <1>5, <1>6 DEF Inv

\* After a power failure every target is one of the contents it may be.
LEMMA PowerFailureStep ==
    ASSUME Inv, PowerFailure
    PROVE  Inv'
<1> USE DEF Steps, Mine, OwnsTemp, Locked, HasLock, Cleaning
<1>0. TypeOK /\ Bounds /\ Owners /\ Durable /\ Locks /\ Sweep
  BY DEF Inv
<1>f. /\ faults' = faults + 1 /\ faults' \in 0..MaxFaults
      /\ shown' \in [Target -> Inode] /\ \A t \in Target : shown'[t] \in maybe[t]
      /\ maybe' = [t \in Target |-> {shown'[t]}]
      /\ temps' \in SUBSET maybeTemps /\ maybeTemps' = temps'
      /\ data' = [i \in Inode |-> IF data[i] = "full" THEN "partial" ELSE data[i]]
      /\ pc' = [p \in Proc |-> "idle"] /\ call' = [p \in Proc |-> NoCall]
      /\ flock' = [i \in Inode |-> None]
      /\ UNCHANGED <<nInodes, gen, nRenames, acked>>
  BY <1>0, StateFacts, AtomicWriteAssumption DEF PowerFailure, Fault, meta
<1>1. TypeOK'
  BY <1>0, <1>f, StateFacts, NoCallFacts DEF TypeOK, DataState
<1>2. Bounds'
  BY <1>0, <1>f, CallFacts, StateFacts, NoCallFacts DEF Bounds
<1>3. Owners'
  BY <1>0, <1>f, CallFacts, StateFacts, NoCallFacts DEF Owners
<1>4. Durable'
  BY <1>0, <1>f, CallFacts, StateFacts, NoCallFacts DEF Durable
<1>5. Locks'
  BY <1>0, <1>f, CallFacts, StateFacts, NoCallFacts DEF Locks
<1>6. Sweep'
  BY <1>0, <1>f, CallFacts, StateFacts, NoCallFacts DEF Sweep
<1> QED
  BY <1>1, <1>2, <1>3, <1>4, <1>5, <1>6 DEF Inv

-----------------------------------------------------------------------------
\* The initial states satisfy the invariant.
LEMMA InvInit == Init => Inv
<1> SUFFICES ASSUME Init PROVE Inv
  OBVIOUS
<1> USE DEF Steps, Mine, OwnsTemp, Locked, HasLock, Cleaning
<1>0. 0 \in Inode /\ 0 \in 0..MaxFaults /\ None \notin Proc
  BY AtomicWriteAssumption DEF Inode
<1>1. TypeOK
  BY <1>0, NoCallFacts DEF Init, TypeOK, DataState
<1>2. Bounds
  BY <1>0, NoCallFacts DEF Init, Bounds
<1>3. Owners /\ Locks /\ Sweep
  BY <1>0 DEF Init, Owners, Locks, Sweep
<1>4. Durable
  BY <1>0 DEF Init, Durable
<1> QED
  BY <1>1, <1>2, <1>3, <1>4 DEF Inv

\* A fault is counted.
LEMMA FaultFacts ==
    ASSUME TypeOK, Fault
    PROVE  faults' \in 0..MaxFaults /\ faults' = faults + 1 /\ faults' # faults
BY AtomicWriteAssumption DEF TypeOK, Fault

\* Every step preserves the invariant.
LEMMA InvNext == Inv /\ [Next]_vars => Inv'
<1> SUFFICES ASSUME Inv, [Next]_vars PROVE Inv'
  OBVIOUS
<1>0. TypeOK
  BY DEF Inv
<1>1. ASSUME NEW p \in Proc, Write(p) PROVE Inv'
  <2>1. ASSUME CreateTempFails(p) \/ LockTempWouldBlock(p) \/ RenameNotFound(p) PROVE Inv'
    <3>1. ReturnErr(p) /\ faults' = faults /\ pc[p] # "unlink"
      BY <2>1 DEF CreateTempFails, LockTempWouldBlock, RenameNotFound
    <3> QED
      BY <1>0, <3>1, ReturnErrStep, StateFacts
  <2> QED
    BY <1>1, <2>1, ReadDirStep, CleanOpenStep, CleanTryLockStep, CleanUnlinkStep, CreateTempStep,
       LockTempStep, WriteTempStep, FsyncTempStep, RenameStep, SyncParentDirStep DEF Write
<1>2. ASSUME NEW p \in Proc, SystemCallFails(p) PROVE Inv'
  <2>1. ReturnErr(p) /\ Fault
    BY <1>2 DEF SystemCallFails
  <2> QED
    BY <1>0, <2>1, FaultFacts, ReturnErrStep
<1>3. ASSUME NEW p \in Proc, Kill(p) PROVE Inv'
  BY <1>3, KillStep
<1>4. CASE UNCHANGED vars
  <2>1. /\ UNCHANGED <<temps, maybeTemps, shown, maybe, data, flock>>
        /\ UNCHANGED <<nInodes, gen, nRenames, acked, pc, call, faults>>
    BY <1>4 DEF vars, dir, meta
  <2>2. TypeOK' /\ Bounds' /\ Durable'
    BY <2>1 DEF Inv, TypeOK, Bounds, Durable
  <2>3. Owners' /\ Locks' /\ Sweep'
    BY <2>1 DEF Inv, Owners, Locks, Sweep
  <2> QED
    BY <2>2, <2>3 DEF Inv
<1> QED
  BY <1>1, <1>2, <1>3, <1>4, PowerFailureStep DEF Next

\* The invariant holds in every reachable state.
THEOREM InvCorrect == Spec => []Inv
BY InvInit, InvNext, PTL DEF Spec

\* The state of the files, locks and writes is well typed.
THEOREM AtomicTypeCorrect == Spec => []TypeOK
<1>1. Inv => TypeOK
  BY DEF Inv
<1> QED
  BY <1>1, InvCorrect, PTL

\* A target is never torn: what it shows is something a power failure may
\* leave, and all of that is synced (write_atomic renames after sync_all).
THEOREM TargetsNeverTorn == Spec => []NeverTorn
<1>1. Inv => NeverTorn
  BY DEF Inv, Durable, NeverTorn
<1> QED
  BY <1>1, InvCorrect, PTL

\* An acknowledged content is never rolled back: sync_parent_dir comes before
\* Ok, and every content a power failure may leave is at least as new.
THEOREM AcknowledgedSurvives == Spec => []AckedSurvives
<1>1. Inv => AckedSurvives
  <2> SUFFICES ASSUME Inv, NEW t \in Target PROVE gen[shown[t]] >= acked[t]
    BY DEF AckedSurvives
  <2>1. acked[t] <= gen[shown[t]]
    BY DEF Inv, Durable
  <2>2. acked[t] \in Nat /\ gen[shown[t]] \in Nat
    BY DEF Inv, TypeOK
  <2> QED
    BY <2>1, <2>2
<1> QED
  BY <1>1, InvCorrect, PTL

\* A finished cleanup leaves no stale temp file: every entry it listed is in
\* one of the places Sweep names, and todo is empty.
THEOREM CleanupRemovesStale == Spec => []StaleTempsRemoved
<1>1. Inv => StaleTempsRemoved
  BY DEF Inv, Sweep, Cleaning, StaleTempsRemoved
<1> QED
  BY <1>1, InvCorrect, PTL

\* No step of another process takes a locked temp file away: the cleanup
\* unlinks only what it has locked itself, and a temp file has one owner.
THEOREM LockedTempsAreSafe == Spec => LockedTempIsSafe
<1> DEFINE Safe == \A p \in Proc :
              pc[p] \in HasLock /\ pc'[p] \in HasLock /\ call[p].ino \in temps
              => call[p].ino \in temps'
<1>1. Inv /\ [Next]_vars => [Safe]_vars
  <2> SUFFICES ASSUME Inv, Next, NEW p \in Proc,
                      pc[p] \in HasLock, pc'[p] \in HasLock, call[p].ino \in temps
               PROVE  call[p].ino \in temps'
    OBVIOUS
  <2> USE DEF HasLock, OwnsTemp
  <2>0. TypeOK /\ Owners /\ Locks
    BY DEF Inv
  <2>1. flock[call[p].ino] = p
    BY <2>0 DEF Locks, Locked
  <2>2. ASSUME NEW q \in Proc, ReturnErr(q) PROVE call[p].ino \in temps'
    <3>1. q # p
      BY <2>0, <2>2, GotoFacts, NoCallFacts DEF ReturnErr, Steps
    <3>2. pc[q] \in OwnsTemp => call[q].ino # call[p].ino
      BY <2>0, <3>1 DEF Owners, Mine
    <3> QED
      BY <2>2, <3>2 DEF ReturnErr, Unlink, dir
  <2>3. ASSUME NEW q \in Proc, Write(q) PROVE call[p].ino \in temps'
    <3>1. CASE CleanUnlink(q)
      <4>1. pc[q] = "unlink" /\ q # p
        BY <3>1 DEF CleanUnlink
      <4>2. call[q].cur # call[p].ino
        BY <2>0, <2>1, <4>1 DEF Locks
      <4> QED
        BY <3>1, <4>2 DEF CleanUnlink, Unlink, dir
    <3>2. CASE RenameTemp(q)
      <4>1. q # p
        BY <2>0, <3>2, GotoFacts, CallFacts DEF RenameTemp, Steps
      <4>2. call[q].ino # call[p].ino
        BY <2>0, <3>2, <4>1 DEF Owners, Mine, RenameTemp
      <4> QED
        BY <3>2, <4>2 DEF RenameTemp
    <3>3. CASE CreateTempFails(q) \/ LockTempWouldBlock(q) \/ RenameNotFound(q)
      BY <2>2, <3>3 DEF CreateTempFails, LockTempWouldBlock, RenameNotFound
    <3>4. CASE CreateTemp(q)
      BY <3>4 DEF CreateTemp
    <3>5. CASE \/ \E t \in Target : ReadDir(q, t)
               \/ \E i \in Inode : CleanOpen(q, i)
               \/ CleanTryLock(q) \/ LockTemp(q) \/ WriteTemp(q) \/ FsyncTemp(q)
      BY <3>5 DEF ReadDir, CleanOpen, CleanTryLock, LockTemp, WriteTemp, FsyncTemp, dir
    <3>6. CASE SyncParentDir(q)
      BY <3>6 DEF SyncParentDir, ReturnOk
    <3> QED
      BY <2>3, <3>1, <3>2, <3>3, <3>4, <3>5, <3>6 DEF Write
  <2>4. ASSUME NEW q \in Proc, SystemCallFails(q) PROVE call[p].ino \in temps'
    BY <2>2, <2>4 DEF SystemCallFails
  <2>5. ASSUME NEW q \in Proc, Kill(q) PROVE call[p].ino \in temps'
    BY <2>5 DEF Kill, dir
  <2>6. CASE PowerFailure
    BY <2>6 DEF PowerFailure
  <2> QED
    BY <2>3, <2>4, <2>5, <2>6 DEF Next
<1> QED
  BY <1>1, InvCorrect, PTL DEF Spec, LockedTempIsSafe
=============================================================================
