---------------------------- MODULE VaultHandle ----------------------------
(***************************************************************************)
(* Handles on one vault file (falach-core vault.rs, locking.rs, unlock.rs) *)
(* held by several processes: Vault, with the exclusive sidecar lock, and  *)
(* VaultReadOnly, with a shared one.  A handle keeps the key it was opened *)
(* with and the bytes of the keyfile it read then.                         *)
(*                                                                         *)
(* DATA.  A database is its root UUID and the set of edits made to it.  A  *)
(* key is a password and the contents of a keyfile.  write_atomic_with is  *)
(* one step: it succeeds, fails before its rename or after it.             *)
(***************************************************************************)
EXTENDS Integers, FiniteSets

CONSTANTS
    HandleProc,      \* processes
    Password, KeyBytes,
    VaultRoot, OtherRoot,
    NoHandle,
    MaxHandleEdits,  \* bound: edits
    MaxHandleFaults  \* bound: failing writes, kills

ASSUME VaultHandleAssumption ==
    /\ Password # {} /\ KeyBytes # {}
    /\ VaultRoot # OtherRoot /\ MaxHandleEdits \in Nat /\ MaxHandleFaults \in Nat

VARIABLES
    vfile,      \* what is in the vault file: its key and its database
    vlock,      \* vlock[p]: the sidecar lock p holds
    handle,     \* handle[p]
    keyfile,    \* the keyfile's contents on disk
    settled,    \* history: the password last acknowledged
    tried,      \* history: the passwords of changes that failed since then
    vedits, vfaults

handleVars == <<vfile, vlock, handle, keyfile, settled, tried, vedits, vfaults>>

Key == [pw : Password, kf : KeyBytes]
DatabaseOf(root, edits) == [root |-> root, edits |-> edits]

HandleInit ==
    /\ settled = CHOOSE x \in Password : TRUE
    /\ keyfile = CHOOSE x \in KeyBytes : TRUE
    /\ vfile = [key |-> [pw |-> settled, kf |-> keyfile],
                db  |-> DatabaseOf(VaultRoot, {})]
    /\ vlock = [p \in HandleProc |-> "none"]
    /\ handle = [p \in HandleProc |-> NoHandle]
    /\ tried = {} /\ vedits = 0 /\ vfaults = 0

HandleFault == vfaults < MaxHandleFaults /\ vfaults' = vfaults + 1

----------------------------------------------------------------------------
(* The sidecar lock.                                                       *)

\* try_acquire_with_eintr_retry: shared locks coexist, an exclusive one does
\* not; a signal is retried and is no refusal.
MayLock(p, kind) ==
    \A q \in HandleProc \ {p} :
        vlock[q] = "none" \/ (kind = "shared" /\ vlock[q] = "shared")

\* acquire_exclusive, acquire_shared; Contended is an error and no change.
OpenLock(p, kind) ==
    /\ handle[p] = NoHandle /\ vlock[p] = "none"
    /\ MayLock(p, kind)
    /\ vlock' = [vlock EXCEPT ![p] = kind]
    /\ UNCHANGED <<vfile, handle, keyfile, settled, tried, vedits, vfaults>>

Unlocked(p) == vlock' = [vlock EXCEPT ![p] = "none"]

----------------------------------------------------------------------------
(* Opening.                                                                *)

\* The keyfile is read, the key built and the file decrypted, or
\* AuthenticationFailed and the guard is dropped.
OpenRead(p, pw) ==
    LET key == [pw |-> pw, kf |-> keyfile] IN
    /\ handle[p] = NoHandle /\ vlock[p] # "none"
    /\ IF key = vfile.key
       THEN /\ handle' = [handle EXCEPT ![p] =
                            [key |-> key, db |-> vfile.db]]
            /\ settled' = pw /\ tried' = {}
            /\ UNCHANGED vlock
       ELSE Unlocked(p) /\ UNCHANGED <<handle, settled, tried>>
    /\ UNCHANGED <<vfile, keyfile, vedits, vfaults>>

\* The handle is dropped, or the process is killed: the lock goes with it.
CloseHandle(p) ==
    /\ vlock[p] # "none"
    /\ Unlocked(p)
    /\ handle' = [handle EXCEPT ![p] = NoHandle]
    /\ UNCHANGED <<vfile, keyfile, settled, tried, vedits, vfaults>>

----------------------------------------------------------------------------
(* Vault.                                                                  *)

Writer(p) == handle[p] # NoHandle /\ vlock[p] = "exclusive"

\* An edit of the database in memory.
EditInMemory(p) ==
    /\ Writer(p) /\ vedits < MaxHandleEdits
    /\ vedits' = vedits + 1
    /\ handle' = [handle EXCEPT ![p].db.edits = @ \cup {vedits + 1}]
    /\ UNCHANGED <<vfile, vlock, keyfile, settled, tried, vfaults>>

\* replace_database: a merged database of the same vault, never another's.
ReplaceDatabase(p, db) ==
    /\ Writer(p)
    /\ db.root = handle[p].db.root
    /\ handle' = [handle EXCEPT ![p].db = db]
    /\ UNCHANGED <<vfile, vlock, keyfile, settled, tried, vedits, vfaults>>

\* What save_database leaves on disk when it fails.
FailedSave(key, db) == vfile' \in {vfile, [key |-> key, db |-> db]}

SaveHandle(p) ==
    /\ Writer(p)
    /\ vfile' = [key |-> handle[p].key, db |-> handle[p].db]
    /\ tried' = {} /\ settled' = handle[p].key.pw
    /\ UNCHANGED <<vlock, handle, keyfile, vedits, vfaults>>

SaveHandleFails(p) ==
    /\ Writer(p) /\ HandleFault
    /\ FailedSave(handle[p].key, handle[p].db)
    /\ UNCHANGED <<vlock, handle, keyfile, settled, tried, vedits>>

\* The current password is verified against the file, not the handle.
Verified(p, current) == [pw |-> current, kf |-> handle[p].key.kf] = vfile.key

NewKey(p, new) == [handle[p].key EXCEPT !.pw = new]

\* Faulty variant: the handle keeps the old key.
BugChangeMasterPassword(p, current, new) ==
    /\ Writer(p) /\ Verified(p, current)
    /\ vfile' = [key |-> NewKey(p, new), db |-> handle[p].db]
    /\ settled' = new /\ tried' = {}
    /\ UNCHANGED <<handle, vlock, keyfile, vedits, vfaults>>

\* change_master_password: the database is written under the new key, then
\* the handle takes it.
ChangeMasterPassword(p, current, new) ==
    /\ Writer(p) /\ Verified(p, current)
    /\ vfile' = [key |-> NewKey(p, new), db |-> handle[p].db]
    /\ handle' = [handle EXCEPT ![p].key = NewKey(p, new)]
    /\ settled' = new /\ tried' = {}
    /\ UNCHANGED <<vlock, keyfile, vedits, vfaults>>

\* The write fails: the handle keeps the old key, whatever the file has.
ChangeFails(p, current, new) ==
    /\ Writer(p) /\ Verified(p, current) /\ HandleFault
    /\ FailedSave(NewKey(p, new), handle[p].db)
    /\ tried' = tried \cup {new}
    /\ UNCHANGED <<vlock, handle, keyfile, settled, vedits>>

\* The user edits the keyfile while handles are open.
ReplaceKeyfile(x) ==
    /\ keyfile' = x
    /\ UNCHANGED <<vfile, vlock, handle, settled, tried, vedits, vfaults>>

----------------------------------------------------------------------------
\* A merge result: nothing of this database is missing, something of another
\* device may be new; or a database of another vault.
Incoming(p) ==
    {DatabaseOf(r, handle[p].db.edits \cup {0}) : r \in {VaultRoot, OtherRoot}}

HandleNext ==
    \/ \E p \in HandleProc :
        \/ \E kind \in {"shared", "exclusive"} : OpenLock(p, kind)
        \/ \E pw \in Password : OpenRead(p, pw)
        \/ CloseHandle(p) \/ EditInMemory(p)
        \/ Writer(p) /\ \E db \in Incoming(p) : ReplaceDatabase(p, db)
        \/ SaveHandle(p) \/ SaveHandleFails(p)
        \/ \E cur \in Password, new \in Password :
              ChangeMasterPassword(p, cur, new) \/ ChangeFails(p, cur, new)
    \/ \E x \in KeyBytes : ReplaceKeyfile(x)

HandleSpec == HandleInit /\ [][HandleNext]_handleVars

----------------------------------------------------------------------------
(* Properties.                                                             *)

\* No handle is behind the file: a writer's database has every edit that was
\* ever saved, so its save drops none, and a reader's is what the file holds,
\* whichever processes open, save and close.
HandlesAreCurrent ==
    \A p \in HandleProc : handle[p] # NoHandle =>
        IF Writer(p) THEN vfile.db.edits \subseteq handle[p].db.edits
        ELSE handle[p].db = vfile.db

\* The password that opens the file is the one last acknowledged, unless a
\* change failed since then: then it is that one or the one of a failed
\* change.  A password that was replaced never opens the file again.
PasswordIsSettled ==
    /\ vfile.key.pw \in {settled} \cup tried
    /\ vfile.db.root = VaultRoot

\* Open handles and the file belong together, through every interleaving of
\* open, save and change_master_password and a failure of any write.
VaultIsSettled == HandlesAreCurrent /\ PasswordIsSettled
=============================================================================
