------------------------------- MODULE Sync -------------------------------
(***************************************************************************)
(* The sync orchestrator of falach-sync: several devices keep a copy of    *)
(* one vault file and synchronise it through one S3 object.                *)
(*                                                                         *)
(* A device runs sync_now (src/crates/falach-sync/src/sync.rs) one network *)
(* or file operation at a time, so the operations of two devices           *)
(* interleave.  S3Transport (transport/s3.rs) and the single 503 retry of  *)
(* s3/client.rs are part of the PUT steps.                                 *)
(*                                                                         *)
(* DATA.  Every Vault::save re-encrypts with a fresh IV and seed, so each  *)
(* save makes new bytes.  Bytes are named by the serial number of the save *)
(* that made them; the SHA-256 and the ETag of bytes tell exactly equal    *)
(* bytes apart and are therefore that number.  content[b] is the set of    *)
(* user edits the database in bytes b has taken in, as a current value, a  *)
(* history version or a tombstone: reconcile (merge/mod.rs) is set union   *)
(* here; the modules Merge and Replicas say what it keeps of a database    *)
(* and where it fails.                                                     *)
(***************************************************************************)
EXTENDS Naturals, FiniteSets

CONSTANTS
    Device,        \* the devices that share the vault
    MaxEdits,      \* bound: edits the users make
    MaxBlobs,      \* bound: saves of a vault file
    MaxRetries,    \* SyncOptions::max_retries
    MaxFaults,     \* bound: crashes, failed calls, reconfigurations, losses
    Backends,      \* the backends there may be: does one honour If-Match on PUT?
    Seeded,        \* TRUE iff the object exists before the first sync
    MayLoseObject  \* TRUE iff somebody may delete the object

ASSUME SyncAssumption ==
    /\ MaxEdits \in Nat /\ MaxBlobs \in Nat \ {0} /\ MaxRetries \in Nat
    /\ MaxFaults \in Nat
    /\ Backends \subseteq BOOLEAN /\ Seeded \in BOOLEAN /\ MayLoseObject \in BOOLEAN

None == 0
Blob == 1..MaxBlobs
Edits == 1..MaxEdits

\* config.rs, IfMatchSupport
IfMatchSupport == {"Unknown", "Supported", "Degraded"}

\* The [sync] block of a registry entry: the two divergence pointers
\* (SyncPointers) and the cached backend classification.
SyncBlock == [etag : Blob \cup {None}, sha : Blob \cup {None},
              ifm : IfMatchSupport]

\* What Sync::configure_remote writes: no pointers, backend not classified.
FreshBlock == [etag |-> None, sha |-> None, ifm |-> "Unknown"]

\* What the first device's sync left after it had uploaded bytes 1.
SeedBlock == [etag |-> 1, sha |-> 1, ifm |-> "Unknown"]

\* A PUT on the wire: the header if-match (None: no header) and the body.
PutRequest == [from : Device, body : Blob, ifMatch : Blob \cup {None}]

Steps == {"idle", "head", "compare", "backup", "fetch", "replace", "rehash",
          "reconcile", "put", "verify", "commit", "fail"}

Paths == {"none", "push", "fast", "merge"}

Pointer == Blob \cup {None}

\* opts.max_retries.max(1)
MaxAttempts == IF MaxRetries = 0 THEN 1 ELSE MaxRetries

\* The local variables of run_state_machine and put_conditional.
Run == [path : Paths,         \* row of the truth table
        head : Pointer,       \* remote_now
        snap : Pointer,       \* the ObjectSnapshot of the last GET
        tries : 0..MaxAttempts,  \* attempts of the merge loop
        body : Pointer,       \* put_conditional's bytes ...
        ifMatch : Pointer,    \* ... and version
        resent : BOOLEAN,     \* the PUT was sent again after a 503
        etag : Pointer,       \* the SyncPointers returned: remote_etag ...
        sha : Pointer]        \* ... and local_sha256

NoRun == [path |-> "none", head |-> None, snap |-> None, tries |-> 0,
          body |-> None, ifMatch |-> None, resent |-> FALSE,
          etag |-> None, sha |-> None]

VARIABLES
    honours,   \* the backend honours If-Match on PUT
    remote,    \* the S3 object: bytes, or None (404)
    inflight,  \* PUTs the client gave up on and the server may still apply
    uploaded,  \* history: edits that have ever been in the object
    nBlobs,    \* saves so far
    content,   \* content[b]: edits taken in by bytes b
    nEdits,    \* edits so far
    disk,      \* disk[d]: bytes of the .kdbx
    bak,       \* bak[d]: bytes of the .kdbx.bak, or None
    regMem,    \* regMem[d]: sync block in the process's VaultRegistry
    regDisk,   \* regDisk[d]: sync block in vaults.toml
    pc,        \* pc[d]: next operation of the device's sync
    run,       \* run[d]: local variables of the sync, as far as still needed
    ifm,       \* ifm[d]: S3Transport::if_match_supported
    faults     \* faults so far

store == <<honours, remote, inflight, uploaded>>
blobs == <<nBlobs, content>>
files == <<disk, bak>>
reg   == <<regMem, regDisk>>
vars == <<store, blobs, nEdits, files, reg, pc, run, ifm, faults>>

\* The state is well typed; a merge loop makes at most max(max_retries, 1)
\* attempts.
TypeOK ==
    /\ honours \in Backends
    /\ remote \in Pointer
    /\ inflight \subseteq PutRequest
    /\ uploaded \subseteq Edits
    /\ nBlobs \in Blob
    /\ content \in [Blob -> SUBSET Edits]
    /\ nEdits \in 0..MaxEdits
    /\ disk \in [Device -> Blob]
    /\ bak \in [Device -> Pointer]
    /\ regMem \in [Device -> SyncBlock]
    /\ regDisk \in [Device -> SyncBlock]
    /\ pc \in [Device -> Steps]
    /\ run \in [Device -> Run]
    /\ ifm \in [Device -> IfMatchSupport]
    /\ faults \in 0..MaxFaults

(***************************************************************************)
(* Initially every device has a copy of the vault file with the target     *)
(* configured.  When Seeded, one device has uploaded that file before the  *)
(* user copied its state directory (vault and vaults.toml) to the others;  *)
(* otherwise nobody has synced and the key is empty.  Some of the faults   *)
(* that the bound allows may be spent.                                     *)
(***************************************************************************)
Init ==
    /\ honours \in Backends
    /\ remote = IF Seeded THEN 1 ELSE None
    /\ inflight = {}
    /\ uploaded = {}
    /\ nBlobs = 1
    /\ content = [b \in Blob |-> {}]
    /\ nEdits = 0
    /\ disk = [d \in Device |-> 1]
    /\ bak = [d \in Device |-> None]
    /\ regMem = [d \in Device |-> IF Seeded THEN SeedBlock ELSE FreshBlock]
    /\ regDisk = [d \in Device |-> IF Seeded THEN SeedBlock ELSE FreshBlock]
    /\ pc = [d \in Device |-> "idle"]
    /\ run = [d \in Device |-> NoRun]
    /\ ifm = [d \in Device |-> "Unknown"]
    /\ faults \in 0..MaxFaults

-----------------------------------------------------------------------------
(* Steps shared by the actions below.                                      *)

\* Something outside the happy path happens; every such step is counted.
Fault ==
    /\ faults < MaxFaults
    /\ faults' = faults + 1

\* Control moves to the next operation of d's sync, with locals r.
Goto(d, step, r) ==
    /\ pc' = [pc EXCEPT ![d] = step]
    /\ run' = [run EXCEPT ![d] = r]

\* run_state_machine returns Err, or Ok with the two pointers.
ReturnErr(d) == Goto(d, "fail", NoRun)
ReturnOk(d, etag, sha) ==
    Goto(d, "commit", [NoRun EXCEPT !.etag = etag, !.sha = sha])

\* sync_now returns to its caller.
Finish(d) ==
    /\ Goto(d, "idle", NoRun)
    /\ ifm' = [ifm EXCEPT ![d] = "Unknown"]

\* Vault::save: the in-memory database, of content c, becomes the new bytes
\* of d's vault file (write_atomic_with: all or nothing).
SaveVault(d, c) ==
    /\ nBlobs < MaxBlobs
    /\ nBlobs' = nBlobs + 1
    /\ content' = [content EXCEPT ![nBlobs + 1] = c]
    /\ disk' = [disk EXCEPT ![d] = nBlobs + 1]

\* The server honours a PUT under the header `ifMatch`.
Accepts(ifMatch) ==
    \/ ifMatch = None
    \/ ~honours
    \/ remote = ifMatch

\* The object takes the body of an accepted PUT.
ApplyPut(body) ==
    /\ remote' = body
    /\ uploaded' = uploaded \cup content[body]

-----------------------------------------------------------------------------
(* The user and the environment.                                           *)

\* The user changes the vault and it is saved.  The open Vault holds the
\* exclusive lock and a sync owns the Vault, so edits and syncs of one
\* device exclude each other.
Edit(d) ==
    /\ pc[d] = "idle"
    /\ nEdits < MaxEdits
    /\ nEdits' = nEdits + 1
    /\ SaveVault(d, content[disk[d]] \cup {nEdits + 1})
    /\ UNCHANGED <<store, bak, reg, pc, run, ifm, faults>>

\* Sync::configure_remote: a fresh block, then registry.save, which may fail
\* after the in-memory registry has already changed.
ConfigureRemote(d, saved) ==
    /\ pc[d] = "idle"
    /\ Fault
    /\ regMem' = [regMem EXCEPT ![d] = FreshBlock]
    /\ regDisk' = IF saved THEN [regDisk EXCEPT ![d] = FreshBlock] ELSE regDisk
    /\ UNCHANGED <<store, blobs, nEdits, files, pc, run, ifm>>

\* The process of d dies, or exits and starts again: the registry is loaded
\* from vaults.toml, the vault file is what the last save left.
Crash(d) ==
    /\ pc[d] # "idle" \/ regMem[d] # regDisk[d]
    /\ Fault
    /\ Finish(d)
    /\ regMem' = [regMem EXCEPT ![d] = regDisk[d]]
    /\ UNCHANGED <<store, blobs, nEdits, files, regDisk>>

\* Somebody deletes the object.
LoseObject ==
    /\ MayLoseObject
    /\ remote # None
    /\ Fault
    /\ remote' = None
    /\ UNCHANGED <<honours, inflight, uploaded, blobs, nEdits, files, reg, pc, run, ifm>>

\* The server processes a PUT whose client has stopped waiting for it.
DeliverLate(m) ==
    /\ m \in inflight
    /\ inflight' = inflight \ {m}
    /\ IF Accepts(m.ifMatch) THEN ApplyPut(m.body)
                             ELSE UNCHANGED <<remote, uploaded>>
    /\ UNCHANGED <<honours, blobs, nEdits, files, reg, pc, run, ifm, faults>>

-----------------------------------------------------------------------------
(* sync_now and run_state_machine, one operation per action.               *)

\* sync_now: read the sync block, build the transport with the cached
\* classification.
StartSync(d) ==
    /\ pc[d] = "idle"
    /\ Goto(d, "head", NoRun)
    /\ ifm' = [ifm EXCEPT ![d] = regMem[d].ifm]
    /\ UNCHANGED <<store, blobs, nEdits, files, reg, faults>>

\* 1. HEAD the object (404 is None).
Head(d) ==
    /\ pc[d] = "head"
    /\ Goto(d, "compare", [run[d] EXCEPT !.head = remote])
    /\ UNCHANGED <<store, blobs, nEdits, files, reg, ifm, faults>>

RemoteChanged(d) == run[d].head # regMem[d].etag
LocalChanged(d) == disk[d] # regMem[d].sha

\* put_conditional(body, ifMatch) is called.  A conditional PUT to a backend
\* not yet classified runs the probe first, which writes a key of its own and
\* may be inconclusive.
CallPut(d, path, tries, body, ifMatch) ==
    /\ Goto(d, "put", [NoRun EXCEPT !.path = path, !.tries = tries,
                                    !.body = body, !.ifMatch = ifMatch])
    /\ \E class \in IfMatchSupport :
          /\ IF ifMatch # None /\ ifm[d] = "Unknown"
             THEN class \in {"Unknown", IF honours THEN "Supported" ELSE "Degraded"}
             ELSE class = ifm[d]
          /\ ifm' = [ifm EXCEPT ![d] = class]

\* 2., 3. Read and hash the vault file once, compare both pointers.
\* Row (false, false): nothing to do, the pointers stay.
CompareInSync(d) ==
    /\ pc[d] = "compare"
    /\ ~RemoteChanged(d) /\ ~LocalChanged(d)
    /\ ReturnOk(d, regMem[d].etag, regMem[d].sha)
    /\ UNCHANGED <<store, blobs, nEdits, files, reg, ifm, faults>>

\* Faulty variant: the push forgets the version it compared with.
BugPushUnconditional(d) ==
    /\ pc[d] = "compare"
    /\ ~RemoteChanged(d) /\ LocalChanged(d)
    /\ CallPut(d, "push", 0, disk[d], None)
    /\ UNCHANGED <<store, blobs, nEdits, files, reg, faults>>

\* Row (false, true): push the bytes just read; no pointer yet means the
\* unconditional first seed.
ComparePush(d) ==
    /\ pc[d] = "compare"
    /\ ~RemoteChanged(d) /\ LocalChanged(d)
    /\ CallPut(d, "push", 0, disk[d], regMem[d].etag)
    /\ UNCHANGED <<store, blobs, nEdits, files, reg, faults>>

\* Row (true, false): fast-replace.
CompareFast(d) ==
    /\ pc[d] = "compare"
    /\ RemoteChanged(d) /\ ~LocalChanged(d)
    /\ Goto(d, "fetch", [NoRun EXCEPT !.path = "fast"])
    /\ UNCHANGED <<store, blobs, nEdits, files, reg, ifm, faults>>

\* Row (true, true): merge, which takes its backup before it fetches.
CompareMerge(d) ==
    /\ pc[d] = "compare"
    /\ RemoteChanged(d) /\ LocalChanged(d)
    /\ Goto(d, "backup", [NoRun EXCEPT !.path = "merge"])
    /\ UNCHANGED <<store, blobs, nEdits, files, reg, ifm, faults>>

\* backup::snapshot_pre_merge: copy the vault file to .kdbx.bak.
Backup(d) ==
    /\ pc[d] = "backup"
    /\ bak' = [bak EXCEPT ![d] = disk[d]]
    /\ Goto(d, IF run[d].path = "fast" THEN "replace" ELSE "fetch", run[d])
    /\ UNCHANGED <<store, blobs, nEdits, disk, reg, ifm, faults>>

\* fetch_if_changed(prev_remote) of the fast path, answered 304: the object
\* is back at the version of the last sync.
FetchNotModified(d) ==
    /\ pc[d] = "fetch" /\ run[d].path = "fast"
    /\ remote # None /\ remote = regMem[d].etag
    /\ ReturnOk(d, regMem[d].etag, regMem[d].sha)
    /\ UNCHANGED <<store, blobs, nEdits, files, reg, ifm, faults>>

\* Faulty variant: no backup before a fast-replace.
BugFetchFastNoBackup(d) ==
    /\ pc[d] = "fetch" /\ run[d].path = "fast"
    /\ remote \notin {None, regMem[d].etag}
    /\ Goto(d, "replace", [run[d] EXCEPT !.snap = remote])
    /\ UNCHANGED <<store, blobs, nEdits, files, reg, ifm, faults>>

\* fetch_if_changed(prev_remote) of the fast path, answered 200; decryption
\* and the KDF check succeed.
FetchFast(d) ==
    /\ pc[d] = "fetch" /\ run[d].path = "fast"
    /\ remote \notin {None, regMem[d].etag}
    /\ Goto(d, "backup", [run[d] EXCEPT !.snap = remote])
    /\ UNCHANGED <<store, blobs, nEdits, files, reg, ifm, faults>>

\* fetch_if_changed(None) of the merge loop, one more attempt.
FetchMerge(d) ==
    /\ pc[d] = "fetch" /\ run[d].path = "merge"
    /\ remote # None
    /\ Goto(d, "reconcile", [run[d] EXCEPT !.snap = remote, !.tries = @ + 1])
    /\ UNCHANGED <<store, blobs, nEdits, files, reg, ifm, faults>>

\* GET of an object that is gone: NotFound is a hard error on both paths.
FetchNotFound(d) ==
    /\ pc[d] = "fetch"
    /\ remote = None
    /\ ReturnErr(d)
    /\ UNCHANGED <<store, blobs, nEdits, files, reg, ifm, faults>>

\* Fast path: replace_database with the fetched one and save it.
Replace(d) ==
    /\ pc[d] = "replace"
    /\ SaveVault(d, content[run[d].snap])
    /\ Goto(d, "rehash", run[d])
    /\ UNCHANGED <<store, nEdits, bak, reg, ifm, faults>>

\* Faulty variant: the version is asked for again instead of remembered.
BugRehashAsksAgain(d) ==
    /\ pc[d] = "rehash"
    /\ ReturnOk(d, remote, disk[d])
    /\ UNCHANGED <<store, blobs, nEdits, files, reg, ifm, faults>>

\* Fast path: hash the bytes just saved; the pointers are the version that
\* was fetched and that hash.
Rehash(d) ==
    /\ pc[d] = "rehash"
    /\ ReturnOk(d, run[d].snap, disk[d])
    /\ UNCHANGED <<store, blobs, nEdits, files, reg, ifm, faults>>

\* Faulty variant: the merge keeps the remote side only.
BugReconcileTheirs(d) ==
    /\ pc[d] = "reconcile"
    /\ SaveVault(d, content[run[d].snap])
    /\ CallPut(d, "merge", run[d].tries, nBlobs + 1, run[d].snap)
    /\ UNCHANGED <<store, nEdits, bak, reg, faults>>

\* Merge loop: reconcile the fetched database into the open one, save, and
\* put the saved bytes under the version that was fetched.
Reconcile(d) ==
    /\ pc[d] = "reconcile"
    /\ SaveVault(d, content[disk[d]] \cup content[run[d].snap])
    /\ CallPut(d, "merge", run[d].tries, nBlobs + 1, run[d].snap)
    /\ UNCHANGED <<store, nEdits, bak, reg, faults>>

-----------------------------------------------------------------------------
(* put_conditional.                                                        *)

\* The if-match header really sent: a degraded backend gets none.
Wire(d) == IF ifm[d] = "Degraded" THEN None ELSE run[d].ifMatch

\* put_conditional returns the new version: bytes and version agree.
PutReturnsOk(d) == ReturnOk(d, run[d].body, run[d].body)

\* Faulty variant: a lost race is reported as success.
BugLostRaceIsOk(d) ==
    ReturnOk(d, run[d].body, run[d].body)

\* put_conditional returns a 412 or ConcurrentWriteDetected: the push row
\* reports it, the merge loop fetches again until its attempts are used up.
PutReturnsPreconditionFailed(d) ==
    IF run[d].path = "merge" /\ run[d].tries < MaxAttempts
    THEN Goto(d, "fetch", [NoRun EXCEPT !.path = "merge", !.tries = run[d].tries])
    ELSE ReturnErr(d)

\* The PUT is accepted and its answer arrives.  A degraded conditional PUT is
\* followed by a HEAD that compares ETags.
PutAccepted(d) ==
    /\ pc[d] = "put"
    /\ Accepts(Wire(d))
    /\ ApplyPut(run[d].body)
    /\ IF ifm[d] = "Degraded" /\ run[d].ifMatch # None
       THEN Goto(d, "verify", run[d])
       ELSE PutReturnsOk(d)
    /\ UNCHANGED <<honours, inflight, blobs, nEdits, files, reg, ifm, faults>>

\* 412: the object has another version than the one named.
PutRejected(d) ==
    /\ pc[d] = "put"
    /\ ~Accepts(Wire(d)) /\ remote # None
    /\ PutReturnsPreconditionFailed(d)
    /\ UNCHANGED <<store, blobs, nEdits, files, reg, ifm, faults>>

\* 404: If-Match on an object that is gone is a hard error.
PutNotFound(d) ==
    /\ pc[d] = "put"
    /\ ~Accepts(Wire(d)) /\ remote = None
    /\ ReturnErr(d)
    /\ UNCHANGED <<store, blobs, nEdits, files, reg, ifm, faults>>

\* 503, whether or not the server had applied the PUT: signed_request sends
\* the same request once more.
PutUnavailable(d, applied) ==
    /\ pc[d] = "put" /\ ~run[d].resent
    /\ Fault
    /\ applied => Accepts(Wire(d))
    /\ IF applied THEN ApplyPut(run[d].body) ELSE UNCHANGED <<remote, uploaded>>
    /\ Goto(d, "put", [run[d] EXCEPT !.resent = TRUE])
    /\ UNCHANGED <<honours, inflight, blobs, nEdits, files, reg, ifm>>

\* No answer arrives: the server has applied the PUT or may do so later.
PutUnanswered(d, late) ==
    /\ pc[d] = "put"
    /\ Fault
    /\ IF late
       THEN /\ inflight' = inflight \cup
                  {[from |-> d, body |-> run[d].body, ifMatch |-> Wire(d)]}
            /\ UNCHANGED <<remote, uploaded>>
       ELSE Accepts(Wire(d)) /\ ApplyPut(run[d].body) /\ UNCHANGED inflight
    /\ ReturnErr(d)
    /\ UNCHANGED <<honours, blobs, nEdits, files, reg, ifm>>

\* The HEAD after a degraded PUT: the ETag must still be that of our body.
Verify(d) ==
    /\ pc[d] = "verify"
    /\ \/ remote = run[d].body /\ PutReturnsOk(d)
       \/ remote \notin {None, run[d].body} /\ PutReturnsPreconditionFailed(d)
       \/ remote = None /\ ReturnErr(d)
    /\ UNCHANGED <<store, blobs, nEdits, files, reg, ifm, faults>>

-----------------------------------------------------------------------------
(* The end of sync_now_with_transport.                                     *)

\* Any `?` on the way: a request that never reached the server or was
\* refused, a file that cannot be read or written, a remote database of
\* another password or another vault, an unresolvable merge.
Fail(d) ==
    /\ pc[d] \notin {"idle", "commit", "fail"}
    /\ Fault
    /\ ReturnErr(d)
    /\ UNCHANGED <<store, blobs, nEdits, files, reg, ifm>>

\* update_registry_sync_block changes the in-memory registry; registry.save
\* writes it to vaults.toml unless it fails.
PersistBlock(d, block) ==
    /\ regMem' = [regMem EXCEPT ![d] = block]
    /\ \/ regDisk' = [regDisk EXCEPT ![d] = block] /\ UNCHANGED faults
       \/ UNCHANGED regDisk /\ Fault

\* Ok: store the new pointers and the classification.  A failing
\* registry.save turns the result into an error.
Commit(d) ==
    /\ pc[d] = "commit"
    /\ PersistBlock(d, [etag |-> run[d].etag, sha |-> run[d].sha, ifm |-> ifm[d]])
    /\ Finish(d)
    /\ UNCHANGED <<store, blobs, nEdits, files>>

\* Err: the pointers stay, the classification is stored if that works.
Abort(d) ==
    /\ pc[d] = "fail"
    /\ PersistBlock(d, [regMem[d] EXCEPT !.ifm = ifm[d]])
    /\ Finish(d)
    /\ UNCHANGED <<store, blobs, nEdits, files>>

-----------------------------------------------------------------------------
\* The operations of a running sync.
Step(d) ==
    \/ Head(d)
    \/ CompareInSync(d) \/ ComparePush(d) \/ CompareFast(d) \/ CompareMerge(d)
    \/ Backup(d)
    \/ FetchNotModified(d) \/ FetchFast(d) \/ FetchMerge(d) \/ FetchNotFound(d)
    \/ Replace(d) \/ Rehash(d) \/ Reconcile(d)
    \/ PutAccepted(d) \/ PutRejected(d) \/ PutNotFound(d) \/ Verify(d)
    \/ Commit(d) \/ Abort(d)

Disturb(d) ==
    \/ \E saved \in BOOLEAN : ConfigureRemote(d, saved)
    \/ Crash(d)
    \/ \E applied \in BOOLEAN : PutUnavailable(d, applied)
    \/ \E late \in BOOLEAN : PutUnanswered(d, late)
    \/ Fail(d)

Next ==
    \/ \E d \in Device : Edit(d) \/ StartSync(d) \/ Step(d) \/ Disturb(d)
    \/ \E m \in inflight : DeliverLate(m)
    \/ LoseObject

Spec == Init /\ [][Next]_vars

-----------------------------------------------------------------------------
(* Properties.                                                             *)

\* The deployment the promise of SharedVault is made for: If-Match is
\* honoured and the key is never empty, so no PUT is unconditional.
SafeDeployment == Backends = {TRUE} /\ Seeded /\ ~MayLoseObject

\* Content of a pointer; the absent object has no content.
Holds(b) == IF b = None THEN {} ELSE content[b]

\* A sync that would answer AlreadyInSync (both pointers of the registry
\* match) is right: file and object then hold the same edits.  This needs
\* every pair of pointers a sync returns to name one and the same state,
\* whatever happened between HEAD, GET, save and PUT.
PointersAgree ==
    \A d \in Device : \A block \in {regMem[d], regDisk[d]} :
        Holds(block.etag) = Holds(block.sha)

\* A save that drops edits from a vault file (fast-replace) happens only when
\* the .kdbx.bak next to it holds them.
ShrinkIsBackedUp ==
    [][\A d \in Device : content[disk[d]] \subseteq content'[disk'[d]]
                          \/ content[disk[d]] \subseteq Holds(bak[d])]_vars

\* An edit that has never reached the object is never dropped from the vault
\* file it was made in: not by a fast-replace after a lost answer, a failed
\* registry.save or a crash.
UnuploadedEditsKept ==
    [][\A d \in Device : content[disk[d]] \ content'[disk'[d]] \subseteq uploaded]_vars

\* The replicas of SharedVault: the edits in each vault file and in the object.
Abstract == INSTANCE SharedVault WITH
    made   <- nEdits,
    seen   <- [d \in Device |-> content[disk[d]]],
    shared <- Holds(remote)

\* The devices and the object behave as replicas of one grow-only vault: no
\* sync of any device, however interleaved, retried or interrupted, removes
\* an edit from a vault file or from the object (sync_now).
ImplementsSharedVault == Abstract!Spec

\* Every edit is still in some vault file, some .kdbx.bak or the object.
NoEditLost ==
    \A e \in 1..nEdits :
        \/ e \in Holds(remote)
        \/ \E d \in Device : e \in content[disk[d]] \cup Holds(bak[d])

\* The code runs a sync to its end (every call returns), and the user goes on
\* syncing each device: the TUI does so on unlock, lock and quit.
Fairness == \A d \in Device : WF_vars(StartSync(d)) /\ WF_vars(Step(d))

FairSpec == Spec /\ Fairness

\* Once the edits and the faults have ended, every device and the object end
\* up with all the edits: retries, exhausted merge loops and pushes that met a
\* 412 do not keep the devices apart.
Converges ==
    <>[](\A d \in Device : content[disk[d]] = 1..nEdits /\ Holds(remote) = 1..nEdits)
=============================================================================
