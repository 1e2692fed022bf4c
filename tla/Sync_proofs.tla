---------------------------- MODULE Sync_proofs ----------------------------
(* Proofs about Sync: what holds for every deployment, and that a safe one   *)
(* implements SharedVault.                                                  *)
EXTENDS Sync, TLAPS

(***************************************************************************)
(* What the control position says about the local variables: a sync about  *)
(* to use bytes has them, and a merge loop about to fetch has an attempt   *)
(* left.                                                                   *)
(***************************************************************************)
ShapeOf(step, r) ==
    /\ step \in {"put", "verify"} => r.body # None
    /\ step \in {"replace", "rehash", "reconcile"} => r.snap # None
    /\ step = "backup" /\ r.path = "fast" => r.snap # None
    /\ step \in {"backup", "fetch"} /\ r.path = "merge" => r.tries < MaxAttempts

Shape == \A d \in Device : ShapeOf(pc[d], run[d])

TypeInv == TypeOK /\ Shape

\* The part of TypeOK that is not about the control state of the syncs.
DataTypeOK ==
    /\ honours \in Backends
    /\ remote \in Pointer
    /\ inflight \subseteq PutRequest
    /\ uploaded \subseteq Edits
    /\ nBlobs \in Blob
    /\ content \in [Blob -> SUBSET Edits]
    /\ nEdits \in 0..MaxEdits
    /\ disk \in [Device -> Blob]
    /\ bak \in [Device -> Pointer]
    /\ regMem \in [Device -> SyncBlock]
    /\ regDisk \in [Device -> SyncBlock]
    /\ ifm \in [Device -> IfMatchSupport]
    /\ faults \in 0..MaxFaults

ControlTypeOK ==
    /\ pc \in [Device -> Steps]
    /\ run \in [Device -> Run]
    /\ Shape

\* The type invariant in two parts: the files and objects, and the program counters.
LEMMA TypeInvParts == TypeInv <=> DataTypeOK /\ ControlTypeOK
  BY DEF TypeInv, TypeOK, DataTypeOK, ControlTypeOK

\* The constants and the record values the actions start from are well typed.
LEMMA ConstantTypes ==
    /\ MaxAttempts \in Nat \ {0}
    /\ 1 \in Blob /\ None \notin Blob /\ Blob \subseteq Nat /\ None \in Nat
    /\ FreshBlock \in SyncBlock /\ SeedBlock \in SyncBlock
    /\ NoRun \in Run
  BY SyncAssumption DEF MaxAttempts, Blob, None, FreshBlock, SeedBlock, SyncBlock,
     IfMatchSupport, NoRun, Run, Paths, Pointer

\* The initial states have their types.
LEMMA TypeInit == Init => TypeInv
  <1> SUFFICES ASSUME Init PROVE TypeInv
    OBVIOUS
  <1>1. TypeOK
    BY ConstantTypes, SyncAssumption
    DEF Init, TypeOK, Pointer, Steps, IfMatchSupport
  <1>2. Shape
    BY ConstantTypes DEF Init, Shape, ShapeOf, NoRun
  <1>3. QED
    BY <1>1, <1>2 DEF TypeInv

-----------------------------------------------------------------------------
(* The shared steps keep the types.                                        *)

\* Going to the next step of a run keeps the types of the control part.
LEMMA GotoTypes ==
    ASSUME ControlTypeOK, NEW d \in Device, NEW step \in Steps, NEW r \in Run,
           ShapeOf(step, r), Goto(d, step, r)
    PROVE  ControlTypeOK'
  BY DEF ControlTypeOK, Shape, ShapeOf, Goto

\* A run that returns an error keeps the types of the control part.
LEMMA ReturnErrTypes ==
    ASSUME ControlTypeOK, NEW d \in Device, ReturnErr(d)
    PROVE  ControlTypeOK'
  <1>1. ShapeOf("fail", NoRun)
    BY DEF ShapeOf
  <1>2. QED
    BY <1>1, GotoTypes, ConstantTypes DEF ReturnErr, Steps

\* A run that returns its block keeps the types of the control part.
LEMMA ReturnOkTypes ==
    ASSUME ControlTypeOK, NEW d \in Device, NEW etag \in Pointer, NEW sha \in Pointer,
           ReturnOk(d, etag, sha)
    PROVE  ControlTypeOK'
  <1>1. [NoRun EXCEPT !.etag = etag, !.sha = sha] \in Run
    BY ConstantTypes DEF Run, NoRun
  <1>2. ShapeOf("commit", [NoRun EXCEPT !.etag = etag, !.sha = sha])
    BY DEF ShapeOf
  <1>3. QED
    BY <1>1, <1>2, GotoTypes DEF ReturnOk, Steps

\* A run that ends keeps the types of the control part.
LEMMA FinishTypes ==
    ASSUME TypeInv, NEW d \in Device, Finish(d)
    PROVE  ControlTypeOK' /\ ifm' \in [Device -> IfMatchSupport]
  <1>1. ShapeOf("idle", NoRun)
    BY DEF ShapeOf
  <1>2. ControlTypeOK'
    BY <1>1, GotoTypes, TypeInvParts, ConstantTypes DEF Finish, Steps
  <1>3. QED
    BY <1>2 DEF Finish, TypeInv, TypeOK, IfMatchSupport

\* Sending a PUT keeps the types of the control part.
LEMMA CallPutTypes ==
    ASSUME TypeInv, NEW d \in Device, NEW path \in Paths,
           NEW tries \in 0..MaxAttempts, NEW body \in Blob, NEW ifMatch \in Pointer,
           CallPut(d, path, tries, body, ifMatch)
    PROVE  ControlTypeOK' /\ ifm' \in [Device -> IfMatchSupport]
  <1> DEFINE r == [NoRun EXCEPT !.path = path, !.tries = tries,
                                !.body = body, !.ifMatch = ifMatch]
  <1>1. r \in Run /\ r.body = body
    BY ConstantTypes DEF Run, NoRun, Pointer
  <1>2. ShapeOf("put", r)
    BY <1>1, ConstantTypes DEF ShapeOf
  <1>3. ControlTypeOK'
    BY <1>1, <1>2, GotoTypes, TypeInvParts DEF CallPut, Steps
  <1>4. QED
    BY <1>3 DEF CallPut, TypeInv, TypeOK, IfMatchSupport

\* Saving the vault keeps the types of the blobs and the files.
LEMMA SaveVaultTypes ==
    ASSUME TypeInv, NEW d \in Device, NEW c \in SUBSET Edits, SaveVault(d, c)
    PROVE  /\ nBlobs' \in Blob
           /\ content' \in [Blob -> SUBSET Edits]
           /\ disk' \in [Device -> Blob]
  BY ConstantTypes, SyncAssumption DEF TypeInv, TypeOK, SaveVault, Blob

\* A PUT that lost the race keeps the types of the control part.
LEMMA PutReturnsPreconditionFailedTypes ==
    ASSUME TypeInv, NEW d \in Device, PutReturnsPreconditionFailed(d)
    PROVE  ControlTypeOK'
  <1> DEFINE r == [NoRun EXCEPT !.path = "merge", !.tries = run[d].tries]
  <1>1. run[d].tries \in 0..MaxAttempts
    BY DEF TypeInv, TypeOK, Run
  <1>2. CASE run[d].path = "merge" /\ run[d].tries < MaxAttempts
    <2>1. r \in Run /\ r.tries = run[d].tries
      BY <1>1, ConstantTypes DEF Run, NoRun, Paths
    <2>2. ShapeOf("fetch", r)
      BY <1>2, <2>1 DEF ShapeOf, NoRun
    <2>3. QED
      BY <1>2, <2>1, <2>2, GotoTypes, TypeInvParts DEF PutReturnsPreconditionFailed, Steps
  <1>3. CASE ~(run[d].path = "merge" /\ run[d].tries < MaxAttempts)
    BY <1>3, ReturnErrTypes, TypeInvParts DEF PutReturnsPreconditionFailed
  <1>4. QED
    BY <1>2, <1>3

\* A PUT that was done keeps the types of the control part.
LEMMA PutReturnsOkTypes ==
    ASSUME TypeInv, NEW d \in Device, PutReturnsOk(d)
    PROVE  ControlTypeOK'
  <1>1. run[d].body \in Pointer
    BY DEF TypeInv, TypeOK, Run
  <1>2. QED
    BY <1>1, ReturnOkTypes, TypeInvParts DEF PutReturnsOk

\* The body of a PUT under way is bytes, so the object may take it.
LEMMA ApplyPutTypes ==
    ASSUME TypeInv, NEW body \in Blob, ApplyPut(body)
    PROVE  remote' \in Pointer /\ uploaded' \subseteq Edits
  BY DEF TypeInv, TypeOK, ApplyPut, Pointer

\* Persisting the sync block keeps the types of the registry.
LEMMA PersistBlockTypes ==
    ASSUME TypeInv, NEW d \in Device, NEW block \in SyncBlock, PersistBlock(d, block)
    PROVE  /\ regMem' \in [Device -> SyncBlock]
           /\ regDisk' \in [Device -> SyncBlock]
           /\ faults' \in 0..MaxFaults
  BY SyncAssumption DEF TypeInv, TypeOK, PersistBlock, Fault

\* A fault is counted within its bound.
LEMMA FaultTypes ==
    ASSUME TypeInv, Fault
    PROVE  faults' \in 0..MaxFaults
  BY SyncAssumption DEF TypeInv, TypeOK, Fault

\* What a device's blocks, locals and PUT body are in a well-typed state.
LEMMA DeviceTypes ==
    ASSUME TypeInv, NEW d \in Device
    PROVE  /\ regMem[d] \in SyncBlock /\ regDisk[d] \in SyncBlock
           /\ regMem[d].etag \in Pointer /\ regMem[d].sha \in Pointer
           /\ run[d] \in Run /\ run[d].snap \in Pointer /\ run[d].tries \in 0..MaxAttempts
           /\ run[d].etag \in Pointer /\ run[d].sha \in Pointer
           /\ run[d].ifMatch \in Pointer
           /\ disk[d] \in Blob /\ disk[d] \in Pointer
           /\ content[disk[d]] \subseteq Edits
           /\ pc[d] \in {"put", "verify"} => run[d].body \in Blob
           /\ pc[d] \in {"replace", "rehash", "reconcile"}
                 => run[d].snap \in Blob /\ content[run[d].snap] \subseteq Edits
  <1>1. run[d] \in Run /\ regMem[d] \in SyncBlock /\ regDisk[d] \in SyncBlock /\ disk[d] \in Blob
    BY DEF TypeInv, TypeOK
  <1>2. ShapeOf(pc[d], run[d])
    BY DEF TypeInv, Shape
  <1>3. content \in [Blob -> SUBSET Edits]
    BY DEF TypeInv, TypeOK
  <1>4. QED
    BY <1>1, <1>2, <1>3 DEF ShapeOf, Run, SyncBlock, Pointer

-----------------------------------------------------------------------------
\* Every step keeps the types and the shape of the local variables.
LEMMA TypeNext == TypeInv /\ [Next]_vars => TypeInv'
  <1> SUFFICES ASSUME TypeInv, [Next]_vars PROVE DataTypeOK' /\ ControlTypeOK'
    BY TypeInvParts DEF TypeInv, TypeOK, DataTypeOK, ControlTypeOK
  <1> DataTypeOK /\ ControlTypeOK
    BY TypeInvParts
  <1> USE DEF store, blobs, files, reg
  <1>1. ASSUME NEW d \in Device, Edit(d)
        PROVE  DataTypeOK' /\ ControlTypeOK'
    <2>1. content[disk[d]] \cup {nEdits + 1} \in SUBSET Edits
      BY <1>1, DeviceTypes, SyncAssumption DEF Edit, DataTypeOK, Edits
    <2>2. QED
      BY <1>1, <2>1, SaveVaultTypes, SyncAssumption
      DEF Edit, DataTypeOK, ControlTypeOK, Shape
  <1>2. ASSUME NEW d \in Device, StartSync(d)
        PROVE  DataTypeOK' /\ ControlTypeOK'
    <2>1. ShapeOf("head", NoRun)
      BY DEF ShapeOf
    <2>2. ControlTypeOK'
      BY <1>2, <2>1, GotoTypes, ConstantTypes DEF StartSync, Steps
    <2>3. QED
      BY <1>2, <2>2, DeviceTypes DEF StartSync, DataTypeOK, SyncBlock
  <1>3. ASSUME NEW d \in Device, Head(d)
        PROVE  DataTypeOK' /\ ControlTypeOK'
    <2> DEFINE r == [run[d] EXCEPT !.head = remote]
    <2>1. r \in Run
      BY <1>3, DeviceTypes, ConstantTypes DEF Head, Run, NoRun, Paths, DataTypeOK
    <2>2. ShapeOf("compare", r)
      BY <1>3, DeviceTypes, ConstantTypes DEF Head, ShapeOf, Run, NoRun
    <2>3. ControlTypeOK'
      BY <1>3, <2>1, <2>2, GotoTypes DEF Head, Steps
    <2>4. QED
      BY <1>3, <2>3 DEF Head, DataTypeOK
  <1>4. ASSUME NEW d \in Device, CompareInSync(d)
        PROVE  DataTypeOK' /\ ControlTypeOK'
    BY <1>4, ReturnOkTypes, DeviceTypes
    DEF CompareInSync, DataTypeOK
  <1>5. ASSUME NEW d \in Device, ComparePush(d)
        PROVE  DataTypeOK' /\ ControlTypeOK'
    <2>1. "push" \in Paths /\ 0 \in 0..MaxAttempts
      BY ConstantTypes DEF Paths
    <2>2. ControlTypeOK' /\ ifm' \in [Device -> IfMatchSupport]
      BY <1>5, <2>1, CallPutTypes, DeviceTypes DEF ComparePush
    <2>3. QED
      BY <1>5, <2>2 DEF ComparePush, DataTypeOK
  <1>6. ASSUME NEW d \in Device, CompareFast(d)
        PROVE  DataTypeOK' /\ ControlTypeOK'
    <2> DEFINE r == [NoRun EXCEPT !.path = "fast"]
    <2>1. r \in Run
      BY <1>6, DeviceTypes, ConstantTypes DEF CompareFast, Run, NoRun, Paths, DataTypeOK
    <2>2. ShapeOf("fetch", r)
      BY <1>6, DeviceTypes, ConstantTypes DEF CompareFast, ShapeOf, Run, NoRun
    <2>3. ControlTypeOK'
      BY <1>6, <2>1, <2>2, GotoTypes DEF CompareFast, Steps
    <2>4. QED
      BY <1>6, <2>3 DEF CompareFast, DataTypeOK
  <1>7. ASSUME NEW d \in Device, CompareMerge(d)
        PROVE  DataTypeOK' /\ ControlTypeOK'
    <2> DEFINE r == [NoRun EXCEPT !.path = "merge"]
    <2>1. r \in Run
      BY <1>7, DeviceTypes, ConstantTypes DEF CompareMerge, Run, NoRun, Paths, DataTypeOK
    <2>2. ShapeOf("backup", r)
      BY <1>7, DeviceTypes, ConstantTypes DEF CompareMerge, ShapeOf, Run, NoRun
    <2>3. ControlTypeOK'
      BY <1>7, <2>1, <2>2, GotoTypes DEF CompareMerge, Steps
    <2>4. QED
      BY <1>7, <2>3 DEF CompareMerge, DataTypeOK
  <1>8. ASSUME NEW d \in Device, Backup(d)
        PROVE  DataTypeOK' /\ ControlTypeOK'
    <2> DEFINE step == IF run[d].path = "fast" THEN "replace" ELSE "fetch"
    <2>1. ShapeOf(step, run[d])
      BY <1>8 DEF Backup, ControlTypeOK, Shape, ShapeOf
    <2>2. ControlTypeOK'
      BY <1>8, <2>1, GotoTypes, DeviceTypes DEF Backup, Steps
    <2>3. QED
      BY <1>8, <2>2, DeviceTypes DEF Backup, DataTypeOK
  <1>9. ASSUME NEW d \in Device, FetchNotModified(d)
        PROVE  DataTypeOK' /\ ControlTypeOK'
    BY <1>9, ReturnOkTypes, DeviceTypes
    DEF FetchNotModified, DataTypeOK
  <1>10. ASSUME NEW d \in Device, FetchFast(d)
        PROVE  DataTypeOK' /\ ControlTypeOK'
    <2> DEFINE r == [run[d] EXCEPT !.snap = remote]
    <2>1. r \in Run
      BY <1>10, DeviceTypes, ConstantTypes DEF FetchFast, Run, NoRun, Paths, DataTypeOK
    <2>2. ShapeOf("backup", r)
      BY <1>10, DeviceTypes, ConstantTypes DEF FetchFast, ShapeOf, Run, NoRun
    <2>3. ControlTypeOK'
      BY <1>10, <2>1, <2>2, GotoTypes DEF FetchFast, Steps
    <2>4. QED
      BY <1>10, <2>3 DEF FetchFast, DataTypeOK
  <1>11. ASSUME NEW d \in Device, FetchMerge(d)
        PROVE  DataTypeOK' /\ ControlTypeOK'
    <2> DEFINE r == [run[d] EXCEPT !.snap = remote, !.tries = @ + 1]
    <2>1. run[d].tries + 1 \in 0..MaxAttempts
      BY <1>11, DeviceTypes, ConstantTypes DEF FetchMerge, ControlTypeOK, Shape, ShapeOf
    <2>2. r \in Run /\ r.snap = remote
      BY <2>1, DeviceTypes DEF Run, DataTypeOK
    <2>3. ShapeOf("reconcile", r)
      BY <1>11, <2>2 DEF FetchMerge, ShapeOf
    <2>4. ControlTypeOK'
      BY <1>11, <2>2, <2>3, GotoTypes DEF FetchMerge, Steps
    <2>5. QED
      BY <1>11, <2>4 DEF FetchMerge, DataTypeOK
  <1>12. ASSUME NEW d \in Device, FetchNotFound(d)
        PROVE  DataTypeOK' /\ ControlTypeOK'
    BY <1>12, ReturnErrTypes, DeviceTypes
    DEF FetchNotFound, DataTypeOK
  <1>13. ASSUME NEW d \in Device, Replace(d)
        PROVE  DataTypeOK' /\ ControlTypeOK'
    <2>1. ShapeOf("rehash", run[d])
      BY <1>13 DEF Replace, ControlTypeOK, Shape, ShapeOf
    <2>2. ControlTypeOK'
      BY <1>13, <2>1, GotoTypes, DeviceTypes DEF Replace, Steps
    <2>3. QED
      BY <1>13, <2>2, SaveVaultTypes, DeviceTypes DEF Replace, DataTypeOK
  <1>14. ASSUME NEW d \in Device, Rehash(d)
        PROVE  DataTypeOK' /\ ControlTypeOK'
    BY <1>14, ReturnOkTypes, DeviceTypes
    DEF Rehash, DataTypeOK
  <1>15. ASSUME NEW d \in Device, Reconcile(d)
        PROVE  DataTypeOK' /\ ControlTypeOK'
    <2>1. nBlobs + 1 \in Blob
      BY <1>15, SyncAssumption DEF Reconcile, SaveVault, DataTypeOK, Blob
    <2>2. content[disk[d]] \cup content[run[d].snap] \in SUBSET Edits
      BY <1>15, DeviceTypes DEF Reconcile
    <2>3. QED
      BY <1>15, <2>1, <2>2, CallPutTypes, SaveVaultTypes, DeviceTypes
      DEF Reconcile, DataTypeOK, Paths
  <1>16. ASSUME NEW d \in Device, PutAccepted(d)
        PROVE  DataTypeOK' /\ ControlTypeOK'
    <2>1. ControlTypeOK'
      <3>1. CASE ifm[d] = "Degraded" /\ run[d].ifMatch # None
        <4>1. ShapeOf("verify", run[d])
          BY <1>16 DEF PutAccepted, ControlTypeOK, Shape, ShapeOf
        <4>2. QED
          BY <1>16, <3>1, <4>1, GotoTypes, DeviceTypes DEF PutAccepted, Steps
      <3>2. CASE ~(ifm[d] = "Degraded" /\ run[d].ifMatch # None)
        BY <1>16, <3>2, PutReturnsOkTypes DEF PutAccepted
      <3>3. QED
        BY <3>1, <3>2
    <2>2. QED
      BY <1>16, <2>1, ApplyPutTypes, DeviceTypes DEF PutAccepted, DataTypeOK
  <1>17. ASSUME NEW d \in Device, PutRejected(d)
        PROVE  DataTypeOK' /\ ControlTypeOK'
    BY <1>17, PutReturnsPreconditionFailedTypes, DeviceTypes
    DEF PutRejected, DataTypeOK
  <1>18. ASSUME NEW d \in Device, PutNotFound(d)
        PROVE  DataTypeOK' /\ ControlTypeOK'
    BY <1>18, ReturnErrTypes, DeviceTypes
    DEF PutNotFound, DataTypeOK
  <1>19. ASSUME NEW d \in Device, Verify(d)
        PROVE  DataTypeOK' /\ ControlTypeOK'
    <2>1. ControlTypeOK'
      BY <1>19, PutReturnsOkTypes, PutReturnsPreconditionFailedTypes, ReturnErrTypes DEF Verify
    <2>2. QED
      BY <1>19, <2>1 DEF Verify, DataTypeOK
  <1>20. ASSUME NEW d \in Device, Commit(d)
        PROVE  DataTypeOK' /\ ControlTypeOK'
    <2>1. [etag |-> run[d].etag, sha |-> run[d].sha, ifm |-> ifm[d]] \in SyncBlock
      BY DeviceTypes DEF SyncBlock, DataTypeOK, Pointer
    <2>2. QED
      BY <1>20, <2>1, PersistBlockTypes, FinishTypes DEF Commit, DataTypeOK
  <1>21. ASSUME NEW d \in Device, Abort(d)
        PROVE  DataTypeOK' /\ ControlTypeOK'
    <2>1. [regMem[d] EXCEPT !.ifm = ifm[d]] \in SyncBlock
      BY DeviceTypes DEF SyncBlock, DataTypeOK
    <2>2. QED
      BY <1>21, <2>1, PersistBlockTypes, FinishTypes DEF Abort, DataTypeOK
  <1>22. ASSUME NEW d \in Device, NEW saved \in BOOLEAN, ConfigureRemote(d, saved)
        PROVE  DataTypeOK' /\ ControlTypeOK'
    BY <1>22, FaultTypes, ConstantTypes DEF ConfigureRemote, DataTypeOK, ControlTypeOK, Shape
  <1>23. ASSUME NEW d \in Device, Crash(d)
        PROVE  DataTypeOK' /\ ControlTypeOK'
    BY <1>23, FaultTypes, FinishTypes, DeviceTypes DEF Crash, DataTypeOK
  <1>24. ASSUME NEW d \in Device, NEW applied \in BOOLEAN, PutUnavailable(d, applied)
        PROVE  DataTypeOK' /\ ControlTypeOK'
    <2> DEFINE r == [run[d] EXCEPT !.resent = TRUE]
    <2>1. r \in Run /\ r.body = run[d].body
      BY DeviceTypes DEF Run
    <2>2. ShapeOf("put", r)
      BY <1>24, <2>1, DeviceTypes, ConstantTypes DEF PutUnavailable, ShapeOf
    <2>3. ControlTypeOK'
      BY <1>24, <2>1, <2>2, GotoTypes DEF PutUnavailable, Steps
    <2>4. remote' \in Pointer /\ uploaded' \subseteq Edits
      BY <1>24, ApplyPutTypes, DeviceTypes DEF PutUnavailable, DataTypeOK
    <2>5. QED
      BY <1>24, <2>3, <2>4, FaultTypes DEF PutUnavailable, DataTypeOK
  <1>25. ASSUME NEW d \in Device, NEW late \in BOOLEAN, PutUnanswered(d, late)
        PROVE  DataTypeOK' /\ ControlTypeOK'
    <2>1. ControlTypeOK'
      BY <1>25, ReturnErrTypes DEF PutUnanswered
    <2>2. [from |-> d, body |-> run[d].body, ifMatch |-> Wire(d)] \in PutRequest
      BY <1>25, DeviceTypes DEF PutUnanswered, PutRequest, Wire, Pointer
    <2>3. remote' \in Pointer /\ uploaded' \subseteq Edits /\ inflight' \subseteq PutRequest
      BY <1>25, <2>2, ApplyPutTypes, DeviceTypes DEF PutUnanswered, DataTypeOK
    <2>4. QED
      BY <1>25, <2>1, <2>3, FaultTypes DEF PutUnanswered, DataTypeOK
  <1>26. ASSUME NEW d \in Device, Fail(d)
        PROVE  DataTypeOK' /\ ControlTypeOK'
    BY <1>26, FaultTypes, ReturnErrTypes DEF Fail, DataTypeOK
  <1>27. ASSUME NEW m \in inflight, DeliverLate(m)
        PROVE  DataTypeOK' /\ ControlTypeOK'
    <2>1. m.body \in Blob
      BY DEF DataTypeOK, PutRequest
    <2>2. remote' \in Pointer /\ uploaded' \subseteq Edits
      BY <1>27, <2>1, ApplyPutTypes DEF DeliverLate, DataTypeOK
    <2>3. QED
      BY <1>27, <2>2 DEF DeliverLate, DataTypeOK, ControlTypeOK, Shape
  <1>28. CASE LoseObject
    BY <1>28, FaultTypes DEF LoseObject, DataTypeOK, ControlTypeOK, Shape, Pointer
  <1>29. CASE UNCHANGED vars
    BY <1>29 DEF vars, DataTypeOK, ControlTypeOK, Shape
  <1>30. QED
    BY <1>1, <1>2, <1>3, <1>4, <1>5, <1>6, <1>7, <1>8, <1>9, <1>10, <1>11, <1>12,
       <1>13, <1>14, <1>15, <1>16, <1>17, <1>18, <1>19, <1>20, <1>21, <1>22, <1>23,
       <1>24, <1>25, <1>26, <1>27, <1>28, <1>29
    DEF Next, Step, Disturb

\* Type correctness of the orchestrator's state, for any number of devices, any
\* bounds and any backend; in particular the merge loop never exceeds
\* opts.max_retries attempts and never uses bytes it has not fetched.
THEOREM TypeCorrect == Spec => []TypeOK
  <1>1. TypeInv => TypeOK
    BY DEF TypeInv
  <1>2. QED
    BY <1>1, TypeInit, TypeNext, PTL DEF Spec

-----------------------------------------------------------------------------
(***************************************************************************)
(* What the vault files, the backups, the pointers and the object hold,    *)
(* proved for every deployment: with or without If-Match, seeded or not,   *)
(* with an object that may be deleted.                                     *)
(***************************************************************************)

\* Bytes that some save has made (None counts as made).
Made(b) == b <= nBlobs

\* A pair of pointers that names one state, which the object has held.
SamePublished(etag, sha) ==
    /\ Holds(etag) = Holds(sha)
    /\ Holds(sha) \subseteq uploaded

\* The bytes a sync's local variables name have been made.
RunMade(r) ==
    Made(r.snap) /\ Made(r.body) /\ Made(r.ifMatch) /\ Made(r.etag) /\ Made(r.sha)

\* So have the bytes of the vault file and of the pointers.
Names(d) ==
    /\ Made(disk[d])
    /\ Made(regMem[d].etag) /\ Made(regMem[d].sha)
    /\ Made(regDisk[d].etag) /\ Made(regDisk[d].sha)
    /\ RunMade(run[d])

\* What a sync of d that is at `step` with locals r knows.
At(d, step, r) ==
    /\ Holds(r.snap) \subseteq uploaded
    /\ step = "verify" => Holds(r.body) \subseteq uploaded
    /\ step = "commit" => SamePublished(r.etag, r.sha)
    /\ step = "rehash" => Holds(disk[d]) = Holds(r.snap)
    /\ step \in {"fetch", "backup"} /\ r.path = "fast" => disk[d] = regMem[d].sha
    /\ step = "replace" => disk[d] = regMem[d].sha /\ bak[d] = disk[d]

Knows(d) ==
    /\ SamePublished(regMem[d].etag, regMem[d].sha)
    /\ SamePublished(regDisk[d].etag, regDisk[d].sha)
    /\ At(d, pc[d], run[d])

ObjectInv ==
    /\ Made(remote)
    /\ Holds(remote) \subseteq uploaded
    /\ \A m \in inflight : Made(m.body) /\ Made(m.ifMatch)

DeviceInv == \A d \in Device : Names(d) /\ Knows(d)

DataInv == ObjectInv /\ DeviceInv

\* At first the devices hold the vault they were given and have synced nothing.
LEMMA DataInit == Init => DataInv
  <1> SUFFICES ASSUME Init PROVE DataInv
    OBVIOUS
  <1>1. \A b \in {0, 1} : Holds(b) = {}
    BY ConstantTypes DEF Init, Holds, None
  <1>2. ObjectInv
    BY <1>1 DEF Init, ObjectInv, Made, None
  <1>3. DeviceInv
    BY <1>1 DEF Init, DeviceInv, Names, RunMade, Knows, At, SamePublished, Made, NoRun,
       FreshBlock, SeedBlock, None
  <1>4. QED
    BY <1>2, <1>3 DEF DataInv

-----------------------------------------------------------------------------
(***************************************************************************)
(* No step changes the content of bytes already made, unmakes them, or     *)
(* forgets what has been uploaded.                                         *)
(***************************************************************************)
Grows ==
    /\ nBlobs <= nBlobs'
    /\ \A b \in Blob : b <= nBlobs => content'[b] = content[b]
    /\ uploaded \subseteq uploaded'

\* The state of device e is not touched.
Still(e) ==
    /\ disk'[e] = disk[e] /\ bak'[e] = bak[e]
    /\ regMem'[e] = regMem[e] /\ regDisk'[e] = regDisk[e]
    /\ pc'[e] = pc[e] /\ run'[e] = run[e]

\* Saving the vault makes a new blob and leaves the old ones as they are.
LEMMA SaveVaultGrows ==
    ASSUME TypeInv, NEW d \in Device, NEW c, SaveVault(d, c), uploaded' = uploaded
    PROVE  Grows /\ nBlobs + 1 \in Blob /\ content'[nBlobs + 1] = c
  BY SyncAssumption DEF TypeInv, TypeOK, SaveVault, Grows, Blob

\* So does a step that saves nothing.
LEMMA UnchangedGrows ==
    ASSUME TypeInv, UNCHANGED blobs, uploaded \subseteq uploaded'
    PROVE  Grows
  BY SyncAssumption DEF TypeInv, TypeOK, blobs, Grows, Blob

\* What a blob holds does not change once it was made.
LEMMA HoldsKept ==
    ASSUME TypeInv, TypeInv', Grows
    PROVE  \A b \in Pointer : Made(b) => Holds(b)' = Holds(b) /\ Made(b)'
  <1> SUFFICES ASSUME NEW b \in Pointer, Made(b)
               PROVE  Holds(b)' = Holds(b) /\ Made(b)'
    OBVIOUS
  <1>1. nBlobs \in Nat /\ nBlobs' \in Nat /\ b \in Nat
    BY ConstantTypes DEF TypeInv, TypeOK, Pointer
  <1>2. Made(b)'
    BY <1>1 DEF Made, Grows
  <1>3. Holds(b)' = Holds(b)
    BY DEF Made, Grows, Holds, Pointer
  <1>4. QED
    BY <1>2, <1>3

\* A device that is not touched keeps its part of the invariant.
LEMMA StillDevice ==
    ASSUME TypeInv, TypeInv', Grows, NEW e \in Device, Names(e), Knows(e), Still(e)
    PROVE  Names(e)' /\ Knows(e)'
  <1>1. /\ disk[e] \in Pointer /\ regMem[e].etag \in Pointer /\ regMem[e].sha \in Pointer
        /\ regDisk[e].etag \in Pointer /\ regDisk[e].sha \in Pointer
        /\ run[e].snap \in Pointer /\ run[e].body \in Pointer /\ run[e].ifMatch \in Pointer
        /\ run[e].etag \in Pointer /\ run[e].sha \in Pointer
    BY DEF TypeInv, TypeOK, SyncBlock, Run, Pointer
  <1>2. Names(e)'
    BY <1>1, HoldsKept DEF Names, RunMade, Still
  <1>3. Knows(e)'
    BY <1>1, HoldsKept DEF Names, RunMade, Knows, At, Still, SamePublished, Grows
  <1>4. QED
    BY <1>2, <1>3

\* A step of one device keeps the invariant if that device keeps its part.
LEMMA OthersStill ==
    ASSUME TypeInv, TypeInv', DataInv, Grows, ObjectInv', NEW d \in Device,
           \A e \in Device \ {d} : Still(e), Names(d)', Knows(d)'
    PROVE  DataInv'
  <1>1. \A e \in Device : Names(e)' /\ Knows(e)'
    BY StillDevice DEF DataInv, DeviceInv
  <1>2. QED
    BY <1>1 DEF DataInv, DeviceInv

\* A step that only concerns the store keeps the invariant if the object does.
LEMMA AllStill ==
    ASSUME TypeInv, TypeInv', DataInv, Grows, ObjectInv', \A e \in Device : Still(e)
    PROVE  DataInv'
  BY StillDevice DEF DataInv, DeviceInv

\* The object is left alone, or takes bytes that have been made.
LEMMA ObjectStill ==
    ASSUME TypeInv, TypeInv', DataInv, Grows, remote' = remote, inflight' = inflight
    PROVE  ObjectInv'
  <1>1. Made(remote)' /\ Holds(remote)' = Holds(remote)
    BY HoldsKept DEF DataInv, ObjectInv, TypeInv, TypeOK
  <1>2. \A m \in inflight : Made(m.body)' /\ Made(m.ifMatch)'
    BY HoldsKept DEF DataInv, ObjectInv, TypeInv, TypeOK, PutRequest, Pointer
  <1>3. QED
    BY <1>1, <1>2 DEF DataInv, ObjectInv, Grows

\* A PUT that is applied makes its body the object and counts it as uploaded.
LEMMA ObjectPut ==
    ASSUME TypeInv, TypeInv', DataInv, UNCHANGED blobs, NEW body \in Blob, Made(body),
           ApplyPut(body), inflight' \subseteq inflight
    PROVE  ObjectInv' /\ Grows /\ Holds(body) \subseteq uploaded'
  <1>1. Grows
    BY UnchangedGrows DEF ApplyPut
  <1>2. Holds(body) = content[body]
    BY ConstantTypes DEF Holds
  <1>3. QED
    BY <1>1, <1>2 DEF DataInv, ObjectInv, ApplyPut, Made, Holds, blobs

\* A step of d that changes only its own locals.
LEMMA LocalStep ==
    ASSUME TypeInv, TypeInv', DataInv, NEW d \in Device, NEW step \in Steps, NEW r \in Run,
           Goto(d, step, r), RunMade(r), At(d, step, r),
           UNCHANGED <<store, blobs, files, reg>>
    PROVE  DataInv'
  <1> USE DEF store, blobs, files, reg
  <1>1. Grows
    BY UnchangedGrows
  <1>2. ObjectInv'
    BY <1>1, ObjectStill
  <1>3. pc'[d] = step /\ run'[d] = r /\ \A e \in Device \ {d} : Still(e)
    BY DEF Goto, Still, TypeInv, TypeOK
  <1>4. Names(d)'
    BY <1>3 DEF DataInv, DeviceInv, Names, RunMade, Made
  <1>5. Knows(d)'
    BY <1>3 DEF DataInv, DeviceInv, Knows, At, SamePublished, Holds
  <1>6. QED
    BY <1>1, <1>2, <1>3, <1>4, <1>5, OthersStill

\* The same with the file system untouched and the object possibly written.
LEMMA PutStep ==
    ASSUME TypeInv, TypeInv', DataInv, NEW d \in Device, NEW step \in Steps, NEW r \in Run,
           Goto(d, step, r), RunMade(r), At(d, step, r)', ObjectInv', Grows,
           UNCHANGED <<blobs, files, reg>>
    PROVE  DataInv'
  <1> USE DEF blobs, files, reg
  <1>1. pc'[d] = step /\ run'[d] = r /\ \A e \in Device \ {d} : Still(e)
    BY DEF Goto, Still, TypeInv, TypeOK
  <1>2. Names(d)'
    BY <1>1 DEF DataInv, DeviceInv, Names, RunMade, Made
  <1>3. Knows(d)'
    BY <1>1 DEF DataInv, DeviceInv, Knows, At, SamePublished, Holds, Grows
  <1>4. QED
    BY <1>1, <1>2, <1>3, OthersStill

-----------------------------------------------------------------------------
\* No object holds nothing.
LEMMA NothingHeld ==
    ASSUME TypeInv
    PROVE  Made(None) /\ Holds(None) = {} /\ RunMade(NoRun)
  BY ConstantTypes DEF TypeInv, TypeOK, Made, RunMade, NoRun, Holds, None

\* Returning an error forgets the locals.
LEMMA ErrStep ==
    ASSUME TypeInv, TypeInv', DataInv, ObjectInv', Grows, NEW d \in Device, ReturnErr(d),
           UNCHANGED <<blobs, files, reg>>
    PROVE  DataInv'
  <1>1. At(d, "fail", NoRun)'
    BY NothingHeld DEF At, NoRun, Holds
  <1>2. QED
    BY <1>1, NothingHeld, ConstantTypes, PutStep DEF ReturnErr, Steps

\* Returning pointers is fine when they name one published state.
LEMMA OkStep ==
    ASSUME TypeInv, TypeInv', DataInv, ObjectInv', Grows, NEW d \in Device,
           NEW etag \in Pointer, NEW sha \in Pointer, ReturnOk(d, etag, sha),
           Made(etag), Made(sha), SamePublished(etag, sha)',
           UNCHANGED <<blobs, files, reg>>
    PROVE  DataInv'
  <1> DEFINE r == [NoRun EXCEPT !.etag = etag, !.sha = sha]
  <1>1. r \in Run /\ r.etag = etag /\ r.sha = sha /\ r.snap = None /\ r.body = None
        /\ r.ifMatch = None
    BY ConstantTypes DEF Run, NoRun
  <1>2. RunMade(r)
    BY <1>1, NothingHeld DEF RunMade
  <1>3. At(d, "commit", r)'
    BY <1>1, NothingHeld DEF At, Holds
  <1>4. QED
    BY <1>1, <1>2, <1>3, PutStep DEF ReturnOk, Steps

\* So does giving up a PUT that lost a race.
LEMMA LostRaceStep ==
    ASSUME TypeInv, TypeInv', DataInv, NEW d \in Device, PutReturnsPreconditionFailed(d),
           UNCHANGED <<store, blobs, files, reg>>
    PROVE  DataInv'
  <1> DEFINE r == [NoRun EXCEPT !.path = "merge", !.tries = run[d].tries]
  <1>1. r \in Run /\ r.path = "merge" /\ r.etag = None /\ r.sha = None /\ r.snap = None
        /\ r.body = None /\ r.ifMatch = None
    BY DeviceTypes, ConstantTypes DEF Run, NoRun, Paths
  <1>2. RunMade(r) /\ At(d, "fetch", r)
    BY <1>1, NothingHeld DEF RunMade, At
  <1>3. CASE Goto(d, "fetch", r)
    BY <1>1, <1>2, <1>3, LocalStep DEF Steps
  <1>4. CASE ReturnErr(d)
    <2>1. Grows
      BY UnchangedGrows DEF store
    <2>2. ObjectInv'
      BY <2>1, ObjectStill DEF store
    <2>3. QED
      BY <1>4, <2>1, <2>2, ErrStep
  <1>5. QED
    BY <1>3, <1>4 DEF PutReturnsPreconditionFailed

\* d calls put_conditional; its vault file may have been saved just before.
LEMMA CallPutStep ==
    ASSUME TypeInv, TypeInv', DataInv, NEW d \in Device, NEW path \in {"push", "merge"},
           NEW tries \in 0..MaxAttempts, NEW body \in Blob, NEW ifMatch \in Pointer,
           CallPut(d, path, tries, body, ifMatch), Grows, Made(body)', Made(ifMatch),
           Made(disk[d])', \A e \in Device \ {d} : disk'[e] = disk[e],
           UNCHANGED <<store, bak, reg>>
    PROVE  DataInv'
  <1> DEFINE r == [NoRun EXCEPT !.path = path, !.tries = tries,
                                !.body = body, !.ifMatch = ifMatch]
  <1> USE DEF store, reg
  <1>1. r \in Run /\ r.path = path /\ r.etag = None /\ r.sha = None /\ r.snap = None
        /\ r.body = body /\ r.ifMatch = ifMatch
    BY ConstantTypes DEF Run, NoRun, Paths, Pointer
  <1>2. pc'[d] = "put" /\ run'[d] = r /\ \A e \in Device \ {d} : Still(e)
    BY DEF CallPut, Goto, Still, TypeInv, TypeOK
  <1>3. ObjectInv'
    BY ObjectStill
  <1>4. /\ regMem[d].etag \in Pointer /\ regMem[d].sha \in Pointer
        /\ regDisk[d].etag \in Pointer /\ regDisk[d].sha \in Pointer
    BY DEF TypeInv, TypeOK, SyncBlock, Pointer
  <1>5. Made(None)' /\ Made(ifMatch)'
    BY NothingHeld, HoldsKept, ConstantTypes DEF Pointer
  <1>6. Names(d)'
    BY <1>1, <1>2, <1>4, <1>5, HoldsKept DEF Names, RunMade, DataInv, DeviceInv
  <1>7. Knows(d)'
    BY <1>1, <1>2, <1>4, HoldsKept
    DEF Names, Knows, At, SamePublished, DataInv, DeviceInv, Grows, Holds
  <1>8. QED
    BY <1>2, <1>3, <1>6, <1>7, OthersStill

\* sync_now ends: the registry holds blocks that name one published state.
LEMMA FinishStep ==
    ASSUME TypeInv, TypeInv', DataInv, NEW d \in Device, Finish(d),
           UNCHANGED <<store, blobs, files>>,
           \A e \in Device \ {d} : regMem'[e] = regMem[e] /\ regDisk'[e] = regDisk[e],
           Made(regMem'[d].etag), Made(regMem'[d].sha),
           Made(regDisk'[d].etag), Made(regDisk'[d].sha),
           SamePublished(regMem'[d].etag, regMem'[d].sha),
           SamePublished(regDisk'[d].etag, regDisk'[d].sha)
    PROVE  DataInv'
  <1> USE DEF store, blobs, files
  <1>1. Grows /\ ObjectInv'
    BY UnchangedGrows, ObjectStill
  <1>2. pc'[d] = "idle" /\ run'[d] = NoRun /\ \A e \in Device \ {d} : Still(e)
    BY DEF Finish, Goto, Still, TypeInv, TypeOK
  <1>3. Names(d)'
    BY <1>2, NothingHeld DEF Names, RunMade, Made, DataInv, DeviceInv, NoRun
  <1>4. Knows(d)'
    BY <1>2, NothingHeld DEF Knows, At, SamePublished, Holds, NoRun
  <1>5. QED
    BY <1>1, <1>2, <1>3, <1>4, OthersStill

\* Facts about one device that the steps below use.
LEMMA DeviceFacts ==
    ASSUME TypeInv, DataInv, NEW d \in Device
    PROVE  /\ Names(d) /\ Knows(d)
           /\ Made(remote) /\ Holds(remote) \subseteq uploaded /\ remote \in Pointer
           /\ Holds(disk[d]) = content[disk[d]]
           /\ run[d].body \in Pointer
  <1>1. disk[d] # None
    BY DeviceTypes, ConstantTypes
  <1>2. QED
    BY <1>1 DEF TypeInv, TypeOK, DataInv, DeviceInv, ObjectInv, Holds, Run

\* Every step keeps what the devices know about the bytes they name.
LEMMA DataNext == TypeInv /\ TypeInv' /\ DataInv /\ [Next]_vars => DataInv'
  <1> SUFFICES ASSUME TypeInv, TypeInv', DataInv, [Next]_vars PROVE DataInv'
    OBVIOUS
  <1> USE DEF store, blobs, files, reg
  <1>q. ASSUME UNCHANGED <<store, blobs>> PROVE Grows /\ ObjectInv'
    BY <1>q, UnchangedGrows, ObjectStill
  <1>1. ASSUME NEW d \in Device, Edit(d) PROVE DataInv'
    <2>1. Grows
      BY <1>1, SaveVaultGrows DEF Edit
    <2>2. ObjectInv'
      BY <1>1, <2>1, ObjectStill DEF Edit
    <2>3. \A e \in Device \ {d} : Still(e)
      BY <1>1 DEF Edit, SaveVault, Still, TypeInv, TypeOK
    <2>4. Made(disk[d])'
      BY <1>1, ConstantTypes DEF Edit, SaveVault, Made, TypeInv, TypeOK
    <2>5. \A b \in {regMem[d].etag, regMem[d].sha, regDisk[d].etag, regDisk[d].sha,
                     run[d].snap, run[d].body, run[d].ifMatch, run[d].etag, run[d].sha} :
             Made(b)' /\ Holds(b)' = Holds(b)
      BY <2>1, HoldsKept, DeviceFacts, DeviceTypes DEF Names, RunMade, SyncBlock, Pointer
    <2>6. Names(d)' /\ Knows(d)'
      BY <1>1, <2>1, <2>4, <2>5, DeviceFacts
      DEF Edit, Names, RunMade, Knows, At, SamePublished, Grows
    <2>7. QED
      BY <2>1, <2>2, <2>3, <2>6, OthersStill
  <1>2. ASSUME NEW d \in Device, StartSync(d) PROVE DataInv'
    <2> DEFINE r == NoRun
    <2>1. r \in Run /\ r.snap = None /\ r.body = None /\ r.ifMatch = None
          /\ r.etag = None /\ r.sha = None
      BY DeviceTypes, DeviceFacts, ConstantTypes DEF Run, NoRun, Paths
    <2>2. RunMade(r) /\ At(d, "head", r)
      BY <1>2, <2>1, DeviceFacts, NothingHeld
      DEF StartSync, Names, RunMade, Knows, At
    <2>3. QED
      BY <1>2, <2>1, <2>2, LocalStep DEF StartSync, Steps
  <1>3. ASSUME NEW d \in Device, Head(d) PROVE DataInv'
    <2> DEFINE r == [run[d] EXCEPT !.head = remote]
    <2>1. r \in Run /\ r.body = run[d].body /\ r.ifMatch = run[d].ifMatch
          /\ r.etag = run[d].etag /\ r.sha = run[d].sha /\ r.snap = run[d].snap
      BY DeviceTypes, DeviceFacts, ConstantTypes DEF Run, NoRun, Paths
    <2>2. RunMade(r) /\ At(d, "compare", r)
      BY <1>3, <2>1, DeviceFacts, NothingHeld
      DEF Head, Names, RunMade, Knows, At
    <2>3. QED
      BY <1>3, <2>1, <2>2, LocalStep DEF Head, Steps
  <1>4. ASSUME NEW d \in Device, CompareInSync(d) PROVE DataInv'
    <2>1. SamePublished(regMem[d].etag, regMem[d].sha)' /\ Made(regMem[d].etag) /\ Made(regMem[d].sha)
      BY <1>4, DeviceFacts DEF CompareInSync, Names, RunMade, Knows, At, SamePublished, Holds
    <2>2. QED
      BY <1>4, <1>q, <2>1, OkStep, DeviceTypes DEF CompareInSync
  <1>5. ASSUME NEW d \in Device, ComparePush(d) PROVE DataInv'
    <2>1. Grows
      BY <1>5, <1>q DEF ComparePush
    <2>2. Made(disk[d])' /\ Made(regMem[d].etag)
      BY <1>5, DeviceFacts DEF ComparePush, Names, Made
    <2>3. 0 \in 0..MaxAttempts
      BY ConstantTypes
    <2>4. QED
      BY <1>5, <2>1, <2>2, <2>3, CallPutStep, DeviceTypes DEF ComparePush, Made
  <1>6. ASSUME NEW d \in Device, CompareFast(d) PROVE DataInv'
    <2> DEFINE r == [NoRun EXCEPT !.path = "fast"]
    <2>1. r \in Run /\ r.snap = None /\ r.body = None /\ r.ifMatch = None
          /\ r.etag = None /\ r.sha = None
      BY DeviceTypes, DeviceFacts, ConstantTypes DEF Run, NoRun, Paths
    <2>2. RunMade(r) /\ At(d, "fetch", r)
      BY <1>6, <2>1, DeviceFacts, NothingHeld
      DEF CompareFast, Names, RunMade, Knows, At, LocalChanged
    <2>3. QED
      BY <1>6, <2>1, <2>2, LocalStep DEF CompareFast, Steps
  <1>7. ASSUME NEW d \in Device, CompareMerge(d) PROVE DataInv'
    <2> DEFINE r == [NoRun EXCEPT !.path = "merge"]
    <2>1. r \in Run /\ r.snap = None /\ r.body = None /\ r.ifMatch = None
          /\ r.etag = None /\ r.sha = None /\ r.path = "merge"
      BY DeviceTypes, DeviceFacts, ConstantTypes DEF Run, NoRun, Paths
    <2>2. RunMade(r) /\ At(d, "backup", r)
      BY <1>7, <2>1, DeviceFacts, NothingHeld
      DEF CompareMerge, Names, RunMade, Knows, At
    <2>3. QED
      BY <1>7, <2>1, <2>2, LocalStep DEF CompareMerge, Steps
  <1>8. ASSUME NEW d \in Device, Backup(d) PROVE DataInv'
    <2> DEFINE step == IF run[d].path = "fast" THEN "replace" ELSE "fetch"
    <2>1. Grows /\ ObjectInv'
      BY <1>8, <1>q DEF Backup
    <2>2. pc'[d] = step /\ run'[d] = run[d] /\ bak'[d] = disk[d] /\ \A e \in Device \ {d} : Still(e)
      BY <1>8 DEF Backup, Goto, Still, TypeInv, TypeOK
    <2>3. Names(d)'
      BY <1>8, <2>2, DeviceFacts DEF Backup, Names, RunMade, Made
    <2>4. Knows(d)'
      BY <1>8, <2>2, DeviceFacts DEF Backup, Knows, At, SamePublished, Holds
    <2>5. QED
      BY <2>1, <2>2, <2>3, <2>4, OthersStill
  <1>9. ASSUME NEW d \in Device, FetchNotModified(d) PROVE DataInv'
    <2>1. SamePublished(regMem[d].etag, regMem[d].sha)' /\ Made(regMem[d].etag) /\ Made(regMem[d].sha)
      BY <1>9, DeviceFacts DEF FetchNotModified, Names, RunMade, Knows, At, SamePublished, Holds
    <2>2. QED
      BY <1>9, <1>q, <2>1, OkStep, DeviceTypes DEF FetchNotModified
  <1>10. ASSUME NEW d \in Device, FetchFast(d) PROVE DataInv'
    <2> DEFINE r == [run[d] EXCEPT !.snap = remote]
    <2>1. r \in Run /\ r.body = run[d].body /\ r.ifMatch = run[d].ifMatch
          /\ r.etag = run[d].etag /\ r.sha = run[d].sha /\ r.snap = remote
      BY DeviceTypes, DeviceFacts, ConstantTypes DEF Run, NoRun, Paths
    <2>2. RunMade(r) /\ At(d, "backup", r)
      BY <1>10, <2>1, DeviceFacts, NothingHeld
      DEF FetchFast, Names, RunMade, Knows, At
    <2>3. QED
      BY <1>10, <2>1, <2>2, LocalStep DEF FetchFast, Steps
  <1>11. ASSUME NEW d \in Device, FetchMerge(d) PROVE DataInv'
    <2> DEFINE r == [run[d] EXCEPT !.snap = remote, !.tries = @ + 1]
    <2>1. run[d].tries + 1 \in 0..MaxAttempts
      BY <1>11, DeviceTypes, ConstantTypes DEF FetchMerge, TypeInv, Shape, ShapeOf
    <2>2. r \in Run /\ r.body = run[d].body /\ r.ifMatch = run[d].ifMatch
          /\ r.etag = run[d].etag /\ r.sha = run[d].sha /\ r.snap = remote
      BY <2>1, DeviceTypes, DeviceFacts DEF Run
    <2>3. RunMade(r) /\ At(d, "reconcile", r)
      BY <2>2, DeviceFacts DEF Names, RunMade, At
    <2>4. QED
      BY <1>11, <2>2, <2>3, LocalStep DEF FetchMerge, Steps
  <1>12. ASSUME NEW d \in Device, FetchNotFound(d) PROVE DataInv'
    BY <1>12, <1>q, ErrStep DEF FetchNotFound
  <1>13. ASSUME NEW d \in Device, Replace(d) PROVE DataInv'
    <2>b. PICK b1 \in Nat : b1 = nBlobs + 1
      BY ConstantTypes DEF TypeInv, TypeOK
    <2>1. Grows /\ b1 \in Blob /\ content'[b1] = content[run[d].snap]
      BY <1>13, <2>b, SaveVaultGrows DEF Replace
    <2>2. ObjectInv'
      BY <1>13, <2>1, ObjectStill DEF Replace
    <2>3. /\ pc'[d] = "rehash" /\ run'[d] = run[d] /\ disk'[d] = b1
          /\ nBlobs' = b1 /\ \A e \in Device \ {d} : Still(e)
      BY <1>13, <2>b DEF Replace, SaveVault, Goto, Still, TypeInv, TypeOK
    <2>4. \A b \in {regMem[d].etag, regMem[d].sha, regDisk[d].etag, regDisk[d].sha,
                     run[d].snap, run[d].body, run[d].ifMatch, run[d].etag, run[d].sha} :
             Made(b)' /\ Holds(b)' = Holds(b)
      BY <2>1, HoldsKept, DeviceFacts, DeviceTypes DEF Names, RunMade, SyncBlock, Pointer
    <2>5. Made(disk[d])' /\ Holds(disk[d])' = content[run[d].snap]
      BY <2>1, <2>3, ConstantTypes DEF Made, Holds
    <2>6. Holds(run[d].snap) = content[run[d].snap]
      BY <1>13, DeviceTypes, ConstantTypes DEF Replace, Holds
    <2>7. Names(d)' /\ Knows(d)'
      BY <1>13, <2>1, <2>3, <2>4, <2>5, <2>6, DeviceFacts
      DEF Replace, Names, RunMade, Knows, At, SamePublished, Grows
    <2>8. QED
      BY <2>1, <2>2, <2>3, <2>7, OthersStill
  <1>14. ASSUME NEW d \in Device, Rehash(d) PROVE DataInv'
    <2>1. PICK snap \in Pointer : snap = run[d].snap
      BY DeviceTypes
    <2>2. SamePublished(snap, disk[d])' /\ Made(snap) /\ Made(disk[d])
      BY <1>14, <2>1, DeviceFacts DEF Rehash, Names, RunMade, Knows, At, SamePublished, Holds
    <2>3. QED
      BY <1>14, <1>q, <2>1, <2>2, OkStep, DeviceTypes DEF Rehash
  <1>15. ASSUME NEW d \in Device, Reconcile(d) PROVE DataInv'
    <2>b. PICK b1 \in Nat : b1 = nBlobs + 1
      BY ConstantTypes DEF TypeInv, TypeOK
    <2>1. Grows /\ b1 \in Blob
      BY <1>15, <2>b, SaveVaultGrows DEF Reconcile
    <2>2. disk'[d] = b1 /\ Made(b1)' /\ \A e \in Device \ {d} : disk'[e] = disk[e]
      BY <1>15, <2>b, <2>1, ConstantTypes DEF Reconcile, SaveVault, Made, TypeInv, TypeOK
    <2>3. Made(disk[d])' /\ Made(run[d].snap)
      BY <2>2, DeviceFacts DEF Names, RunMade, Made
    <2>4. PICK snap \in Pointer : snap = run[d].snap
      BY DeviceTypes
    <2>5. QED
      BY <1>15, <2>b, <2>1, <2>2, <2>3, <2>4, CallPutStep, DeviceTypes DEF Reconcile
  <1>16. ASSUME NEW d \in Device, PutAccepted(d) PROVE DataInv'
    <2>1. run[d].body \in Blob /\ Made(run[d].body)
      BY <1>16, DeviceTypes, DeviceFacts DEF PutAccepted, Names, RunMade
    <2>2. ObjectInv' /\ Grows /\ Holds(run[d].body) \subseteq uploaded'
      BY <1>16, <2>1, ObjectPut DEF PutAccepted
    <2>3. CASE PutReturnsOk(d)
      <3>1. PICK b \in Pointer : b = run[d].body
        BY DeviceFacts
      <3>2. SamePublished(b, b)' /\ Made(b)
        BY <1>16, <2>1, <2>2, <3>1 DEF PutAccepted, SamePublished, Holds
      <3>3. QED
        BY <1>16, <2>2, <2>3, <3>1, <3>2, OkStep DEF PutAccepted, PutReturnsOk
    <2>4. CASE Goto(d, "verify", run[d])
      <3>1. RunMade(run[d]) /\ run[d] \in Run
        BY DeviceFacts, DeviceTypes DEF Names
      <3>2. At(d, "verify", run[d])'
        BY <1>16, <2>2, <2>4, DeviceFacts DEF PutAccepted, Knows, At, Holds, Goto, Grows,
           TypeInv, TypeOK
      <3>3. pc'[d] = "verify" /\ run'[d] = run[d] /\ \A e \in Device \ {d} : Still(e)
        BY <1>16, <2>4 DEF PutAccepted, Goto, Still, TypeInv, TypeOK
      <3>4. Names(d)'
        BY <1>16, <3>3, DeviceFacts DEF PutAccepted, Names, RunMade, Made
      <3>5. Knows(d)'
        BY <1>16, <2>2, <3>2, <3>3, DeviceFacts
        DEF PutAccepted, Knows, At, SamePublished, Holds, Grows
      <3>6. QED
        BY <2>2, <3>3, <3>4, <3>5, OthersStill
    <2>5. QED
      BY <1>16, <2>3, <2>4 DEF PutAccepted
  <1>17. ASSUME NEW d \in Device, PutRejected(d) PROVE DataInv'
    BY <1>17, LostRaceStep DEF PutRejected
  <1>18. ASSUME NEW d \in Device, PutNotFound(d) PROVE DataInv'
    BY <1>18, <1>q, ErrStep DEF PutNotFound
  <1>19. ASSUME NEW d \in Device, Verify(d) PROVE DataInv'
    <2>1. CASE PutReturnsOk(d)
      <3>1. PICK b \in Pointer : b = run[d].body
        BY DeviceFacts
      <3>2. SamePublished(b, b)' /\ Made(b)
        BY <1>19, <3>1, DeviceFacts DEF Verify, Names, RunMade, Knows, At, SamePublished, Holds
      <3>3. QED
        BY <1>19, <1>q, <2>1, <3>1, <3>2, OkStep DEF Verify, PutReturnsOk
    <2>2. CASE PutReturnsPreconditionFailed(d)
      BY <1>19, <2>2, LostRaceStep DEF Verify
    <2>3. CASE ReturnErr(d)
      BY <1>19, <1>q, <2>3, ErrStep DEF Verify
    <2>4. QED
      BY <1>19, <2>1, <2>2, <2>3 DEF Verify
  <1>20. ASSUME NEW d \in Device, Commit(d) PROVE DataInv'
    <2>1. /\ regMem'[d].etag = run[d].etag /\ regMem'[d].sha = run[d].sha
          /\ regDisk'[d] \in {regMem'[d], regDisk[d]}
          /\ \A e \in Device \ {d} : regMem'[e] = regMem[e] /\ regDisk'[e] = regDisk[e]
      BY <1>20 DEF Commit, PersistBlock, TypeInv, TypeOK
    <2>2. QED
      BY <1>20, <2>1, FinishStep, DeviceFacts DEF Commit, Names, RunMade, Knows, At
  <1>21. ASSUME NEW d \in Device, Abort(d) PROVE DataInv'
    <2>1. /\ regMem'[d].etag = regMem[d].etag /\ regMem'[d].sha = regMem[d].sha
          /\ regDisk'[d] \in {regMem'[d], regDisk[d]}
          /\ \A e \in Device \ {d} : regMem'[e] = regMem[e] /\ regDisk'[e] = regDisk[e]
      BY <1>21 DEF Abort, PersistBlock, TypeInv, TypeOK, SyncBlock
    <2>2. QED
      BY <1>21, <2>1, FinishStep, DeviceFacts DEF Abort, Names, RunMade, Knows, At
  <1>22. ASSUME NEW d \in Device, NEW saved \in BOOLEAN, ConfigureRemote(d, saved) PROVE DataInv'
    <2>1. Grows /\ ObjectInv'
      BY <1>22, <1>q DEF ConfigureRemote
    <2>2. /\ regMem'[d] = FreshBlock /\ regDisk'[d] \in {FreshBlock, regDisk[d]}
          /\ \A e \in Device \ {d} : Still(e)
      BY <1>22 DEF ConfigureRemote, Still, TypeInv, TypeOK
    <2>3. Names(d)' /\ Knows(d)'
      BY <1>22, <2>2, DeviceFacts, NothingHeld
      DEF ConfigureRemote, Names, RunMade, Knows, At, SamePublished, Holds, Made, FreshBlock
    <2>4. QED
      BY <2>1, <2>2, <2>3, OthersStill
  <1>23. ASSUME NEW d \in Device, Crash(d) PROVE DataInv'
    <2>1. /\ regMem'[d] = regDisk[d] /\ regDisk'[d] = regDisk[d]
          /\ \A e \in Device \ {d} : regMem'[e] = regMem[e] /\ regDisk'[e] = regDisk[e]
      BY <1>23 DEF Crash, TypeInv, TypeOK
    <2>2. QED
      BY <1>23, <2>1, FinishStep, DeviceFacts DEF Crash, Names, Knows
  <1>24. ASSUME NEW d \in Device, NEW applied \in BOOLEAN, PutUnavailable(d, applied) PROVE DataInv'
    <2>r. PICK r \in Run : r = [run[d] EXCEPT !.resent = TRUE]
      BY DeviceTypes DEF Run
    <2>1. run[d].body \in Blob /\ Made(run[d].body)
      BY <1>24, DeviceTypes, DeviceFacts DEF PutUnavailable, Names, RunMade
    <2>2. ObjectInv' /\ Grows
      <3>1. CASE applied
        BY <1>24, <2>1, <3>1, ObjectPut DEF PutUnavailable
      <3>2. CASE ~applied
        BY <1>24, <1>q, <3>2 DEF PutUnavailable
      <3>3. QED
        BY <3>1, <3>2
    <2>3. r.body = run[d].body /\ r.ifMatch = run[d].ifMatch
          /\ r.etag = run[d].etag /\ r.sha = run[d].sha /\ r.snap = run[d].snap
      BY <2>r, DeviceTypes DEF Run
    <2>4. RunMade(r)
      BY <2>3, DeviceFacts DEF Names, RunMade
    <2>5. At(d, "put", r)'
      BY <1>24, <2>2, <2>3, DeviceFacts DEF PutUnavailable, Knows, At, Holds, Grows
    <2>6. QED
      BY <1>24, <2>r, <2>2, <2>4, <2>5, PutStep DEF PutUnavailable, Steps
  <1>25. ASSUME NEW d \in Device, NEW late \in BOOLEAN, PutUnanswered(d, late) PROVE DataInv'
    <2>1. run[d].body \in Blob /\ Made(run[d].body) /\ Made(Wire(d))
      BY <1>25, DeviceTypes, DeviceFacts, NothingHeld DEF PutUnanswered, Names, RunMade, Wire
    <2>2. ObjectInv' /\ Grows
      <3>1. CASE ~late
        BY <1>25, <2>1, <3>1, ObjectPut DEF PutUnanswered
      <3>2. CASE late
        <4>1. Grows
          BY <1>25, <3>2, UnchangedGrows DEF PutUnanswered
        <4>2. ObjectInv'
          BY <1>25, <2>1, <3>2 DEF PutUnanswered, DataInv, ObjectInv, Made, Holds
        <4>3. QED
          BY <4>1, <4>2
      <3>3. QED
        BY <3>1, <3>2
    <2>3. QED
      BY <1>25, <2>2, ErrStep DEF PutUnanswered
  <1>26. ASSUME NEW d \in Device, Fail(d) PROVE DataInv'
    BY <1>26, <1>q, ErrStep DEF Fail
  <1>27. ASSUME NEW m \in inflight, DeliverLate(m) PROVE DataInv'
    <2>1. m.body \in Blob /\ Made(m.body)
      BY DEF TypeInv, TypeOK, PutRequest, DataInv, ObjectInv
    <2>2. ObjectInv' /\ Grows
      <3>1. CASE Accepts(m.ifMatch)
        BY <1>27, <2>1, <3>1, ObjectPut DEF DeliverLate
      <3>2. CASE ~Accepts(m.ifMatch)
        <4>1. Grows
          BY <1>27, <3>2, UnchangedGrows DEF DeliverLate
        <4>2. ObjectInv'
          BY <1>27, <3>2 DEF DeliverLate, DataInv, ObjectInv, Made, Holds
        <4>3. QED
          BY <4>1, <4>2
      <3>3. QED
        BY <3>1, <3>2
    <2>3. QED
      BY <1>27, <2>2, AllStill DEF DeliverLate, Still
  <1>28. CASE LoseObject
    <2>1. Grows
      BY <1>28, UnchangedGrows DEF LoseObject
    <2>2. ObjectInv'
      BY <1>28, NothingHeld DEF LoseObject, DataInv, ObjectInv, Made, Holds
    <2>3. QED
      BY <1>28, <2>1, <2>2, AllStill DEF LoseObject, Still
  <1>29. CASE UNCHANGED vars
    BY <1>29, <1>q, AllStill DEF vars, Still
  <1>30. QED
    BY <1>1, <1>2, <1>3, <1>4, <1>5, <1>6, <1>7, <1>8, <1>9, <1>10, <1>11, <1>12,
       <1>13, <1>14, <1>15, <1>16, <1>17, <1>18, <1>19, <1>20, <1>21, <1>22, <1>23,
       <1>24, <1>25, <1>26, <1>27, <1>28, <1>29
    DEF Next, Step, Disturb

\* Types and data together: the inductive invariant of every deployment.
THEOREM DataCorrect == Spec => [](TypeInv /\ DataInv)
  <1>1. Init => TypeInv /\ DataInv
    BY TypeInit, DataInit
  <1>2. TypeInv /\ DataInv /\ [Next]_vars => (TypeInv /\ DataInv)'
    BY TypeNext, DataNext
  <1>3. QED
    BY <1>1, <1>2, PTL DEF Spec

\* Both pointers of a device's sync block, in memory and on disk, always name
\* the same set of edits: a sync that finds both unchanged may answer
\* AlreadyInSync.
THEOREM PointersAlwaysAgree == Spec => []PointersAgree
  <1>1. TypeInv /\ DataInv => PointersAgree
    BY DEF DataInv, DeviceInv, Knows, SamePublished, PointersAgree
  <1>2. QED
    BY <1>1, DataCorrect, PTL

-----------------------------------------------------------------------------
(* What a step may do to the vault files.                                  *)

\* A step that changes no bytes and no vault file leaves every file's content.
LEMMA SameFiles ==
    ASSUME TypeInv, UNCHANGED <<blobs, disk>>, NEW e \in Device
    PROVE  content'[disk'[e]] = content[disk[e]]
  BY DEF blobs

\* A save replaces the content of one vault file and of no other.
LEMMA SavedFile ==
    ASSUME TypeInv, DataInv, NEW d \in Device, NEW c, SaveVault(d, c), NEW e \in Device
    PROVE  content'[disk'[e]] = IF e = d THEN c ELSE content[disk[e]]
  <1>1. disk[e] \in Blob /\ disk[e] <= nBlobs /\ nBlobs \in Nat
    BY DeviceFacts, DeviceTypes, ConstantTypes DEF Names, Made, TypeInv, TypeOK
  <1>2. nBlobs + 1 \in Blob /\ disk[e] # nBlobs + 1
    BY <1>1, ConstantTypes, SyncAssumption DEF SaveVault, Blob
  <1>3. QED
    BY <1>1, <1>2 DEF SaveVault, TypeInv, TypeOK

\* A vault file's content changes only by an edit, by a merge, both of which
\* add to it, or by a fast-replace.
LEMMA FileSteps ==
    ASSUME TypeInv, DataInv, [Next]_vars, NEW e \in Device
    PROVE  content[disk[e]] \subseteq content'[disk'[e]] \/ pc[e] = "replace"
  <1> USE DEF store, blobs, files, reg
  <1>1. CASE \E d \in Device : Edit(d)
    BY <1>1, SavedFile DEF Edit
  <1>2. CASE \E d \in Device : Reconcile(d)
    BY <1>2, SavedFile DEF Reconcile
  <1>3. CASE \E d \in Device : Replace(d)
    BY <1>3, SavedFile DEF Replace
  <1>4. CASE UNCHANGED <<blobs, disk>>
    BY <1>4, SameFiles
  <1>5. ASSUME NEW d \in Device, StartSync(d) \/ Step(d) \/ Disturb(d),
               ~Reconcile(d), ~Replace(d)
        PROVE  UNCHANGED <<blobs, disk>>
    BY <1>5 DEF StartSync, Step, Disturb, Head, CompareInSync, ComparePush, CompareFast,
       CompareMerge, Backup, FetchNotModified, FetchFast, FetchMerge, FetchNotFound, Rehash,
       PutAccepted, PutRejected, PutNotFound, Verify, Commit, Abort, ConfigureRemote, Crash,
       PutUnavailable, PutUnanswered, Fail
  <1>6. CASE LoseObject \/ (\E m \in inflight : DeliverLate(m)) \/ UNCHANGED vars
    BY <1>6, <1>4 DEF LoseObject, DeliverLate, vars
  <1>7. QED
    BY <1>1, <1>2, <1>3, <1>4, <1>5, <1>6 DEF Next

\* A save that drops edits from a vault file has their .kdbx.bak next to it.
THEOREM ShrinksAreBackedUp == Spec => ShrinkIsBackedUp
  <1>1. ASSUME TypeInv, DataInv, [Next]_vars, NEW e \in Device
        PROVE  content[disk[e]] \subseteq content'[disk'[e]]
               \/ content[disk[e]] \subseteq Holds(bak[e])
    BY <1>1, FileSteps, DeviceFacts DEF Knows, At
  <1>2. TypeInv /\ DataInv /\ [Next]_vars =>
          [\A d \in Device : content[disk[d]] \subseteq content'[disk'[d]]
                             \/ content[disk[d]] \subseteq Holds(bak[d])]_vars
    BY <1>1
  <1>3. QED
    BY <1>2, DataCorrect, PTL DEF Spec, ShrinkIsBackedUp

\* Edits that never reached the object stay in the vault file they were made in.
THEOREM UnuploadedEditsAreKept == Spec => UnuploadedEditsKept
  <1>1. ASSUME TypeInv, DataInv, [Next]_vars, NEW e \in Device
        PROVE  content[disk[e]] \ content'[disk'[e]] \subseteq uploaded
    <2>1. CASE content[disk[e]] \subseteq content'[disk'[e]]
      BY <2>1
    <2>2. CASE pc[e] = "replace"
      BY <1>1, <2>2, DeviceFacts DEF Knows, At, SamePublished
    <2>3. QED
      BY <1>1, <2>1, <2>2, FileSteps
  <1>2. TypeInv /\ DataInv /\ [Next]_vars =>
          [\A d \in Device : content[disk[d]] \ content'[disk'[d]] \subseteq uploaded]_vars
    BY <1>1
  <1>3. QED
    BY <1>2, DataCorrect, PTL DEF Spec, UnuploadedEditsKept

(***************************************************************************)
(* Refinement.  In a SafeDeployment (the backend honours If-Match and the  *)
(* key is never empty) the orchestrator implements SharedVault: no sync    *)
(* removes an edit from a vault file or from the object.                   *)
(***************************************************************************)

\* Edits that both the vault file of d and the object hold.
Known(d, b) ==
    /\ Holds(b) \subseteq Holds(disk[d])
    /\ Holds(b) \subseteq Holds(remote)

\* A PUT by d of `body` over `ifMatch` loses nothing.
Extension(d, body, ifMatch) ==
    /\ ifMatch # None
    /\ Holds(ifMatch) \subseteq Holds(body)
    /\ Holds(body) \subseteq Holds(disk[d])

\* What a sync of d at `step` with locals r may rely on.
SafeAt(d, step, r) ==
    /\ Holds(r.snap) \subseteq Holds(remote)
    /\ step = "compare" => r.head # None
    /\ (step = "backup" /\ r.path = "fast") \/ step = "replace"
          => Holds(disk[d]) \subseteq Holds(r.snap)
    /\ step = "put" => Extension(d, r.body, r.ifMatch)
    /\ step # "verify"
    /\ step = "commit" => Known(d, r.etag)

SafeDevice(d) ==
    /\ Known(d, regMem[d].etag) /\ Known(d, regDisk[d].etag)
    /\ "Degraded" \notin {ifm[d], regMem[d].ifm, regDisk[d].ifm}
    /\ SafeAt(d, pc[d], run[d])

SafeObject ==
    /\ remote # None
    /\ \A m \in inflight : Extension(m.from, m.body, m.ifMatch)

SafeInv == SafeObject /\ \A d \in Device : SafeDevice(d)

Inv == TypeInv /\ DataInv /\ SafeInv

\* In a deployment that enforces If-Match nothing is lost before the first run.
LEMMA SafeInit == SafeDeployment /\ Init => SafeInv
  <1> SUFFICES ASSUME SafeDeployment, Init PROVE SafeInv
    OBVIOUS
  <1>1. \A b \in {0, 1} : Holds(b) = {}
    BY ConstantTypes DEF Init, Holds, None
  <1>2. SafeObject
    BY DEF Init, SafeObject, SafeDeployment, None
  <1>3. \A d \in Device : SafeDevice(d)
    BY <1>1 DEF Init, SafeDevice, SafeAt, Known, NoRun, SeedBlock, SafeDeployment, None
  <1>4. QED
    BY <1>2, <1>3 DEF SafeInv

-----------------------------------------------------------------------------
\* The vault files and the object take edits in and give none up.
Advances ==
    /\ Grows
    /\ \A e \in Device : Holds(disk[e]) \subseteq Holds(disk[e])'
    /\ Holds(remote) \subseteq Holds(remote)'
    /\ remote' # None

\* Device e is not touched, its transport included.
Rests(e) == Still(e) /\ ifm'[e] = ifm[e]

\* A step that writes neither the object nor a vault only advances.
LEMMA QuietAdvances ==
    ASSUME Inv, UNCHANGED <<remote, uploaded, blobs, disk>>
    PROVE  Advances
  BY UnchangedGrows DEF Advances, Inv, SafeInv, SafeObject, Holds, blobs

\* A device that does not move keeps its part while the object advances.
LEMMA RestingDevice ==
    ASSUME Inv, TypeInv', Advances, NEW e \in Device, Rests(e)
    PROVE  SafeDevice(e)'
  <1>1. /\ disk[e] \in Pointer /\ regMem[e].etag \in Pointer /\ regDisk[e].etag \in Pointer
        /\ run[e].snap \in Pointer /\ run[e].body \in Pointer /\ run[e].ifMatch \in Pointer
        /\ run[e].etag \in Pointer
    BY DEF Inv, TypeInv, TypeOK, SyncBlock, Run, Pointer
  <1>2. \A b \in {disk[e], regMem[e].etag, regDisk[e].etag, run[e].snap, run[e].body,
                  run[e].ifMatch, run[e].etag} : Holds(b)' = Holds(b)
    BY <1>1, HoldsKept DEF Inv, Advances, DataInv, DeviceInv, Names, RunMade
  <1>3. SafeDevice(e)
    BY DEF Inv, SafeInv
  <1>4. QED
    BY <1>2, <1>3
    DEF SafeDevice, SafeAt, Known, Extension, Rests, Still, Advances

\* A step of one device keeps the invariant if that device keeps its part.
LEMMA OthersRest ==
    ASSUME Inv, TypeInv', Advances, SafeObject', NEW d \in Device, SafeDevice(d)',
           \A e \in Device \ {d} : Rests(e)
    PROVE  SafeInv'
  BY RestingDevice DEF SafeInv

\* A step that only concerns the store keeps the invariant if the object does.
LEMMA AllRest ==
    ASSUME Inv, TypeInv', Advances, SafeObject', \A e \in Device : Rests(e)
    PROVE  SafeInv'
  BY RestingDevice DEF SafeInv

\* The object keeps its part when no request is added to those under way.
LEMMA ObjectKept ==
    ASSUME Inv, TypeInv', Advances, inflight' \subseteq inflight
    PROVE  SafeObject'
  <1>1. ASSUME NEW m \in inflight PROVE Extension(m.from, m.body, m.ifMatch)'
    <2>1. m.body \in Pointer /\ m.ifMatch \in Pointer /\ m.from \in Device
      BY DEF Inv, TypeInv, TypeOK, PutRequest, Pointer
    <2>2. Holds(m.body)' = Holds(m.body) /\ Holds(m.ifMatch)' = Holds(m.ifMatch)
      BY <2>1, HoldsKept DEF Inv, Advances, DataInv, ObjectInv
    <2>3. QED
      BY <2>1, <2>2 DEF Inv, SafeInv, SafeObject, Extension, Advances
  <1>2. QED
    BY <1>1 DEF SafeObject, Advances

\* d's transport never believes the backend to be degraded.
Enforcing(d) == ifm'[d] # "Degraded" /\ \A e \in Device \ {d} : ifm'[e] = ifm[e]

\* A step of d that changes only its own locals.
LEMMA SafeLocalStep ==
    ASSUME Inv, TypeInv', NEW d \in Device, NEW step \in Steps, NEW r \in Run,
           Goto(d, step, r), SafeAt(d, step, r), Enforcing(d),
           UNCHANGED <<store, blobs, files, reg>>
    PROVE  SafeInv'
  <1> USE DEF store, blobs, files, reg
  <1>1. Advances
    BY QuietAdvances
  <1>2. pc'[d] = step /\ run'[d] = r /\ \A e \in Device \ {d} : Rests(e)
    BY DEF Goto, Rests, Still, Enforcing, Inv, TypeInv, TypeOK
  <1>3. SafeDevice(d)'
    BY <1>2 DEF Inv, SafeInv, SafeDevice, SafeAt, Known, Extension, Holds, Enforcing
  <1>4. QED
    BY <1>1, <1>2, <1>3, ObjectKept, OthersRest

\* A run that has learned nothing has nothing to lose.
LEMMA NothingSafe ==
    ASSUME Inv, NEW d \in Device
    PROVE  /\ SafeAt(d, "idle", NoRun) /\ SafeAt(d, "head", NoRun) /\ SafeAt(d, "fail", NoRun)
           /\ NoRun \in Run /\ Holds(None) = {}
  BY NothingHeld, ConstantTypes DEF Inv, SafeAt, NoRun

\* A run that returns an error loses nothing.
LEMMA SafeErrStep ==
    ASSUME Inv, TypeInv', NEW d \in Device, ReturnErr(d), UNCHANGED <<store, blobs, files, reg, ifm>>
    PROVE  SafeInv'
  <1>1. Enforcing(d)
    BY DEF Enforcing, Inv, SafeInv, SafeDevice
  <1>2. QED
    BY <1>1, NothingSafe, SafeLocalStep DEF ReturnErr, Steps

\* A run that returns a block with a known ETag loses nothing.
LEMMA SafeOkStep ==
    ASSUME Inv, TypeInv', NEW d \in Device, NEW etag \in Pointer, NEW sha \in Pointer,
           ReturnOk(d, etag, sha), Known(d, etag), UNCHANGED <<store, blobs, files, reg, ifm>>
    PROVE  SafeInv'
  <1> DEFINE r == [NoRun EXCEPT !.etag = etag, !.sha = sha]
  <1>1. r \in Run /\ r.etag = etag /\ r.snap = None
    BY ConstantTypes DEF Run, NoRun
  <1>2. SafeAt(d, "commit", r)
    BY <1>1, NothingSafe DEF SafeAt
  <1>3. Enforcing(d)
    BY DEF Enforcing, Inv, SafeInv, SafeDevice
  <1>4. QED
    BY <1>1, <1>2, <1>3, SafeLocalStep DEF ReturnOk, Steps

\* The object takes an extension of itself; d goes on with locals r.
LEMMA SafePutStep ==
    ASSUME Inv, TypeInv', NEW body \in Blob, ApplyPut(body), Holds(remote) \subseteq Holds(body),
           inflight' \subseteq inflight, UNCHANGED <<blobs, files>>
    PROVE  Advances /\ SafeObject' /\ Holds(body) \subseteq Holds(remote)'
  <1> USE DEF blobs, files
  <1>1. Holds(remote)' = Holds(body)
    BY DEF ApplyPut, Holds
  <1>2. Advances
    BY <1>1, UnchangedGrows, ConstantTypes DEF ApplyPut, Advances, Holds, Inv
  <1>3. QED
    BY <1>1, <1>2, ObjectKept

\* A run that ends and persists a known ETag loses nothing.
LEMMA SafeFinishStep ==
    ASSUME Inv, TypeInv', NEW d \in Device, Finish(d), UNCHANGED <<store, blobs, files>>,
           \A e \in Device \ {d} : regMem'[e] = regMem[e] /\ regDisk'[e] = regDisk[e],
           Known(d, regMem'[d].etag), Known(d, regDisk'[d].etag),
           "Degraded" \notin {regMem'[d].ifm, regDisk'[d].ifm}
    PROVE  SafeInv'
  <1> USE DEF store, blobs, files
  <1>1. Advances
    BY QuietAdvances
  <1>2. pc'[d] = "idle" /\ run'[d] = NoRun /\ ifm'[d] = "Unknown"
        /\ \A e \in Device \ {d} : Rests(e)
    BY DEF Finish, Goto, Rests, Still, Inv, TypeInv, TypeOK
  <1>3. SafeDevice(d)'
    BY <1>2, NothingSafe DEF SafeDevice, SafeAt, Known, Holds
  <1>4. QED
    BY <1>1, <1>2, <1>3, ObjectKept, OthersRest

\* d calls put_conditional for an extension.
LEMMA SafeCallPutStep ==
    ASSUME SafeDeployment, Inv, TypeInv', Advances, NEW d \in Device,
           NEW path \in {"push", "merge"}, NEW tries \in 0..MaxAttempts, NEW body \in Blob,
           NEW ifMatch \in Pointer, CallPut(d, path, tries, body, ifMatch),
           Extension(d, body, ifMatch)', UNCHANGED <<store, bak, reg>>,
           \A e \in Device \ {d} : disk'[e] = disk[e]
    PROVE  SafeInv'
  <1> USE DEF store, reg
  <1> DEFINE r == [NoRun EXCEPT !.path = path, !.tries = tries,
                                !.body = body, !.ifMatch = ifMatch]
  <1>1. r \in Run /\ r.body = body /\ r.ifMatch = ifMatch /\ r.snap = None
    BY ConstantTypes DEF Run, NoRun, Paths, Pointer
  <1>2. pc'[d] = "put" /\ run'[d] = r /\ \A e \in Device \ {d} : Rests(e)
    BY DEF CallPut, Goto, Rests, Still, Inv, TypeInv, TypeOK
  <1>3. ifm'[d] # "Degraded"
    BY DEF CallPut, SafeDeployment, Inv, SafeInv, SafeDevice, TypeInv, TypeOK
  <1>4. regMem[d].etag \in Pointer /\ regDisk[d].etag \in Pointer
    BY DEF Inv, TypeInv, TypeOK, SyncBlock, Pointer
  <1>5. Known(d, regMem[d].etag)' /\ Known(d, regDisk[d].etag)'
    BY <1>4, HoldsKept DEF Inv, SafeInv, SafeDevice, Known, Advances, DataInv, DeviceInv, Names
  <1>6. SafeAt(d, "put", r)'
    BY <1>1, <1>2, NothingSafe DEF SafeAt, Holds
  <1>7. SafeDevice(d)'
    BY <1>1, <1>2, <1>3, <1>5, <1>6 DEF SafeDevice, SafeAt, Inv, SafeInv
  <1>8. QED
    BY <1>2, <1>7, ObjectKept, OthersRest

\* d goes on at `step` with locals r, its registry entry as it was.
LEMMA SafeDeviceStep ==
    ASSUME Inv, TypeInv', Advances, SafeObject', NEW d \in Device, NEW step \in Steps,
           NEW r \in Run, pc'[d] = step, run'[d] = r, ifm'[d] # "Degraded", SafeAt(d, step, r)',
           UNCHANGED reg, \A e \in Device \ {d} : Rests(e)
    PROVE  SafeInv'
  <1> USE DEF reg
  <1>1. regMem[d].etag \in Pointer /\ regDisk[d].etag \in Pointer
    BY DEF Inv, TypeInv, TypeOK, SyncBlock, Pointer
  <1>2. Known(d, regMem[d].etag)' /\ Known(d, regDisk[d].etag)'
    BY <1>1, HoldsKept DEF Inv, SafeInv, SafeDevice, Known, Advances, DataInv, DeviceInv, Names
  <1>3. SafeDevice(d)'
    BY <1>2 DEF SafeDevice, SafeAt, Inv, SafeInv
  <1>4. QED
    BY <1>3, OthersRest

\* A save that only adds edits.
LEMMA SafeSave ==
    ASSUME Inv, TypeInv', NEW d \in Device, NEW c, SaveVault(d, c), content[disk[d]] \subseteq c,
           UNCHANGED store
    PROVE  /\ Advances /\ SafeObject' /\ Holds(disk[d])' = c
           /\ \A e \in Device \ {d} : disk'[e] = disk[e]
  <1> USE DEF store
  <1>1. Grows /\ nBlobs + 1 \in Blob /\ content'[nBlobs + 1] = c
    BY SaveVaultGrows DEF Inv
  <1>2. disk'[d] = nBlobs + 1 /\ \A e \in Device \ {d} : disk'[e] = disk[e]
    BY DEF SaveVault, Inv, TypeInv, TypeOK
  <1>3. Holds(disk[d])' = c
    BY <1>1, <1>2, ConstantTypes DEF Holds
  <1>4. \A e \in Device : Holds(disk[e]) = content[disk[e]] /\ disk[e] \in Pointer
    BY DeviceFacts DEF Inv, TypeInv, TypeOK, Pointer
  <1>5. \A e \in Device \ {d} : Holds(disk[e])' = Holds(disk[e])
    BY <1>1, <1>2, <1>4, HoldsKept DEF Inv, DataInv, DeviceInv, Names, Holds
  <1>6. Holds(remote)' = Holds(remote)
    BY <1>1, HoldsKept DEF Inv, DataInv, ObjectInv, TypeInv, TypeOK
  <1>7. Advances
    BY <1>1, <1>3, <1>4, <1>5, <1>6 DEF Advances, Inv, SafeInv, SafeObject
  <1>8. QED
    BY <1>2, <1>3, <1>7, ObjectKept

\* d's PUT lost a race.
LEMMA SafeLostRaceStep ==
    ASSUME Inv, TypeInv', NEW d \in Device, PutReturnsPreconditionFailed(d),
           UNCHANGED <<store, blobs, files, reg, ifm>>
    PROVE  SafeInv'
  <1> DEFINE r == [NoRun EXCEPT !.path = "merge", !.tries = run[d].tries]
  <1>1. r \in Run /\ r.path = "merge" /\ r.snap = None
    BY DeviceTypes, ConstantTypes DEF Inv, Run, NoRun, Paths
  <1>2. SafeAt(d, "fetch", r)
    BY <1>1, NothingSafe DEF SafeAt
  <1>3. Enforcing(d)
    BY DEF Enforcing, Inv, SafeInv, SafeDevice
  <1>4. CASE Goto(d, "fetch", r)
    BY <1>1, <1>2, <1>3, <1>4, SafeLocalStep DEF Steps
  <1>5. CASE ReturnErr(d)
    BY <1>5, SafeErrStep
  <1>6. QED
    BY <1>4, <1>5 DEF PutReturnsPreconditionFailed

\* The PUT d is about to send names the version it extends.
LEMMA SafeWire ==
    ASSUME SafeDeployment, Inv, NEW d \in Device, pc[d] = "put"
    PROVE  /\ Wire(d) = run[d].ifMatch /\ Extension(d, run[d].body, run[d].ifMatch)
           /\ run[d].body \in Blob /\ run[d].body \in Pointer /\ run[d].ifMatch \in Pointer
           /\ Made(run[d].body) /\ Made(run[d].ifMatch)
           /\ Accepts(Wire(d)) => Holds(remote) \subseteq Holds(run[d].body)
  <1>1. Wire(d) = run[d].ifMatch /\ Extension(d, run[d].body, run[d].ifMatch)
    BY DEF Wire, Inv, SafeInv, SafeDevice, SafeAt
  <1>2. run[d].body \in Blob /\ run[d].body \in Pointer /\ run[d].ifMatch \in Pointer
    BY DeviceTypes, DeviceFacts DEF Inv
  <1>3. Made(run[d].body) /\ Made(run[d].ifMatch)
    BY DeviceFacts DEF Inv, Names, RunMade
  <1>4. Accepts(Wire(d)) => Holds(remote) \subseteq Holds(run[d].body)
    BY <1>1 DEF Accepts, SafeDeployment, Extension, Inv, TypeInv, TypeOK
  <1>5. QED
    BY <1>1, <1>2, <1>3, <1>4

\* What the invariant says of one device, unfolded.
LEMMA SafeFacts ==
    ASSUME Inv, NEW d \in Device
    PROVE  /\ SafeDevice(d) /\ remote # None /\ TypeInv /\ Names(d) /\ Knows(d)
           /\ Holds(disk[d]) = content[disk[d]]
           /\ ifm[d] # "Degraded"
           /\ ifm' = ifm => Enforcing(d)
  BY DeviceFacts DEF Inv, SafeInv, SafeObject, SafeDevice, Enforcing

\* In a SafeDeployment every step keeps SafeInv.
LEMMA SafeNext == SafeDeployment /\ Inv /\ TypeInv' /\ [Next]_vars => SafeInv'
  <1> SUFFICES ASSUME SafeDeployment, Inv, TypeInv', [Next]_vars PROVE SafeInv'
    OBVIOUS
  <1> USE DEF store, blobs, files, reg
  <1>1. ASSUME NEW d \in Device, Edit(d) PROVE SafeInv'
    <2>1. PICK c : c = content[disk[d]] \cup {nEdits + 1}
      OBVIOUS
    <2>2. /\ Advances /\ SafeObject' /\ \A e \in Device \ {d} : disk'[e] = disk[e]
      BY <1>1, <2>1, SafeSave DEF Edit
    <2>3. PICK r \in Run : r = run[d]
      BY SafeFacts, DeviceTypes
    <2>4. SafeAt(d, "idle", r)'
      BY <1>1, <2>2, <2>3, SafeFacts, DeviceTypes, HoldsKept
      DEF Edit, SafeDevice, SafeAt, Advances, Names, RunMade
    <2>5. QED
      BY <1>1, <2>2, <2>3, <2>4, SafeFacts, SafeDeviceStep DEF Edit, Rests, Still, Steps
  <1>2. ASSUME NEW d \in Device, StartSync(d) PROVE SafeInv'
    <2>1. Enforcing(d)
      BY <1>2, SafeFacts DEF StartSync, Enforcing, SafeDevice, Inv, TypeInv, TypeOK
    <2>2. QED
      BY <1>2, <2>1, NothingSafe, SafeLocalStep DEF StartSync, Steps
  <1>3. ASSUME NEW d \in Device, Head(d) PROVE SafeInv'
    <2> DEFINE r == [run[d] EXCEPT !.head = remote]
    <2>1. r \in Run /\ r.head = remote /\ r.snap = run[d].snap
      BY SafeFacts, DeviceTypes, DeviceFacts, ConstantTypes DEF Inv, Run, NoRun, Paths
    <2>2. SafeAt(d, "compare", r)
      BY <1>3, <2>1, SafeFacts, NothingSafe DEF Head, SafeDevice, SafeAt
    <2>3. Enforcing(d)
      BY <1>3, SafeFacts DEF Head
    <2>4. QED
      BY <1>3, <2>1, <2>2, <2>3, SafeLocalStep DEF Head, Steps
  <1>4. ASSUME NEW d \in Device, CompareInSync(d) PROVE SafeInv'
    BY <1>4, SafeFacts, DeviceTypes, SafeOkStep DEF CompareInSync, SafeDevice
  <1>5. ASSUME NEW d \in Device, ComparePush(d) PROVE SafeInv'
    <2>1. Extension(d, disk[d], regMem[d].etag) /\ regMem[d].etag # None
      BY <1>5, SafeFacts DEF ComparePush, SafeDevice, SafeAt, Known, Extension, RemoteChanged
    <2>2. PICK b \in Blob, v \in Pointer : b = disk[d] /\ v = regMem[d].etag
      BY SafeFacts, DeviceTypes
    <2>3. Extension(d, b, v)'
      BY <1>5, <2>1, <2>2 DEF ComparePush, Extension, Holds
    <2>4. Advances
      BY <1>5, QuietAdvances DEF ComparePush
    <2>5. QED
      BY <1>5, <2>2, <2>3, <2>4, SafeCallPutStep, ConstantTypes DEF ComparePush
  <1>6. ASSUME NEW d \in Device, CompareFast(d) PROVE SafeInv'
    <2> DEFINE r == [NoRun EXCEPT !.path = "fast"]
    <2>1. r \in Run /\ r.snap = None
      BY SafeFacts, DeviceTypes, DeviceFacts, ConstantTypes DEF Inv, Run, NoRun, Paths
    <2>2. SafeAt(d, "fetch", r)
      BY <1>6, <2>1, SafeFacts, NothingSafe DEF CompareFast, SafeDevice, SafeAt
    <2>3. Enforcing(d)
      BY <1>6, SafeFacts DEF CompareFast
    <2>4. QED
      BY <1>6, <2>1, <2>2, <2>3, SafeLocalStep DEF CompareFast, Steps
  <1>7. ASSUME NEW d \in Device, CompareMerge(d) PROVE SafeInv'
    <2> DEFINE r == [NoRun EXCEPT !.path = "merge"]
    <2>1. r \in Run /\ r.snap = None /\ r.path = "merge"
      BY SafeFacts, DeviceTypes, DeviceFacts, ConstantTypes DEF Inv, Run, NoRun, Paths
    <2>2. SafeAt(d, "backup", r)
      BY <1>7, <2>1, SafeFacts, NothingSafe DEF CompareMerge, SafeDevice, SafeAt
    <2>3. Enforcing(d)
      BY <1>7, SafeFacts DEF CompareMerge
    <2>4. QED
      BY <1>7, <2>1, <2>2, <2>3, SafeLocalStep DEF CompareMerge, Steps
  <1>8. ASSUME NEW d \in Device, Backup(d) PROVE SafeInv'
    <2>1. PICK step \in {"replace", "fetch"}, r \in Run :
             r = run[d] /\ step = IF run[d].path = "fast" THEN "replace" ELSE "fetch"
      BY SafeFacts, DeviceTypes
    <2>2. Advances /\ SafeObject'
      BY <1>8, QuietAdvances, ObjectKept DEF Backup
    <2>3. SafeAt(d, step, r)'
      BY <1>8, <2>1, SafeFacts DEF Backup, SafeDevice, SafeAt, Holds
    <2>4. pc'[d] = step /\ run'[d] = r /\ \A e \in Device \ {d} : Rests(e)
      BY <1>8, <2>1 DEF Backup, Goto, Rests, Still, Inv, TypeInv, TypeOK
    <2>5. QED
      BY <1>8, <2>1, <2>2, <2>3, <2>4, SafeFacts, SafeDeviceStep DEF Backup, Steps
  <1>9. ASSUME NEW d \in Device, FetchNotModified(d) PROVE SafeInv'
    BY <1>9, SafeFacts, DeviceTypes, SafeOkStep DEF FetchNotModified, SafeDevice
  <1>10. ASSUME NEW d \in Device, FetchFast(d) PROVE SafeInv'
    <2> DEFINE r == [run[d] EXCEPT !.snap = remote]
    <2>1. r \in Run /\ r.snap = remote
      BY SafeFacts, DeviceTypes, DeviceFacts, ConstantTypes DEF Inv, Run, NoRun, Paths
    <2>2. SafeAt(d, "backup", r)
      BY <1>10, <2>1, SafeFacts, NothingSafe DEF FetchFast, SafeDevice, SafeAt, Known, Knows, At, SamePublished
    <2>3. Enforcing(d)
      BY <1>10, SafeFacts DEF FetchFast
    <2>4. QED
      BY <1>10, <2>1, <2>2, <2>3, SafeLocalStep DEF FetchFast, Steps
  <1>11. ASSUME NEW d \in Device, FetchMerge(d) PROVE SafeInv'
    <2> DEFINE r == [run[d] EXCEPT !.snap = remote, !.tries = @ + 1]
    <2>0. run[d].tries < MaxAttempts
      BY <1>11 DEF FetchMerge, Inv, TypeInv, Shape, ShapeOf
    <2>a. run[d].tries + 1 \in 0..MaxAttempts /\ remote \in Pointer
      BY <2>0, SafeFacts, DeviceTypes, DeviceFacts, ConstantTypes DEF Inv
    <2>1. r \in Run /\ r.snap = remote
      BY <2>a, SafeFacts, DeviceTypes, DeviceFacts, ConstantTypes DEF Inv, Run
    <2>2. SafeAt(d, "reconcile", r)
      BY <1>11, <2>1, SafeFacts, NothingSafe DEF FetchMerge, SafeDevice, SafeAt
    <2>3. Enforcing(d)
      BY <1>11, SafeFacts DEF FetchMerge
    <2>4. QED
      BY <1>11, <2>1, <2>2, <2>3, SafeLocalStep DEF FetchMerge, Steps
  <1>12. ASSUME NEW d \in Device, FetchNotFound(d) PROVE SafeInv'
    BY <1>12, SafeErrStep DEF FetchNotFound
  <1>13. ASSUME NEW d \in Device, Replace(d) PROVE SafeInv'
    <2>c. PICK c : c = content[run[d].snap]
      OBVIOUS
    <2>1. PICK r \in Run : r = run[d]
      BY SafeFacts, DeviceTypes
    <2>2. content[disk[d]] \subseteq c
      BY <1>13, <2>c, SafeFacts, DeviceTypes, ConstantTypes DEF Replace, SafeDevice, SafeAt, Holds
    <2>3. /\ Advances /\ SafeObject' /\ \A e \in Device \ {d} : disk'[e] = disk[e]
      BY <1>13, <2>c, <2>2, SafeSave DEF Replace
    <2>4. SafeAt(d, "rehash", r)'
      BY <1>13, <2>1, <2>3, SafeFacts, DeviceTypes, HoldsKept
      DEF Replace, SafeDevice, SafeAt, Advances, Names, RunMade
    <2>5. pc'[d] = "rehash" /\ run'[d] = r /\ \A e \in Device \ {d} : Rests(e)
      BY <1>13, <2>1, <2>3 DEF Replace, Goto, Rests, Still, Inv, TypeInv, TypeOK
    <2>6. QED
      BY <1>13, <2>3, <2>4, <2>5, SafeFacts, SafeDeviceStep DEF Replace, Steps
  <1>14. ASSUME NEW d \in Device, Rehash(d) PROVE SafeInv'
    <2>1. Known(d, run[d].snap)
      BY <1>14, SafeFacts DEF Rehash, SafeDevice, SafeAt, Knows, At, Known
    <2>2. QED
      BY <1>14, <2>1, SafeFacts, DeviceTypes, SafeOkStep DEF Rehash
  <1>15. ASSUME NEW d \in Device, Reconcile(d) PROVE SafeInv'
    <2>c. PICK c : c = content[disk[d]] \cup content[run[d].snap]
      OBVIOUS
    <2>n. nBlobs + 1 \in Nat
      BY ConstantTypes DEF Inv, TypeInv, TypeOK
    <2>b. PICK b \in Nat, v \in Pointer : b = nBlobs + 1 /\ v = run[d].snap
      BY <2>n, SafeFacts, DeviceTypes
    <2>1. v \in Blob /\ Holds(v) = content[v] /\ Made(v)
      BY <1>15, <2>b, SafeFacts, DeviceTypes, ConstantTypes
      DEF Reconcile, Holds, Names, RunMade
    <2>2. /\ Advances /\ Holds(disk[d])' = c /\ \A e \in Device \ {d} : disk'[e] = disk[e]
      BY <1>15, <2>c, SafeSave DEF Reconcile
    <2>3. b \in Blob /\ disk'[d] = b
      BY <1>15, <2>b, SafeFacts, SaveVaultGrows DEF Reconcile, SaveVault, TypeInv, TypeOK
    <2>4. Holds(v)' = Holds(v)
      BY <2>1, <2>2, SafeFacts, HoldsKept DEF Advances, Pointer
    <2>5. Extension(d, b, v)'
      BY <2>c, <2>b, <2>1, <2>2, <2>3, <2>4, ConstantTypes DEF Extension, Holds
    <2>6. QED
      BY <1>15, <2>b, <2>2, <2>3, <2>5, SafeFacts, DeviceTypes, SafeCallPutStep DEF Reconcile
  <1>16. ASSUME NEW d \in Device, PutAccepted(d) PROVE SafeInv'
    <2>1. PICK b \in Blob : b = run[d].body
      BY <1>16, SafeWire DEF PutAccepted
    <2>2. Holds(remote) \subseteq Holds(b) /\ Holds(b) \subseteq Holds(disk[d])
      BY <1>16, <2>1, SafeWire DEF PutAccepted, Extension
    <2>3. Advances /\ SafeObject' /\ Holds(b) \subseteq Holds(remote)'
      BY <1>16, <2>1, <2>2, SafePutStep DEF PutAccepted
    <2>4. PICK r \in Run : r = [NoRun EXCEPT !.etag = b, !.sha = b]
      BY <2>1, ConstantTypes DEF Run, NoRun, Pointer
    <2>5. r.etag = b /\ r.snap = None
      BY <2>4 DEF NoRun
    <2>6. Goto(d, "commit", r)
      BY <1>16, <2>1, <2>4, SafeFacts DEF PutAccepted, PutReturnsOk, ReturnOk, SafeDevice
    <2>7. pc'[d] = "commit" /\ run'[d] = r /\ \A e \in Device \ {d} : Rests(e)
      BY <1>16, <2>6 DEF PutAccepted, Goto, Rests, Still, Inv, TypeInv, TypeOK
    <2>8. SafeAt(d, "commit", r)'
      BY <1>16, <2>2, <2>3, <2>5, NothingSafe DEF PutAccepted, SafeAt, Known, Holds
    <2>9. QED
      BY <1>16, <2>3, <2>7, <2>8, SafeFacts, SafeDeviceStep DEF PutAccepted, Steps
  <1>17. ASSUME NEW d \in Device, PutRejected(d) PROVE SafeInv'
    BY <1>17, SafeLostRaceStep DEF PutRejected
  <1>18. ASSUME NEW d \in Device, PutNotFound(d) PROVE SafeInv'
    BY <1>18, SafeErrStep DEF PutNotFound
  <1>19. ASSUME NEW d \in Device, Verify(d) PROVE SafeInv'
    BY <1>19, SafeFacts DEF Verify, SafeDevice, SafeAt
  <1>20. ASSUME NEW d \in Device, Commit(d) PROVE SafeInv'
    <2>1. /\ regMem'[d].etag = run[d].etag /\ regMem'[d].ifm = ifm[d]
          /\ regDisk'[d] \in {regMem'[d], regDisk[d]}
          /\ \A e \in Device \ {d} : regMem'[e] = regMem[e] /\ regDisk'[e] = regDisk[e]
      BY <1>20 DEF Commit, PersistBlock, Inv, TypeInv, TypeOK, SyncBlock
    <2>2. QED
      BY <1>20, <2>1, SafeFacts, SafeFinishStep DEF Commit, SafeDevice, SafeAt
  <1>21. ASSUME NEW d \in Device, Abort(d) PROVE SafeInv'
    <2>1. /\ regMem'[d].etag = regMem[d].etag /\ regMem'[d].ifm = ifm[d]
          /\ regDisk'[d] \in {regMem'[d], regDisk[d]}
          /\ \A e \in Device \ {d} : regMem'[e] = regMem[e] /\ regDisk'[e] = regDisk[e]
      BY <1>21 DEF Abort, PersistBlock, Inv, TypeInv, TypeOK, SyncBlock
    <2>2. QED
      BY <1>21, <2>1, SafeFacts, SafeFinishStep DEF Abort, SafeDevice, SafeAt
  <1>22. ASSUME NEW d \in Device, NEW saved \in BOOLEAN, ConfigureRemote(d, saved) PROVE SafeInv'
    <2>1. Advances /\ SafeObject'
      BY <1>22, QuietAdvances, ObjectKept DEF ConfigureRemote
    <2>2. /\ regMem'[d] = FreshBlock /\ regDisk'[d] \in {FreshBlock, regDisk[d]}
          /\ \A e \in Device \ {d} : Rests(e)
      BY <1>22 DEF ConfigureRemote, Rests, Still, Inv, TypeInv, TypeOK
    <2>3. SafeDevice(d)'
      BY <1>22, <2>2, SafeFacts, NothingSafe
      DEF ConfigureRemote, SafeDevice, SafeAt, Known, Extension, Holds, FreshBlock
    <2>4. QED
      BY <2>1, <2>2, <2>3, OthersRest
  <1>23. ASSUME NEW d \in Device, Crash(d) PROVE SafeInv'
    <2>1. /\ regMem'[d] = regDisk[d] /\ regDisk'[d] = regDisk[d]
          /\ \A e \in Device \ {d} : regMem'[e] = regMem[e] /\ regDisk'[e] = regDisk[e]
      BY <1>23 DEF Crash, Inv, TypeInv, TypeOK
    <2>2. QED
      BY <1>23, <2>1, SafeFacts, SafeFinishStep DEF Crash, SafeDevice
  <1>24. ASSUME NEW d \in Device, NEW applied \in BOOLEAN, PutUnavailable(d, applied) PROVE SafeInv'
    <2>1. PICK b \in Blob : b = run[d].body
      BY <1>24, SafeWire DEF PutUnavailable
    <2>2. Advances /\ SafeObject'
      <3>1. CASE applied
        BY <1>24, <2>1, <3>1, SafeWire, SafePutStep DEF PutUnavailable
      <3>2. CASE ~applied
        BY <1>24, <3>2, QuietAdvances, ObjectKept DEF PutUnavailable
      <3>3. QED
        BY <3>1, <3>2
    <2>3. PICK r \in Run : r = [run[d] EXCEPT !.resent = TRUE]
      BY SafeFacts, DeviceTypes DEF Run
    <2>4. r.body = run[d].body /\ r.ifMatch = run[d].ifMatch /\ r.snap = run[d].snap
      BY <2>3, SafeFacts, DeviceTypes DEF Run
    <2>5. pc'[d] = "put" /\ run'[d] = r /\ \A e \in Device \ {d} : Rests(e)
      BY <1>24, <2>3 DEF PutUnavailable, Goto, Rests, Still, Inv, TypeInv, TypeOK
    <2>6. PICK bd \in Pointer, v \in Pointer, sn \in Pointer :
             bd = run[d].body /\ v = run[d].ifMatch /\ sn = run[d].snap
      BY <1>24, SafeFacts, DeviceTypes, SafeWire DEF PutUnavailable
    <2>7. Holds(bd)' = Holds(bd) /\ Holds(v)' = Holds(v) /\ Holds(sn)' = Holds(sn)
      BY <1>24 DEF PutUnavailable, Holds
    <2>8. SafeAt(d, "put", r)'
      <3>1. /\ v # None /\ Holds(v) \subseteq Holds(bd) /\ Holds(bd) \subseteq Holds(disk[d])
            /\ Holds(sn) \subseteq Holds(remote)
        BY <1>24, <2>6, SafeFacts, SafeWire DEF PutUnavailable, SafeDevice, SafeAt, Extension
      <3>2. /\ Holds(v)' \subseteq Holds(bd)' /\ Holds(bd)' \subseteq Holds(disk[d])'
            /\ Holds(sn)' \subseteq Holds(remote)'
        BY <2>2, <2>7, <3>1 DEF Advances
      <3>3. r.body = bd /\ r.ifMatch = v /\ r.snap = sn
        BY <2>4, <2>6
      <3>4. QED
        BY <3>1, <3>2, <3>3 DEF SafeAt, Extension
    <2>9. QED
      BY <1>24, <2>2, <2>5, <2>8, SafeFacts, SafeDeviceStep DEF PutUnavailable, Steps
  <1>25. ASSUME NEW d \in Device, NEW late \in BOOLEAN, PutUnanswered(d, late) PROVE SafeInv'
    <2>1. PICK b \in Blob : b = run[d].body
      BY <1>25, SafeWire DEF PutUnanswered
    <2>2. Advances /\ SafeObject'
      <3>1. CASE ~late
        BY <1>25, <2>1, <3>1, SafeWire, SafePutStep DEF PutUnanswered
      <3>2. CASE late
        <4>1. Advances
          BY <1>25, <3>2, QuietAdvances DEF PutUnanswered
        <4>2. PICK m : m = [from |-> d, body |-> run[d].body, ifMatch |-> Wire(d)]
          OBVIOUS
        <4>3. Extension(m.from, m.body, m.ifMatch)'
          BY <1>25, <4>2, SafeWire DEF PutUnanswered, Extension, Holds
        <4>4. \A n \in inflight : Extension(n.from, n.body, n.ifMatch)'
          BY <1>25 DEF PutUnanswered, Extension, Holds, Inv, SafeInv, SafeObject
        <4>5. inflight' = inflight \cup {m}
          BY <1>25, <3>2, <4>2 DEF PutUnanswered
        <4>6. QED
          BY <4>1, <4>3, <4>4, <4>5 DEF SafeObject, Advances
      <3>3. QED
        BY <3>1, <3>2
    <2>3. pc'[d] = "fail" /\ run'[d] = NoRun /\ \A e \in Device \ {d} : Rests(e)
      BY <1>25 DEF PutUnanswered, ReturnErr, Goto, Rests, Still, Inv, TypeInv, TypeOK
    <2>4. SafeAt(d, "fail", NoRun)'
      BY NothingSafe DEF SafeAt, NoRun, Holds
    <2>5. QED
      BY <1>25, <2>2, <2>3, <2>4, SafeFacts, NothingSafe, SafeDeviceStep DEF PutUnanswered, Steps
  <1>26. ASSUME NEW d \in Device, Fail(d) PROVE SafeInv'
    BY <1>26, SafeErrStep DEF Fail
  <1>27. ASSUME NEW m \in inflight, DeliverLate(m) PROVE SafeInv'
    <2>1. /\ m.body \in Blob /\ inflight' \subseteq inflight
          /\ Accepts(m.ifMatch) => Holds(remote) \subseteq Holds(m.body)
      BY <1>27 DEF DeliverLate, Accepts, SafeDeployment, Inv, TypeInv, TypeOK, PutRequest,
         SafeInv, SafeObject, Extension
    <2>2. Advances /\ SafeObject'
      <3>1. CASE Accepts(m.ifMatch)
        <4>1. PICK b \in Blob : b = m.body
          BY <2>1
        <4>2. QED
          BY <1>27, <2>1, <3>1, <4>1, SafePutStep DEF DeliverLate
      <3>2. CASE ~Accepts(m.ifMatch)
        BY <1>27, <2>1, <3>2, QuietAdvances, ObjectKept DEF DeliverLate
      <3>3. QED
        BY <3>1, <3>2
    <2>3. QED
      BY <1>27, <2>2, AllRest DEF DeliverLate, Rests, Still
  <1>28. CASE LoseObject
    BY <1>28 DEF LoseObject, SafeDeployment
  <1>29. CASE UNCHANGED vars
    BY <1>29, QuietAdvances, ObjectKept, AllRest DEF vars, Rests, Still
  <1>30. QED
    BY <1>1, <1>2, <1>3, <1>4, <1>5, <1>6, <1>7, <1>8, <1>9, <1>10, <1>11, <1>12,
       <1>13, <1>14, <1>15, <1>16, <1>17, <1>18, <1>19, <1>20, <1>21, <1>22, <1>23,
       <1>24, <1>25, <1>26, <1>27, <1>28, <1>29
    DEF Next, Step, Disturb

-----------------------------------------------------------------------------
(* Every step is a step of SharedVault or leaves its state alone.          *)

\* The edits in the vault files, SharedVault's seen.
Seen == [d \in Device |-> content[disk[d]]]

\* A step that edits, saves and uploads nothing is a stutter of SharedVault.
LEMMA StutterStep ==
    ASSUME UNCHANGED <<nEdits, blobs, disk, remote>>
    PROVE  UNCHANGED Abstract!vars
  BY DEF Abstract!vars, blobs, Holds

\* A save of content c, seen from SharedVault.
LEMMA SeenAfterSave ==
    ASSUME Inv, TypeInv', NEW d \in Device, NEW c, SaveVault(d, c), UNCHANGED store
    PROVE  Seen' = [Seen EXCEPT ![d] = c] /\ Holds(remote)' = Holds(remote)
  <1>1. \A e \in Device : content'[disk'[e]] = IF e = d THEN c ELSE content[disk[e]]
    BY SavedFile DEF Inv
  <1>2. Grows
    BY SaveVaultGrows DEF Inv, store
  <1>3. Holds(remote)' = Holds(remote)
    BY <1>2, HoldsKept DEF store, Inv, DataInv, ObjectInv, TypeInv, TypeOK
  <1>4. QED
    BY <1>1, <1>3 DEF Seen

\* A save that adds edits of the object is a pull.
LEMMA PullStep ==
    ASSUME Inv, TypeInv', NEW d \in Device, NEW got, got \subseteq Holds(remote),
           SaveVault(d, content[disk[d]] \cup got), UNCHANGED <<store, nEdits>>
    PROVE  Abstract!Pull(d)
  <1>1. PICK c : c = content[disk[d]] \cup got
    OBVIOUS
  <1>2. Seen' = [Seen EXCEPT ![d] = c] /\ Holds(remote)' = Holds(remote)
    BY <1>1, SeenAfterSave
  <1>3. Seen' = [Seen EXCEPT ![d] = @ \cup got]
    BY <1>1, <1>2 DEF Seen
  <1>4. QED
    BY <1>2, <1>3 DEF Abstract!Pull, Seen

\* A PUT of an extension that the vault file of d contains is a publication.
LEMMA PublishStep ==
    ASSUME Inv, NEW d \in Device, NEW body \in Blob, ApplyPut(body),
           Holds(remote) \subseteq Holds(body), Holds(body) \subseteq Holds(disk[d]),
           UNCHANGED <<nEdits, blobs, disk>>
    PROVE  Abstract!Publish(d)
  <1>1. Holds(remote)' = Holds(body)
    BY DEF ApplyPut, Holds, blobs
  <1>2. Holds(disk[d]) = Seen[d]
    BY DeviceFacts DEF Inv, Seen
  <1>3. Seen' = Seen
    BY DEF Seen, blobs
  <1>4. QED
    BY <1>1, <1>2, <1>3 DEF Abstract!Publish, Seen

\* Every step of Sync is a step of SharedVault or a stutter of it.
LEMMA AbstractStep ==
    SafeDeployment /\ Inv /\ TypeInv' /\ [Next]_vars => [Abstract!Next]_(Abstract!vars)
  <1> SUFFICES ASSUME SafeDeployment, Inv, TypeInv', [Next]_vars
               PROVE  [Abstract!Next]_(Abstract!vars)
    OBVIOUS
  <1> USE DEF store, blobs, files, reg
  <1>1. ASSUME NEW d \in Device, Edit(d) PROVE Abstract!Edit(d)
    <2>1. PICK c : c = content[disk[d]] \cup {nEdits + 1}
      OBVIOUS
    <2>2. Seen' = [Seen EXCEPT ![d] = c] /\ Holds(remote)' = Holds(remote)
      BY <1>1, <2>1, SeenAfterSave DEF Edit
    <2>3. Seen' = [Seen EXCEPT ![d] = @ \cup {nEdits + 1}]
      BY <2>1, <2>2 DEF Seen
    <2>4. QED
      BY <1>1, <2>2, <2>3 DEF Edit, Abstract!Edit, Seen
  <1>2. ASSUME NEW d \in Device, Replace(d) PROVE Abstract!Pull(d)
    <2>1. PICK got : got = content[run[d].snap]
      OBVIOUS
    <2>2. content[disk[d]] \subseteq got /\ got \subseteq Holds(remote)
      BY <1>2, <2>1, SafeFacts, DeviceTypes, ConstantTypes DEF Replace, SafeDevice, SafeAt, Holds
    <2>3. content[disk[d]] \cup got = got
      BY <2>2
    <2>4. QED
      BY <1>2, <2>1, <2>2, <2>3, PullStep DEF Replace
  <1>3. ASSUME NEW d \in Device, Reconcile(d) PROVE Abstract!Pull(d)
    <2>1. PICK got : got = content[run[d].snap]
      OBVIOUS
    <2>2. got \subseteq Holds(remote)
      BY <1>3, <2>1, SafeFacts, DeviceTypes, ConstantTypes DEF Reconcile, SafeDevice, SafeAt, Holds
    <2>3. QED
      BY <1>3, <2>1, <2>2, PullStep DEF Reconcile
  <1>4. ASSUME NEW d \in Device, pc[d] = "put", Accepts(Wire(d)), ApplyPut(run[d].body),
               UNCHANGED <<nEdits, blobs, disk>>
        PROVE  Abstract!Publish(d)
    <2>1. PICK b \in Blob : b = run[d].body
      BY <1>4, SafeWire
    <2>2. Holds(remote) \subseteq Holds(b) /\ Holds(b) \subseteq Holds(disk[d])
      BY <1>4, <2>1, SafeWire DEF Extension
    <2>3. QED
      BY <1>4, <2>1, <2>2, PublishStep
  <1>5. ASSUME NEW m \in inflight, DeliverLate(m), Accepts(m.ifMatch)
        PROVE  m.from \in Device /\ Abstract!Publish(m.from)
    <2>1. PICK d \in Device, b \in Blob : d = m.from /\ b = m.body
      BY DEF Inv, TypeInv, TypeOK, PutRequest
    <2>2. Holds(remote) \subseteq Holds(b) /\ Holds(b) \subseteq Holds(disk[d])
      BY <1>5, <2>1 DEF Accepts, SafeDeployment, Inv, TypeInv, TypeOK, SafeInv, SafeObject,
         Extension
    <2>3. QED
      BY <1>5, <2>1, <2>2, PublishStep DEF DeliverLate
  <1>6. ASSUME NEW d \in Device, StartSync(d) \/ Step(d) \/ Disturb(d),
               ~Reconcile(d), ~Replace(d)
        PROVE  \/ UNCHANGED <<nEdits, blobs, disk, remote>>
               \/ /\ pc[d] = "put" /\ Accepts(Wire(d)) /\ ApplyPut(run[d].body)
                  /\ UNCHANGED <<nEdits, blobs, disk>>
    <2>1. CASE StartSync(d) \/ Step(d)
      BY <1>6, <2>1 DEF StartSync, Step, Head, CompareInSync, ComparePush, CompareFast,
         CompareMerge, Backup, FetchNotModified, FetchFast, FetchMerge, FetchNotFound, Rehash,
         PutAccepted, PutRejected, PutNotFound, Verify, Commit, Abort
    <2>2. CASE Disturb(d)
      BY <2>2 DEF Disturb, ConfigureRemote, Crash, PutUnavailable, PutUnanswered, Fail
    <2>3. QED
      BY <1>6, <2>1, <2>2
  <1>7. ASSUME \/ \E m \in inflight : DeliverLate(m) /\ ~Accepts(m.ifMatch)
               \/ LoseObject
               \/ UNCHANGED vars
        PROVE  UNCHANGED <<nEdits, blobs, disk, remote>>
    BY <1>7 DEF DeliverLate, LoseObject, SafeDeployment, vars
  <1>8. ASSUME NEW d \in Device, Edit(d) \/ StartSync(d) \/ Step(d) \/ Disturb(d)
        PROVE  Abstract!Next \/ UNCHANGED Abstract!vars
    BY <1>8, <1>1, <1>2, <1>3, <1>4, <1>6, StutterStep DEF Abstract!Next
  <1>9. ASSUME NEW m \in inflight, DeliverLate(m)
        PROVE  Abstract!Next \/ UNCHANGED Abstract!vars
    BY <1>9, <1>5, <1>7, StutterStep DEF Abstract!Next
  <1>10. CASE LoseObject \/ UNCHANGED vars
    BY <1>7, <1>10, StutterStep
  <1>11. QED
    BY <1>8, <1>9, <1>10 DEF Next

\* The orchestrator implements SharedVault when the backend honours If-Match
\* and the key is never empty: no sync_now of any device, however interleaved,
\* retried, unanswered or interrupted, takes an edit out of a vault file or out
\* of the object.
THEOREM SyncImplementsSharedVault == SafeDeployment => (Spec => ImplementsSharedVault)
  <1> SUFFICES ASSUME SafeDeployment PROVE Spec => ImplementsSharedVault
    OBVIOUS
  <1>1. Init => Inv
    BY TypeInit, DataInit, SafeInit DEF Inv
  <1>2. Inv /\ [Next]_vars => Inv'
    BY TypeNext, DataNext, SafeNext DEF Inv
  <1>3. Init => Abstract!Init
    <2> SUFFICES ASSUME Init PROVE Abstract!Init
      OBVIOUS
    <2>1. \A b \in {0, 1} : Holds(b) = {}
      BY ConstantTypes DEF Init, Holds, None
    <2>2. QED
      BY <2>1, ConstantTypes DEF Init, Abstract!Init, None
  <1>4. Inv /\ Inv' /\ [Next]_vars => [Abstract!Next]_(Abstract!vars)
    BY AbstractStep DEF Inv
  <1>5. QED
    BY <1>1, <1>2, <1>3, <1>4, PTL DEF Spec, ImplementsSharedVault, Abstract!Spec
=============================================================================
