---------------------------- MODULE AtomicWrite ----------------------------
(***************************************************************************)
(* write_atomic and write_atomic_with of falach-core (atomic.rs): every    *)
(* vault save, registry save, .kdbx.bak and TUI configuration write goes   *)
(* through them.  Several processes write files of one directory, and any  *)
(* of them may be killed; the power may fail.                              *)
(*                                                                         *)
(* DATA.  A temp file is named by its inode, a number; 0 is the inode of   *)
(* every target's first content.  Of an inode's data only the state        *)
(* matters: "partial" (also what an unsynced file may be after a power     *)
(* failure), "full" (all bytes written) or "synced" (and fsynced).         *)
(*                                                                         *)
(* The file system (external) is POSIX: rename replaces a name atomically; *)
(* a change of the directory is durable once the directory is fsynced and  *)
(* until then a power failure may or may not undo it; flock belongs to an  *)
(* open file and ends with it.                                             *)
(***************************************************************************)
EXTENDS Naturals, FiniteSets

CONSTANTS
    Proc,       \* processes
    Target,     \* the files they write, all of one directory
    None,       \* no process, no target
    MaxInodes,  \* bound: temp files ever created, then the disk is full
    MaxFaults   \* bound: kills, failing system calls, power failures

ASSUME AtomicWriteAssumption ==
    /\ None \notin Proc \cup Target
    /\ MaxInodes \in Nat /\ MaxFaults \in Nat

Inode == 0..MaxInodes

DataState == {"partial", "full", "synced"}

Steps == {"idle", "clean", "trylock", "unlink", "lock", "write", "fsync",
          "rename", "dirsync"}

\* Steps at which a write has its own temp file and has not renamed it, and
\* those at which it has also locked it.
OwnsTemp == {"lock", "write", "fsync", "rename"}
HasLock == {"write", "fsync", "rename"}

\* The local variables of one write_atomic.
Call == [goal : Target \cup {None},  \* target
         ino : Inode,                \* its temp file
         cur : Inode,                \* the temp file the cleanup looks at
         todo : SUBSET Inode,        \* directory entries still to look at
         listed : SUBSET Inode,      \* history: all the entries it was given
         since : 0..MaxFaults]       \* history: faults when the write began

NoCall == [goal |-> None, ino |-> 0, cur |-> 0, todo |-> {}, listed |-> {},
           since |-> 0]

VARIABLES
    temps,       \* .falach-tmp-* names in the directory
    maybeTemps,  \* those a power failure may leave
    shown,       \* shown[t]: inode of target t
    maybe,       \* maybe[t]: inodes a power failure may leave as t
    data,        \* data[i]: state of the inode's data
    flock,       \* flock[i]: process that holds the lock, or None
    nInodes,     \* temp files created so far
    gen,         \* gen[i]: the rename of inode i was the gen[i]-th
    nRenames,    \* renames so far
    acked,       \* history: acked[t]: latest rename whose write returned Ok
    pc,          \* pc[p]: next system call of the write
    call,        \* call[p]: its local variables
    faults       \* faults so far

dir   == <<temps, maybeTemps, shown, maybe>>
meta  == <<nInodes, gen, nRenames, acked>>
vars == <<dir, data, flock, meta, pc, call, faults>>

\* The state of the directory and of every write_atomic call is well typed.
TypeOK ==
    /\ temps \subseteq Inode /\ maybeTemps \subseteq Inode
    /\ shown \in [Target -> Inode] /\ maybe \in [Target -> SUBSET Inode]
    /\ data \in [Inode -> DataState]
    /\ flock \in [Inode -> Proc \cup {None}]
    /\ nInodes \in Inode /\ nRenames \in Nat
    /\ gen \in [Inode -> Nat] /\ acked \in [Target -> Nat]
    /\ pc \in [Proc -> Steps] /\ call \in [Proc -> Call]
    /\ faults \in 0..MaxFaults

Init ==
    /\ temps = {} /\ maybeTemps = {}
    /\ shown = [t \in Target |-> 0] /\ maybe = [t \in Target |-> {0}]
    /\ data = [i \in Inode |-> IF i = 0 THEN "synced" ELSE "partial"]
    /\ flock = [i \in Inode |-> None]
    /\ nInodes = 0 /\ nRenames = 0
    /\ gen = [i \in Inode |-> 0]
    /\ acked = [t \in Target |-> 0]
    /\ pc = [p \in Proc |-> "idle"]
    /\ call = [p \in Proc |-> NoCall]
    /\ faults = 0

-----------------------------------------------------------------------------
(* Steps shared by the actions below.                                      *)

\* Control moves to the next system call of p's write, with locals c.
Goto(p, step, c) ==
    /\ pc' = [pc EXCEPT ![p] = step]
    /\ call' = [call EXCEPT ![p] = c]

Fault ==
    /\ faults < MaxFaults
    /\ faults' = faults + 1

\* The files of p are closed: by a return, by Drop or by the kernel.
CloseFiles(p) ==
    flock' = [i \in Inode |-> IF flock[i] = p THEN None ELSE flock[i]]

\* A temp name leaves the directory.
Unlink(i) ==
    /\ temps' = temps \ {i}
    /\ UNCHANGED <<maybeTemps, shown, maybe>>

\* write_atomic returns Err: before the rename NamedTempFile's Drop unlinks
\* the temp file (a name that is gone already is ignored).
ReturnErr(p) ==
    /\ Goto(p, "idle", NoCall)
    /\ CloseFiles(p)
    /\ IF pc[p] \in OwnsTemp THEN Unlink(call[p].ino) ELSE UNCHANGED dir
    /\ UNCHANGED <<data, meta>>

-----------------------------------------------------------------------------
(* write_atomic, one system call per action.                               *)

\* cleanup_stale_temp_files lists the directory.
ReadDir(p, t) ==
    /\ pc[p] = "idle"
    /\ Goto(p, "clean", [NoCall EXCEPT !.goal = t, !.todo = temps, !.listed = temps,
                                       !.since = faults])
    /\ UNCHANGED <<dir, data, flock, meta, faults>>

\* It opens an entry; one that is gone is skipped.
CleanOpen(p, i) ==
    /\ pc[p] = "clean" /\ i \in call[p].todo
    /\ IF i \in temps
       THEN Goto(p, "trylock", [call[p] EXCEPT !.todo = @ \ {i}, !.cur = i])
       ELSE Goto(p, "clean", [call[p] EXCEPT !.todo = @ \ {i}])
    /\ UNCHANGED <<dir, data, flock, meta, faults>>

\* try_lock on the entry: a temp file somebody has locked is skipped.
CleanTryLock(p) ==
    /\ pc[p] = "trylock"
    /\ IF flock[call[p].cur] = None
       THEN flock' = [flock EXCEPT ![call[p].cur] = p] /\ Goto(p, "unlink", call[p])
       ELSE UNCHANGED flock /\ Goto(p, "clean", call[p])
    /\ UNCHANGED <<dir, data, meta, faults>>

\* remove_file, and the lock goes with the file handle; a name that has gone
\* in between is an error here.
CleanUnlink(p) ==
    /\ pc[p] = "unlink"
    /\ CloseFiles(p)
    /\ IF call[p].cur \in temps
       THEN Unlink(call[p].cur) /\ Goto(p, "clean", call[p])
       ELSE UNCHANGED dir /\ Goto(p, "idle", NoCall)
    /\ UNCHANGED <<data, meta, faults>>

\* new_temp_file.
CreateTemp(p) ==
    /\ pc[p] = "clean" /\ call[p].todo = {}
    /\ nInodes < MaxInodes
    /\ nInodes' = nInodes + 1
    /\ temps' = temps \cup {nInodes + 1}
    /\ maybeTemps' = maybeTemps \cup {nInodes + 1}
    /\ Goto(p, "lock", [NoCall EXCEPT !.goal = call[p].goal, !.ino = nInodes + 1])
    /\ UNCHANGED <<shown, maybe, data, flock, gen, nRenames, acked, faults>>

\* new_temp_file fails: the disk is full.
CreateTempFails(p) ==
    /\ pc[p] = "clean" /\ call[p].todo = {}
    /\ nInodes = MaxInodes
    /\ ReturnErr(p)
    /\ UNCHANGED faults

\* lock_temp_file.
LockTemp(p) ==
    /\ pc[p] = "lock" /\ flock[call[p].ino] = None
    /\ flock' = [flock EXCEPT ![call[p].ino] = p]
    /\ Goto(p, "write", call[p])
    /\ UNCHANGED <<dir, data, meta, faults>>

\* "newly-created temp file unexpectedly locked": another process's cleanup
\* has it.
LockTempWouldBlock(p) ==
    /\ pc[p] = "lock" /\ flock[call[p].ino] # None
    /\ ReturnErr(p)
    /\ UNCHANGED faults

\* Faulty variant: the temp file is renamed without an fsync.
BugWriteSkipsFsync(p) ==
    /\ pc[p] = "write"
    /\ data' = [data EXCEPT ![call[p].ino] = "full"]
    /\ Goto(p, "rename", call[p])
    /\ UNCHANGED <<dir, flock, meta, faults>>

\* write_all, or the closure of write_atomic_with.
WriteTemp(p) ==
    /\ pc[p] = "write"
    /\ data' = [data EXCEPT ![call[p].ino] = "full"]
    /\ Goto(p, "fsync", call[p])
    /\ UNCHANGED <<dir, flock, meta, faults>>

\* sync_all on the temp file.
FsyncTemp(p) ==
    /\ pc[p] = "fsync"
    /\ data' = [data EXCEPT ![call[p].ino] = "synced"]
    /\ Goto(p, "rename", call[p])
    /\ UNCHANGED <<dir, flock, meta, faults>>

\* persist: rename over the target.
RenameTemp(p) ==
    /\ pc[p] = "rename" /\ call[p].ino \in temps
    /\ temps' = temps \ {call[p].ino}
    /\ shown' = [shown EXCEPT ![call[p].goal] = call[p].ino]
    /\ maybe' = [maybe EXCEPT ![call[p].goal] = @ \cup {call[p].ino}]
    /\ nRenames' = nRenames + 1
    /\ gen' = [gen EXCEPT ![call[p].ino] = nRenames + 1]
    /\ Goto(p, "dirsync", call[p])
    /\ UNCHANGED <<maybeTemps, data, flock, nInodes, acked, faults>>

\* The temp file has been unlinked by another process's cleanup.
RenameNotFound(p) ==
    /\ pc[p] = "rename" /\ call[p].ino \notin temps
    /\ ReturnErr(p)
    /\ UNCHANGED faults

\* The write of p returns Ok: its rename is acknowledged.
ReturnOk(p) ==
    /\ LET g == gen[call[p].ino]
           t == call[p].goal
       IN  acked' = [acked EXCEPT ![t] = IF @ < g THEN g ELSE @]
    /\ Goto(p, "idle", NoCall)
    /\ CloseFiles(p)
    /\ UNCHANGED <<temps, shown, data, nInodes, gen, nRenames, faults>>

\* Faulty variant: Ok without an fsync of the directory.
BugReturnWithoutDirSync(p) ==
    /\ pc[p] = "dirsync"
    /\ ReturnOk(p)
    /\ UNCHANGED <<maybe, maybeTemps>>

\* sync_parent_dir, and Ok.
SyncParentDir(p) ==
    /\ pc[p] = "dirsync"
    /\ maybe' = [t \in Target |-> {shown[t]}]
    /\ maybeTemps' = temps
    /\ ReturnOk(p)

-----------------------------------------------------------------------------
(* Faults.                                                                 *)

\* A system call fails.  After the rename the target has its new content, and
\* the caller is told of an error all the same.
SystemCallFails(p) ==
    /\ pc[p] # "idle"
    /\ Fault
    /\ ReturnErr(p)

\* The process is killed: no destructor runs, a temp file stays behind.
Kill(p) ==
    /\ pc[p] # "idle"
    /\ Fault
    /\ Goto(p, "idle", NoCall)
    /\ CloseFiles(p)
    /\ UNCHANGED <<dir, data, meta>>

\* The power fails: what was not synced may be lost.
PowerFailure ==
    /\ Fault
    /\ shown' \in {s \in [Target -> Inode] : \A t \in Target : s[t] \in maybe[t]}
    /\ maybe' = [t \in Target |-> {shown'[t]}]
    /\ temps' \in SUBSET (maybeTemps \ {shown'[t] : t \in Target})
    /\ maybeTemps' = temps'
    /\ data' = [i \in Inode |-> IF data[i] = "full" THEN "partial" ELSE data[i]]
    /\ pc' = [p \in Proc |-> "idle"]
    /\ call' = [p \in Proc |-> NoCall]
    /\ flock' = [i \in Inode |-> None]
    /\ UNCHANGED meta

-----------------------------------------------------------------------------
Write(p) ==
    \/ \E t \in Target : ReadDir(p, t)
    \/ \E i \in Inode : CleanOpen(p, i)
    \/ CleanTryLock(p) \/ CleanUnlink(p)
    \/ CreateTemp(p) \/ CreateTempFails(p) \/ LockTemp(p) \/ LockTempWouldBlock(p)
    \/ WriteTemp(p) \/ FsyncTemp(p)
    \/ RenameTemp(p) \/ RenameNotFound(p) \/ SyncParentDir(p)

Next ==
    \/ \E p \in Proc : Write(p) \/ SystemCallFails(p) \/ Kill(p)
    \/ PowerFailure

Spec == Init /\ [][Next]_vars

\* System calls return.
FairSpec == Spec /\ \A p \in Proc : WF_vars(Write(p))

-----------------------------------------------------------------------------
(* Properties.                                                             *)

\* A target is always one complete content, whatever is killed or loses
\* power at whatever step of whichever write.
NeverTorn == \A t \in Target : data[shown[t]] # "partial"

\* A content whose write returned Ok is never rolled back to an older one,
\* not by a power failure either.
AckedSurvives == \A t \in Target : gen[shown[t]] >= acked[t]

\* Once a write has locked its temp file, no other process's cleanup takes
\* the name away: a save that has begun to write its bytes gets to its rename
\* unless a fault of its own stops it.
LockedTempIsSafe ==
    [][\A p \in Proc :
          pc[p] \in HasLock /\ pc'[p] \in HasLock /\ call[p].ino \in temps
          => call[p].ino \in temps']_vars

\* The cleanup does its work: without faults in between, of the temp files it
\* found only those of running writes, or those another cleanup is about to
\* remove, are left when it is done.
StaleTempsRemoved ==
    \A p \in Proc :
        pc[p] = "clean" /\ call[p].todo = {} /\ call[p].since = faults
        => \A i \in call[p].listed \cap temps :
              \/ flock[i] # None
              \/ \E q \in Proc : pc[q] \in OwnsTemp /\ call[q].ino = i
=============================================================================
