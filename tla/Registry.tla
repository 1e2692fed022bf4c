----------------------------- MODULE Registry -----------------------------
(***************************************************************************)
(* vaults.toml (falach-core registry.rs) shared by several processes: CLI  *)
(* commands (vault create, set-lock, set-sync), each of which loads it and *)
(* saves it once, and TUI sessions, which load it at launch and keep that  *)
(* snapshot.  With it Vault::create (vault.rs), whose file must be there   *)
(* before its registry entry is.                                           *)
(*                                                                         *)
(* DATA.  A registry body is a sequence of entries, so that two bodies are *)
(* equal when their bytes are: set-lock moves an entry to the end.  Of an  *)
(* entry's extra table the auto-lock time and the S3 target are kept.  A   *)
(* vault file is "none", "empty" (reserved) or "vault" (a whole KDBX).     *)
(* write_atomic is one step here; AtomicWrite has its parts.               *)
(***************************************************************************)
EXTENDS Naturals, Sequences, SequencesExt

CONSTANTS
    Cli, Tui,      \* processes: CLI commands and TUI sessions
    Name, Path,    \* vault names and .kdbx paths
    Bucket,        \* canonicalised S3 targets
    Timeout,       \* auto-lock times
    Absent,          \* no process, no target, no value
    NoFile,        \* a missing vaults.toml
    MaxCommands,   \* bound: commands started
    MaxRegFaults      \* bound: kills and failing calls

RegProc == Cli \cup Tui

\* RegisteredVault.
RegisteredVault == [name : Name, path : Path, lock : Timeout \cup {Absent},
          sync : Bucket \cup {Absent}]

ASSUME RegistryAssumption ==
    /\ Cli \cap Tui = {}
    /\ Absent \notin Cli \cup Tui \cup Name \cup Path \cup Bucket \cup Timeout
    /\ NoFile \notin Seq(RegisteredVault)
    /\ MaxCommands \in Nat /\ MaxRegFaults \in Nat

\* VaultRegistry: the entries in memory and the bytes they were read from.
Snapshot == [vaults : Seq(RegisteredVault), base : Seq(RegisteredVault) \cup {NoFile}]

\* A command: what it does to which vault.
Command == [op : {"create"}, name : Name, val : Path]
           \cup [op : {"set-lock", "update"}, name : Name, val : Timeout]
           \cup [op : {"set-sync"}, name : Name, val : Bucket]

NoCommand == [op |-> "none"]

RegSteps == {"idle", "reserve", "key", "lock", "savefile", "drop", "register", "edit",
          "savelock", "compare", "write", "updatelock", "updateload", "updatewrite"}

VARIABLES
    disk,      \* vaults.toml
    regLock,   \* holder of vaults.toml.lock
    file,      \* file[f]: the vault file at path f
    fileLock,  \* fileLock[f]: holder of its sidecar lock
    snap,      \* snap[p]: the VaultRegistry of p
    latest,    \* latest[p]: the entries update_registered_extra is to write
    regPc, cmd,   \* next step of p's command, and the command
    touched,   \* history: names p has edited in its snapshot
    created,   \* history: created[n]: vault create commands for n that returned Ok
    commands, regFaults

regVars == <<disk, regLock, file, fileLock, snap, latest, regPc, cmd, touched,
          created, commands, regFaults>>
files == <<file, fileLock>>
bounds == <<commands, regFaults>>

\* The state of files, snapshots and commands is well typed.
RegTypeOK ==
    /\ disk \in Seq(RegisteredVault) \cup {NoFile}
    /\ regLock \in RegProc \cup {Absent}
    /\ file \in [Path -> {"none", "empty", "vault"}]
    /\ fileLock \in [Path -> RegProc \cup {Absent}]
    /\ snap \in [RegProc -> Snapshot]
    /\ latest \in [RegProc -> Seq(RegisteredVault)]
    /\ regPc \in [RegProc -> RegSteps]
    /\ cmd \in [RegProc -> Command \cup {NoCommand}]
    /\ touched \in [RegProc -> SUBSET Name]
    /\ created \in [Name -> Nat]
    /\ commands \in 0..MaxCommands /\ regFaults \in 0..MaxRegFaults

\* VaultRegistry::load and with_paths: a missing file is an empty registry.
Load(d) == [vaults |-> IF d = NoFile THEN <<>> ELSE d, base |-> d]

RegInit ==
    /\ disk = NoFile /\ regLock = Absent
    /\ file = [f \in Path |-> "none"] /\ fileLock = [f \in Path |-> Absent]
    /\ snap = [p \in RegProc |-> Load(NoFile)] /\ latest = [p \in RegProc |-> <<>>]
    /\ regPc = [p \in RegProc |-> "idle"] /\ cmd = [p \in RegProc |-> NoCommand]
    /\ touched = [p \in RegProc |-> {}] /\ created = [n \in Name |-> 0]
    /\ commands = 0 /\ regFaults = 0

-----------------------------------------------------------------------------
(* Operations on a registry in memory.                                     *)

\* The entries of a body that have this name (VaultRegistry::get).
Get(v, n) == {e \in ToSet(v) : e.name = n}

\* Where a body lists a name first (Iterator::position); {} where it does not.
PositionOf(v, n) ==
    {i \in 1..Len(v) : v[i].name = n /\ \A j \in 1..(i - 1) : v[j].name # n}

\* deregister of entry i and register of the updated one: it goes to the end.
Replace(v, i, e) == Append(RemoveAt(v, i), e)

\* SyncConfig::find_duplicate_target.
DuplicateTarget(v, n, b) == \E e \in ToSet(v) : e.name # n /\ e.sync = b

-----------------------------------------------------------------------------
(* RegSteps shared by the actions below.                                      *)

RegGoto(p, step) == regPc' = [regPc EXCEPT ![p] = step]

\* The command of p returns; every lock it holds goes with its guard.  A CLI
\* process ends, a TUI session keeps its registry.
Return(p) ==
    /\ regPc' = [regPc EXCEPT ![p] = "idle"]
    /\ cmd' = [cmd EXCEPT ![p] = NoCommand]
    /\ regLock' = IF regLock = p THEN Absent ELSE regLock
    /\ fileLock' = [f \in Path |-> IF fileLock[f] = p THEN Absent ELSE fileLock[f]]

RegFault ==
    /\ regFaults < MaxRegFaults
    /\ regFaults' = regFaults + 1

\* p edits entry n of its registry in memory.
EditSnapshot(p, n, v) ==
    /\ snap' = [snap EXCEPT ![p].vaults = v]
    /\ touched' = [touched EXCEPT ![p] = @ \cup {n}]

-----------------------------------------------------------------------------
(* Commands.                                                               *)

\* A CLI command loads the registry.  vault create goes on with the file, the
\* others fail at once on a name that is not registered.
StartCli(p, c) ==
    /\ p \in Cli /\ regPc[p] = "idle" /\ commands < MaxCommands
    /\ c.op # "update"
    /\ LET s == Load(disk) IN
       /\ snap' = [snap EXCEPT ![p] = s]
       /\ IF c.op = "create" THEN Get(s.vaults, c.name) = {}
                             ELSE Get(s.vaults, c.name) # {}
    /\ touched' = [touched EXCEPT ![p] = {}]
    /\ cmd' = [cmd EXCEPT ![p] = c]
    /\ RegGoto(p, IF c.op = "create" THEN "reserve" ELSE "edit")
    /\ commands' = commands + 1
    /\ UNCHANGED <<disk, regLock, files, latest, created, regFaults>>

\* A TUI session is launched.
Launch(p) ==
    /\ p \in Tui /\ regPc[p] = "idle" /\ commands < MaxCommands
    /\ snap' = [snap EXCEPT ![p] = Load(disk)]
    /\ touched' = [touched EXCEPT ![p] = {}]
    /\ commands' = commands + 1
    /\ UNCHANGED <<disk, regLock, files, regPc, cmd, latest, created, regFaults>>

\* A command of a TUI session, on a vault of its snapshot: configure sync, or
\* the auto-lock setting, which goes through update_registered_extra.
StartTui(p, c) ==
    /\ p \in Tui /\ regPc[p] = "idle" /\ commands < MaxCommands
    /\ c.op \in {"set-sync", "update"} /\ Get(snap[p].vaults, c.name) # {}
    /\ cmd' = [cmd EXCEPT ![p] = c]
    /\ RegGoto(p, IF c.op = "update" THEN "updatelock" ELSE "edit")
    /\ commands' = commands + 1
    /\ UNCHANGED <<disk, regLock, files, snap, latest, touched, created, regFaults>>

\* Vault::create reserves the path; one that exists is an error.
Reserve(p) ==
    /\ regPc[p] = "reserve"
    /\ IF file[cmd[p].val] = "none"
       THEN /\ file' = [file EXCEPT ![cmd[p].val] = "empty"]
            /\ RegGoto(p, "key") /\ UNCHANGED <<fileLock, regLock, cmd>>
       ELSE Return(p) /\ UNCHANGED file
    /\ UNCHANGED <<disk, snap, latest, touched, created, bounds>>

\* The composite key is built.
BuildKey(p) ==
    /\ regPc[p] = "key"
    /\ RegGoto(p, "lock")
    /\ UNCHANGED <<disk, regLock, files, snap, cmd, latest, touched, created, bounds>>

\* The keyfile cannot be read: the reserved file stays.
KeyfileFails(p) ==
    /\ regPc[p] = "key"
    /\ RegFault
    /\ Return(p)
    /\ UNCHANGED <<disk, file, snap, latest, touched, created, commands>>

\* The vault's lock; when somebody has it the reserved file is removed.
LockFile(p) ==
    /\ regPc[p] = "lock"
    /\ IF fileLock[cmd[p].val] = Absent
       THEN /\ fileLock' = [fileLock EXCEPT ![cmd[p].val] = p]
            /\ RegGoto(p, "savefile") /\ UNCHANGED <<file, regLock, cmd>>
       ELSE /\ file' = [file EXCEPT ![cmd[p].val] = "none"]
            /\ Return(p)
    /\ UNCHANGED <<disk, snap, latest, touched, created, bounds>>

\* save_database.
SaveFile(p) ==
    /\ regPc[p] = "savefile"
    /\ file' = [file EXCEPT ![cmd[p].val] = "vault"]
    /\ RegGoto(p, "register")
    /\ UNCHANGED <<disk, regLock, fileLock, snap, cmd, latest, touched, created, bounds>>

\* save_database fails: the file is removed, and only then the lock dropped.
SaveFileFails(p) ==
    /\ regPc[p] = "savefile"
    /\ RegFault
    /\ file' = [file EXCEPT ![cmd[p].val] = "none"]
    /\ RegGoto(p, "drop")
    /\ UNCHANGED <<disk, regLock, fileLock, snap, cmd, latest, touched, created, commands>>

Drop(p) ==
    /\ regPc[p] = "drop"
    /\ Return(p)
    /\ UNCHANGED <<disk, file, snap, latest, touched, created, bounds>>

\* register.  The Vault handle (_vault) lives until run_create returns.
Register(p) ==
    /\ regPc[p] = "register"
    /\ EditSnapshot(p, cmd[p].name,
          Append(snap[p].vaults, [name |-> cmd[p].name, path |-> cmd[p].val,
                                  lock |-> Absent, sync |-> Absent]))
    /\ RegGoto(p, "savelock")
    /\ UNCHANGED <<disk, regLock, files, cmd, latest, created, bounds>>

\* set-lock, and set-sync's configure_remote up to its save: a target another
\* entry of the snapshot has is an error.
EditRow(p) ==
    /\ regPc[p] = "edit"
    /\ LET v == snap[p].vaults IN
       \E i \in PositionOf(v, cmd[p].name) :
          IF cmd[p].op = "set-sync" /\ DuplicateTarget(v, cmd[p].name, cmd[p].val)
          THEN Return(p) /\ UNCHANGED <<snap, touched>>
          ELSE /\ EditSnapshot(p, cmd[p].name, Replace(v, i,
                     IF cmd[p].op = "set-lock" THEN [v[i] EXCEPT !.lock = cmd[p].val]
                                               ELSE [v[i] EXCEPT !.sync = cmd[p].val]))
               /\ RegGoto(p, "savelock") /\ UNCHANGED <<regLock, fileLock, cmd>>
    /\ UNCHANGED <<disk, file, latest, created, bounds>>

-----------------------------------------------------------------------------
(* VaultRegistry::save.                                                    *)

\* acquire_exclusive on vaults.toml, or Contended.
SaveLock(p) ==
    /\ regPc[p] = "savelock"
    /\ IF regLock = Absent
       THEN regLock' = p /\ RegGoto(p, "compare") /\ UNCHANGED <<fileLock, cmd>>
       ELSE Return(p)
    /\ UNCHANGED <<disk, file, snap, latest, touched, created, bounds>>

\* Faulty variant: a file that has changed in between is overwritten.
BugCompareSkipped(p) ==
    /\ regPc[p] = "compare"
    /\ RegGoto(p, "write")
    /\ UNCHANGED <<regLock, fileLock, cmd, disk, file, snap, latest, touched, created, bounds>>

\* The file must still have the baseline's bytes, or RegistryChanged.
Compare(p) ==
    /\ regPc[p] = "compare"
    /\ IF disk = snap[p].base
       THEN RegGoto(p, "write") /\ UNCHANGED <<regLock, fileLock, cmd>>
       ELSE Return(p)
    /\ UNCHANGED <<disk, file, snap, latest, touched, created, bounds>>

\* write_atomic succeeds: the new bytes are the baseline, and the command
\* returns Ok.
WriteOk(p) ==
    /\ regPc[p] = "write"
    /\ disk' = snap[p].vaults
    /\ snap' = [snap EXCEPT ![p].base = snap[p].vaults]
    /\ touched' = [touched EXCEPT ![p] = {}]
    /\ created' = IF cmd[p].op = "create" THEN [created EXCEPT ![cmd[p].name] = @ + 1]
                                          ELSE created
    /\ Return(p)
    /\ UNCHANGED <<file, latest, bounds>>

\* It fails before the rename, or after it: then the file is replaced and the
\* baseline is not.
WriteFails(p) ==
    /\ regPc[p] = "write"
    /\ RegFault
    /\ disk' \in {disk, snap[p].vaults}
    /\ Return(p)
    /\ UNCHANGED <<file, snap, latest, touched, created, commands>>

-----------------------------------------------------------------------------
(* update_registered_extra.                                                *)

UpdateLock(p) ==
    /\ regPc[p] = "updatelock"
    /\ IF regLock = Absent
       THEN regLock' = p /\ RegGoto(p, "updateload") /\ UNCHANGED <<fileLock, cmd>>
       ELSE Return(p)
    /\ UNCHANGED <<disk, file, snap, latest, touched, created, bounds>>

\* Faulty variant: the edit is made to the session's own, old registry.
BugUpdateStale(p) ==
    /\ regPc[p] = "updateload"
    /\ \E i \in PositionOf(snap[p].vaults, cmd[p].name) :
          latest' = [latest EXCEPT ![p] = [snap[p].vaults EXCEPT ![i].lock = cmd[p].val]]
    /\ RegGoto(p, "updatewrite")
    /\ UNCHANGED <<disk, regLock, files, snap, cmd, touched, created, bounds>>

\* Under the lock the registry is loaded again and edited; a name that is gone
\* is an error.
UpdateLoad(p) ==
    /\ regPc[p] = "updateload"
    /\ LET v == Load(disk).vaults IN
       \/ /\ Get(v, cmd[p].name) = {}
          /\ Return(p) /\ UNCHANGED latest
       \/ \E i \in PositionOf(v, cmd[p].name) :
             /\ latest' = [latest EXCEPT ![p] = [v EXCEPT ![i].lock = cmd[p].val]]
             /\ RegGoto(p, "updatewrite") /\ UNCHANGED <<regLock, fileLock, cmd>>
    /\ UNCHANGED <<disk, file, snap, touched, created, bounds>>

\* It is written, and replaces the session's registry.
UpdateOk(p) ==
    /\ regPc[p] = "updatewrite"
    /\ disk' = latest[p]
    /\ snap' = [snap EXCEPT ![p] = Load(latest[p])]
    /\ touched' = [touched EXCEPT ![p] = {}]
    /\ Return(p)
    /\ UNCHANGED <<file, latest, created, bounds>>

\* The write fails, before or after the rename: the session keeps its old
\* registry.
UpdateFails(p) ==
    /\ regPc[p] = "updatewrite"
    /\ RegFault
    /\ disk' \in {disk, latest[p]}
    /\ Return(p)
    /\ UNCHANGED <<file, snap, latest, touched, created, commands>>

\* The process is killed; what it had in memory is gone.
KillCommand(p) ==
    /\ regPc[p] # "idle"
    /\ RegFault
    /\ Return(p)
    /\ snap' = [snap EXCEPT ![p] = Load(NoFile)]
    /\ touched' = [touched EXCEPT ![p] = {}]
    /\ UNCHANGED <<disk, file, latest, created, commands>>

-----------------------------------------------------------------------------
Create(p) ==
    \/ Reserve(p) \/ BuildKey(p) \/ KeyfileFails(p) \/ LockFile(p)
    \/ SaveFile(p) \/ SaveFileFails(p) \/ Drop(p) \/ Register(p)

Save(p) == SaveLock(p) \/ Compare(p) \/ WriteOk(p) \/ WriteFails(p)

RegNext ==
    \E p \in RegProc :
        \/ \E c \in Command : StartCli(p, c) \/ StartTui(p, c)
        \/ Launch(p)
        \/ Create(p) \/ EditRow(p) \/ Save(p)
        \/ UpdateLock(p) \/ UpdateLoad(p) \/ UpdateOk(p) \/ UpdateFails(p)
        \/ KillCommand(p)

RegSpec == RegInit /\ [][RegNext]_regVars

-----------------------------------------------------------------------------
(* Properties.                                                             *)

\* The names a write of p may change: those it has edited itself.
Own(p) == IF regPc[p] = "updatewrite" THEN {cmd[p].name} ELSE touched[p]

\* No completed edit of another process is lost: a write changes the entries
\* the writer has edited and leaves every other one as the file has it.
NoForeignEditLost ==
    [][\A n \in Name :
          Get(Load(disk).vaults, n) # Get(Load(disk').vaults, n)
          => \E p \in RegProc : regPc[p] \in {"write", "updatewrite"} /\ n \in Own(p)]_regVars

\* Of concurrent vault create commands for one name at most one returns Ok, and
\* vaults.toml lists no name twice.
CreateIsExclusive ==
    /\ \A n \in Name : created[n] <= 1
    /\ LET v == Load(disk).vaults IN
       \A i, j \in DOMAIN v : v[i].name = v[j].name => i = j

\* A vault that is registered has a whole file, whichever step of a vault
\* create failed or was killed, and no two entries have one file.
RegisteredIsWhole ==
    LET v == Load(disk).vaults IN
    /\ \A e \in ToSet(v) : file[e.path] = "vault"
    /\ \A i, j \in DOMAIN v : v[i].path = v[j].path => i = j

\* No two vaults sync with one S3 object: configure_remote checks its snapshot,
\* and a stale snapshot is not saved.
NoSharedTarget ==
    LET v == Load(disk).vaults IN
    \A i, j \in DOMAIN v : v[i].sync # Absent /\ v[i].sync = v[j].sync => i = j

\* Whichever commands of several processes interleave, fail or are killed,
\* the registry lists each vault once, with a file and a target of its own.
RegistryIsSound == RegTypeOK /\ CreateIsExclusive /\ RegisteredIsWhole /\ NoSharedTarget
=============================================================================
