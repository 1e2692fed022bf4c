---------------------------- MODULE LockSettings ----------------------------
(***************************************************************************)
(* The auto-lock time of each vault: the [vault.lock] table of vaults.toml *)
(* (falach-security vault_lock.rs), vault set-lock (falach-cli vault.rs),  *)
(* and the TUI, which arms its controller with it when a vault is unlocked *)
(* and changes it on the settings screen (falach-tui app.rs).              *)
(*                                                                         *)
(* DATA.  The value under "lock" is absent, something other than a table,  *)
(* or a table with the key idle_timeout_seconds, or without it, and        *)
(* perhaps a key of a later version.  Seconds are small numbers; MaxInt    *)
(* stands for i64::MAX, and a number above it is clamped.                  *)
(***************************************************************************)
EXTENDS Integers, Sequences

CONSTANTS
    LockedVault,     \* names of registered vaults
    DefaultTimeout,  \* AutoLockConfig::default
    Cycle,           \* AUTO_LOCK_CYCLE_SECS, in order
    MaxInt,
    MaxChanges       \* bound: changes of settings

NoTable  == [kind |-> "absent"]
NotTable == [kind |-> "other"]
Absent == -2      \* no key, no value
BadValue == -3    \* a value that is no integer
LockTable(t, more) == [kind |-> "table", timeout |-> t, more |-> more]

ASSUME LockSettingsAssumption ==
    /\ DefaultTimeout \in Nat \ {0} /\ MaxInt \in Nat /\ MaxChanges \in Nat
    /\ Cycle \in Seq(Nat \ {0}) /\ Cycle # <<>>
    /\ Absent \notin LockedVault

VARIABLES
    lockDisk,   \* lockDisk[v]: the value under "lock" in vaults.toml
    lockSnap,   \* the TUI's registry in memory
    opened,     \* the vault the TUI has unlocked, or Absent
    armed,      \* the timeout of the live controller
    changes

settingVars == <<lockDisk, lockSnap, opened, armed, changes>>

\* idle_timeout_seconds_from_extra: anything odd reads as absent.
LenientTimeout(x) ==
    IF x.kind = "table" /\ x.timeout >= 0 THEN x.timeout ELSE Absent

\* Faulty variant: the table goes with its key.
BugApplyTimeout(x, t) ==
    IF t = Absent THEN NoTable
    ELSE LockTable(IF t > MaxInt THEN MaxInt ELSE t, x.kind = "table" /\ x.more)

\* apply_idle_timeout; t = Absent removes the key.  An empty table is dropped.
ApplyTimeout(x, t) ==
    LET more == x.kind = "table" /\ x.more
        new  == IF t = Absent THEN Absent ELSE IF t > MaxInt THEN MaxInt ELSE t
    IN IF new = Absent /\ ~more THEN NoTable ELSE LockTable(new, more)

\* current_auto_lock_seconds, as the settings screen shows it.
ShownTimeout(x) ==
    IF LenientTimeout(x) = Absent THEN DefaultTimeout ELSE LenientTimeout(x)

\* vault_auto_lock_override: AutoLockConfig::validate refuses zero.
Override(x) == IF LenientTimeout(x) = 0 THEN Absent ELSE LenientTimeout(x)

\* arm_auto_lock_for_current_vault: without an override the controller that
\* is there is armed again.
Armed(x) == IF Override(x) = Absent THEN armed ELSE Override(x)

SettingsInit ==
    /\ lockDisk = [v \in LockedVault |-> NoTable] /\ lockSnap = lockDisk
    /\ opened = Absent /\ armed = DefaultTimeout /\ changes = 0

Change == changes < MaxChanges /\ changes' = changes + 1

\* vault set-lock --timeout t (not zero) or --clear.
SetLock(v, t) ==
    /\ Change /\ t # 0
    /\ lockDisk' = [lockDisk EXCEPT ![v] = ApplyTimeout(@, t)]
    /\ UNCHANGED <<lockSnap, opened, armed>>

\* Somebody edits vaults.toml.
HandEdit(v, x) ==
    /\ Change
    /\ lockDisk' = [lockDisk EXCEPT ![v] = x]
    /\ UNCHANGED <<lockSnap, opened, armed>>

\* The TUI starts: it loads the registry and makes its controller.
StartTui ==
    /\ opened = Absent
    /\ lockSnap' = lockDisk /\ armed' = DefaultTimeout
    /\ UNCHANGED <<lockDisk, opened, changes>>

UnlockVault(v) ==
    /\ opened = Absent
    /\ opened' = v /\ armed' = Armed(lockSnap[v])
    /\ UNCHANGED <<lockDisk, lockSnap, changes>>

LockVault ==
    /\ opened # Absent /\ opened' = Absent
    /\ UNCHANGED <<lockDisk, lockSnap, armed, changes>>

\* The value after the one shown, or the first.
NextInCycle(t) ==
    LET here == {i \in DOMAIN Cycle : Cycle[i] = t}
    IN IF here = {} THEN Cycle[1]
       ELSE Cycle[((CHOOSE i \in here : TRUE) % Len(Cycle)) + 1]

\* cycle_auto_lock and set_auto_lock: the registry is loaded again under its
\* lock, changed and written, and the live controller armed.
CycleAutoLock ==
    LET v == opened
        t == NextInCycle(ShownTimeout(lockSnap[v]))
        d == [lockDisk EXCEPT ![v] = ApplyTimeout(@, t)]
    IN /\ v # Absent /\ Change
       /\ lockDisk' = d /\ lockSnap' = d
       /\ armed' = Armed(d[v])
       /\ UNCHANGED opened

\* Values somebody may write by hand, a negative number and no integer
\* among them.
HandValues ==
    {NoTable, NotTable} \cup
    {LockTable(t, more) : t \in {Absent, BadValue, -1, 0, 1}, more \in BOOLEAN}

SettingsNext ==
    \/ \E v \in LockedVault :
        \/ \E t \in {Absent, 1, MaxInt + 1} : SetLock(v, t)
        \/ \E x \in HandValues : HandEdit(v, x)
        \/ UnlockVault(v)
    \/ StartTui \/ LockVault \/ CycleAutoLock

SettingsSpec == SettingsInit /\ [][SettingsNext]_settingVars

----------------------------------------------------------------------------
(* Properties.                                                             *)

\* The controller never runs with a timeout of zero, which would lock on every
\* tick, whatever is written into vaults.toml; and while a vault with a valid
\* override is open it runs with that override or one the session has set.
ArmedIsValid ==
    /\ armed >= 1
    /\ opened # Absent /\ Override(lockSnap[opened]) # Absent
           => armed = Override(lockSnap[opened])

\* A change of the timeout leaves what a later version keeps in the table, and
\* leaves no empty table behind.
KeepsLockTable ==
    lockDisk' # lockDisk => \A v \in LockedVault :
         (CycleAutoLock \/ \E t \in {Absent, 1, MaxInt + 1} : SetLock(v, t)) =>
           /\ (lockDisk[v].kind = "table" /\ lockDisk[v].more)
                => (lockDisk'[v].kind = "table" /\ lockDisk'[v].more)
           /\ lockDisk'[v] # lockDisk[v] => lockDisk'[v] # LockTable(Absent, FALSE)

\* Whatever order hand edits, set-lock and the settings screen come in, the
\* table is changed with care and what the controller is armed with is valid.
LockTableIsKept == [][KeepsLockTable /\ ArmedIsValid']_settingVars
=============================================================================
