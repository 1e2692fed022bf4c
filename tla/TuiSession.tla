----------------------------- MODULE TuiSession -----------------------------
(***************************************************************************)
(* One TUI session (falach-tui app.rs, event.rs, sync_runtime.rs) with its *)
(* auto-lock controller (falach-security auto_lock.rs) and the background  *)
(* sync worker, which takes the open vault and the registry away from the  *)
(* App and hands them back in a message.                                   *)
(*                                                                         *)
(* The loop alternates a tick and at most one key.  The worker and the     *)
(* clock move at any moment.  A vault's contents are the changes forms     *)
(* made to it; what a sync brings in from the remote is left to Sync.      *)
(***************************************************************************)
EXTENDS Naturals

CONSTANTS
    Timeout,    \* the idle timeout, in units of Elapse
    MaxForms,   \* bound: edit forms opened
    MaxPings,   \* bound: activity messages of one sync
    MaxFaults   \* bound: failing saves, opens and syncs

ASSUME SessionAssumption ==
    Timeout \in Nat \ {0} /\ MaxForms \in Nat /\ MaxPings \in Nat /\ MaxFaults \in Nat

MAX_UNLOCK_ATTEMPTS == 3

Trigger == {"manual", "onUnlock", "onLock", "onQuit"}

\* A change: the form that made it, and which of its additions it is.
Change == (1..MaxForms) \X (1..2)

OverlayKind == {"none", "palette", "confirmQuit", "edit", "confirmDelete",
                "bulk", "syncUnlock", "syncConfig"}

VARIABLES
    pc,          \* where the event loop is
    phase,       \* Phase
    attempts,    \* of UnlockPrompt
    overlay,     \* [kind, pending, form, target]: Overlay with its data
    owner,       \* who has the open Vault: "none", "app" or "worker"
    registry,    \* who has the VaultRegistry: "app" or "worker"
    inflight,    \* SyncRuntime::inflight
    worker,      \* [trigger, pings, pinged, end]: the worker and its channel
    lockPending, \* lock_pending
    quit,        \* should_quit
    ctl,         \* [state, idle]: AutoLockController, time since last_activity
    prefs,       \* [confirmQuit, syncOnUnlock, syncOnLeave] of config.toml
    target,      \* an S3 target is configured
    readOnly,    \* --read-only
    mem,         \* contents of the open vault
    disk,        \* contents of its file
    acked,       \* history: changes reported as saved and not deleted since
    forms, faults, away

session == <<pc, phase, attempts, overlay, lockPending, quit>>
handles == <<owner, registry, inflight, worker>>
data == <<mem, disk, acked, forms>>
config == <<prefs, target, readOnly>>
vars == <<session, handles, ctl, config, data, faults, away>>

NoOverlay == [kind |-> "none", pending |-> "manual", form |-> 0, target |-> 0]
Idle == [trigger |-> "manual", pings |-> 0, pinged |-> FALSE, end |-> "none"]

\* The session is well typed; the prompt never counts MAX_UNLOCK_ATTEMPTS
\* failed attempts.
TypeOK ==
    /\ pc \in {"tick", "poll", "exit"}
    /\ phase \in {"unlockList", "unlockPrompt", "lockScreen", "workspace"}
    /\ attempts \in 0..(MAX_UNLOCK_ATTEMPTS - 1)
    /\ overlay \in [kind : OverlayKind, pending : Trigger, form : 0..MaxForms, target : 0..2]
    /\ owner \in {"none", "app", "worker"} /\ registry \in {"app", "worker"}
    /\ inflight \in BOOLEAN /\ lockPending \in BOOLEAN /\ quit \in BOOLEAN
    /\ worker \in [trigger : Trigger, pings : 0..MaxPings, pinged : BOOLEAN,
                   end : {"none", "ok", "err", "lost"}]
    /\ ctl \in [state : {"active", "expired", "locked"}, idle : 0..Timeout]
    /\ prefs \in [confirmQuit : BOOLEAN, syncOnUnlock : BOOLEAN, syncOnLeave : BOOLEAN]
    /\ target \in BOOLEAN /\ readOnly \in BOOLEAN /\ away \in BOOLEAN
    /\ mem \in SUBSET Change /\ disk \in SUBSET Change /\ acked \in SUBSET Change
    /\ forms \in 0..MaxForms /\ faults \in 0..MaxFaults

Init ==
    /\ pc = "tick" /\ phase = "unlockList" /\ attempts = 0 /\ overlay = NoOverlay
    /\ owner = "none" /\ registry = "app" /\ inflight = FALSE /\ worker = Idle
    /\ lockPending = FALSE /\ quit = FALSE
    /\ ctl = [state |-> "active", idle |-> 0]
    /\ prefs \in [confirmQuit : BOOLEAN, syncOnUnlock : BOOLEAN, syncOnLeave : BOOLEAN]
    /\ target \in BOOLEAN /\ readOnly \in BOOLEAN
    /\ mem = {} /\ disk = {} /\ acked = {}
    /\ forms = 0 /\ faults = 0 /\ away = FALSE

Fault == faults < MaxFaults /\ faults' = faults + 1

-----------------------------------------------------------------------------
(* AutoLockController.  The TUI attaches no event source: its channel is   *)
(* empty.                                                                  *)

register_activity(c) == IF c.state = "locked" THEN c ELSE [state |-> "active", idle |-> 0]

unlock == [state |-> "active", idle |-> 0]

\* Faulty variant: the warning state does not end.
BugIdleStaysExpired(c) ==
    IF c.state = "active" /\ c.idle >= Timeout THEN [c EXCEPT !.state = "expired"] ELSE c

\* Active, one tick of Expired, Locked.
apply_idle_logic(c) ==
    CASE c.state = "active" /\ c.idle >= Timeout -> [c EXCEPT !.state = "expired"]
      [] c.state = "expired" -> [c EXCEPT !.state = "locked"]
      [] OTHER -> c

-----------------------------------------------------------------------------
(* The tick.                                                               *)

\* lock_app: the vault is dropped with every buffer of the overlay.
LockApp ==
    /\ owner' = "none" /\ mem' = {}
    /\ overlay' = NoOverlay
    /\ phase' = "lockScreen"

\* Nothing is locked.
StayOpen == owner' = owner /\ UNCHANGED <<mem, overlay, phase>>

\* The loop leaves after the tick when should_quit is set.
AfterTick == pc' = IF quit' THEN "exit" ELSE "poll"

\* The controller after the drained Activity messages.
DrainedCtl == IF inflight /\ worker.pinged THEN register_activity(ctl) ELSE ctl

\* A tick without a terminal message.
Tick ==
    /\ pc = "tick"
    /\ ~(inflight /\ worker.end # "none")
    /\ worker' = [worker EXCEPT !.pinged = FALSE]
    /\ ctl' = IF owner = "app" \/ inflight THEN apply_idle_logic(DrainedCtl) ELSE DrainedCtl
    /\ IF owner = "app" /\ ctl'.state = "locked" THEN LockApp ELSE StayOpen
    /\ lockPending' = (lockPending \/ (owner # "app" /\ inflight /\ ctl'.state = "locked"))
    /\ UNCHANGED <<attempts, registry, inflight, quit, config, disk, acked, forms, faults, away>>
    /\ AfterTick

\* The terminal message: inflight is cleared, the registry is back.
Integrate ==
    /\ pc = "tick"
    /\ inflight /\ inflight' = FALSE
    /\ registry' = "app" /\ worker' = Idle
    /\ UNCHANGED <<attempts, config, disk, acked, forms, faults, away>>

\* Faulty variant: a deferred lock is not looked at.
BugIntegrateIgnoresLock ==
    /\ worker.end = "ok" /\ Integrate
    /\ quit' = (quit \/ worker.trigger = "onQuit")
    /\ ctl' = apply_idle_logic(DrainedCtl)
    /\ lockPending' = FALSE
    /\ IF worker.trigger = "onLock" \/ ctl'.state = "locked"
       THEN LockApp ELSE owner' = "app" /\ UNCHANGED <<mem, overlay, phase>>
    /\ AfterTick

\* integrate_sync_result, Ok: the vault is back in the App; a deferred lock or
\* the trigger closes it, or else the rest of the tick may.
IntegrateOk ==
    /\ worker.end = "ok" /\ Integrate
    /\ LET leave == lockPending \/ worker.trigger = "onLock" IN
       /\ quit' = (quit \/ (~lockPending /\ worker.trigger = "onQuit"))
       /\ ctl' = IF leave THEN DrainedCtl ELSE apply_idle_logic(DrainedCtl)
       /\ IF leave \/ ctl'.state = "locked"
          THEN LockApp ELSE owner' = "app" /\ UNCHANGED <<mem, overlay, phase>>
    /\ lockPending' = FALSE
    /\ AfterTick

\* Faulty variant: the deferred lock of a failed sync is kept.
BugIntegrateKeepsLock ==
    /\ worker.end \in {"err", "lost"} /\ Integrate
    /\ LockApp
    /\ ctl' = DrainedCtl
    /\ UNCHANGED <<lockPending, quit>>
    /\ AfterTick

\* integrate_sync_result, Err, and recover_from_lost_worker.
IntegrateErr ==
    /\ worker.end \in {"err", "lost"} /\ Integrate
    /\ LockApp
    /\ lockPending' = FALSE
    /\ ctl' = DrainedCtl
    /\ UNCHANGED quit
    /\ AfterTick

-----------------------------------------------------------------------------
(* Keys.  Each counts as activity before it is handled.                    *)

Key ==
    /\ pc = "poll" /\ ~away
    /\ pc' = "tick"
    /\ ctl' = register_activity(ctl)
    /\ UNCHANGED away

\* Commands run from their key, or from the palette, which closes.
Free == overlay.kind \in {"none", "palette"}

SamePlace == UNCHANGED <<phase, attempts, lockPending, quit, handles, config, data, faults>>

\* poll times out.
NoKey ==
    /\ pc = "poll" /\ pc' = "tick"
    /\ UNCHANGED <<phase, attempts, overlay, lockPending, quit, handles, ctl, config, data, faults, away>>

\* A key that changes none of this: a motion, a search, a copy, a character.
OtherKey == Key /\ SamePlace /\ UNCHANGED overlay

Help ==
    /\ Key /\ SamePlace
    /\ overlay.kind = "none" /\ phase # "unlockPrompt"
    /\ overlay' = [NoOverlay EXCEPT !.kind = "palette"]

\* Esc, or n: the overlay closes and nothing else happens.
CloseOverlay ==
    /\ Key /\ SamePlace
    /\ overlay.kind \in {"palette", "confirmQuit", "edit", "confirmDelete", "bulk", "syncConfig"}
    /\ overlay' = NoOverlay

\* unlock_list_nav, open_unlock_prompt_for.
ListConfirm ==
    /\ Key /\ Free /\ phase = "unlockList"
    /\ phase' = "unlockPrompt" /\ attempts' = 0 /\ overlay' = NoOverlay
    /\ UNCHANGED <<lockPending, quit, handles, config, data, faults>>

LockScreenKey ==
    /\ Key /\ overlay.kind = "none" /\ phase = "lockScreen"
    /\ phase' = "unlockList"
    /\ UNCHANGED <<attempts, overlay, lockPending, quit, handles, config, data, faults>>

\* start_sync, with the vault in the App's hands: vault and registry move to a
\* new worker.
start_sync(t) ==
    IF readOnly THEN owner' = "app" /\ UNCHANGED <<registry, inflight, worker>>
    ELSE /\ owner' = "worker" /\ registry' = "worker" /\ inflight' = TRUE
         /\ worker' = [trigger |-> t, pings |-> MaxPings, pinged |-> FALSE, end |-> "none"]

PromptCancel ==
    /\ Key /\ overlay.kind = "none" /\ phase = "unlockPrompt"
    /\ phase' = "unlockList"
    /\ UNCHANGED <<attempts, overlay, lockPending, quit, handles, config, data, faults>>

\* try_unlock, Ok: the controller is armed, and sync_on_unlock starts a sync.
UnlockOk ==
    /\ pc = "poll" /\ ~away /\ pc' = "tick"
    /\ overlay.kind = "none" /\ phase = "unlockPrompt"
    /\ phase' = "workspace" /\ attempts' = 0
    /\ mem' = disk
    /\ ctl' = unlock
    /\ IF prefs.syncOnUnlock /\ target THEN start_sync("onUnlock")
       ELSE owner' = "app" /\ UNCHANGED <<registry, inflight, worker>>
    /\ UNCHANGED <<overlay, lockPending, quit, config, disk, acked, forms, faults, away>>

\* try_unlock, AuthenticationFailed.
UnlockWrong ==
    /\ Key /\ overlay.kind = "none" /\ phase = "unlockPrompt"
    /\ phase' = IF attempts + 1 >= MAX_UNLOCK_ATTEMPTS THEN "unlockList" ELSE "unlockPrompt"
    /\ attempts' = IF attempts + 1 >= MAX_UNLOCK_ATTEMPTS THEN 0 ELSE attempts + 1
    /\ UNCHANGED <<overlay, lockPending, quit, handles, config, data, faults>>

\* try_unlock, any other error: the file is locked, missing or damaged.
UnlockFails ==
    /\ Fault
    /\ Key /\ overlay.kind = "none" /\ phase = "unlockPrompt"
    /\ phase' = "unlockList"
    /\ UNCHANGED <<attempts, overlay, lockPending, quit, handles, config, data>>

-----------------------------------------------------------------------------
(* Leaving the vault.                                                      *)

should_sync_on_leave == ~readOnly /\ prefs.syncOnLeave /\ owner = "app" /\ target

AskMaster(t) == overlay' = [NoOverlay EXCEPT !.kind = "syncUnlock", !.pending = t]

\* Faulty variant: the lock is not deferred.
BugRequestLockAtOnce ==
    /\ Key /\ phase = "workspace"
    /\ LockApp
    /\ UNCHANGED <<attempts, lockPending, quit, registry, inflight, worker,
                   config, disk, acked, forms, faults>>

\* request_lock: deferred during a sync, after a sync, or at once.
RequestLock ==
    /\ Key /\ phase = "workspace"
    /\ \/ /\ inflight
          /\ lockPending' = TRUE
          /\ overlay' = IF overlay.kind = "palette" THEN NoOverlay ELSE overlay
          /\ UNCHANGED <<phase, owner, mem>>
       \/ /\ ~inflight /\ should_sync_on_leave
          /\ AskMaster("onLock")
          /\ UNCHANGED <<phase, owner, mem, lockPending>>
       \/ /\ ~inflight /\ ~should_sync_on_leave
          /\ LockApp
          /\ UNCHANGED lockPending
    /\ UNCHANGED <<attempts, quit, registry, inflight, worker, config, disk, acked, forms, faults>>

\* do_quit, from an overlay o that closes or stays.
do_quit(o) ==
    IF phase = "workspace" /\ ~inflight /\ should_sync_on_leave
    THEN AskMaster("onQuit") /\ UNCHANGED quit
    ELSE quit' = TRUE /\ overlay' = o

\* request_quit.
RequestQuit ==
    /\ Key
    /\ IF prefs.confirmQuit
       THEN overlay' = [NoOverlay EXCEPT !.kind = "confirmQuit"] /\ UNCHANGED quit
       ELSE do_quit(IF overlay.kind = "palette" THEN NoOverlay ELSE overlay)
    /\ UNCHANGED <<phase, attempts, lockPending, handles, config, data, faults>>

\* on_confirm_quit_key, y.
ConfirmQuit ==
    /\ Key /\ overlay.kind = "confirmQuit"
    /\ do_quit(NoOverlay)
    /\ UNCHANGED <<phase, attempts, lockPending, handles, config, data, faults>>

\* request_sync.
RequestSync ==
    /\ Key /\ SamePlace
    /\ Free /\ phase = "workspace" /\ ~inflight /\ ~readOnly /\ target
    /\ AskMaster("manual")

\* on_sync_unlock_key, Submit.
SyncSubmit ==
    /\ Key /\ overlay.kind = "syncUnlock"
    /\ overlay' = NoOverlay
    /\ IF owner = "app" THEN start_sync(overlay.pending) ELSE UNCHANGED handles
    /\ UNCHANGED <<phase, attempts, lockPending, quit, config, data, faults>>

\* cancel_pending_sync: the departure goes on without the sync.
SyncCancel ==
    /\ Key /\ overlay.kind = "syncUnlock"
    /\ IF overlay.pending = "onLock" THEN LockApp
       ELSE overlay' = NoOverlay /\ UNCHANGED <<phase, owner, mem>>
    /\ quit' = (quit \/ overlay.pending = "onQuit")
    /\ UNCHANGED <<attempts, lockPending, registry, inflight, worker, config, disk, acked, forms, faults>>

-----------------------------------------------------------------------------
(* Changing the vault.                                                     *)

\* A command of the workspace: not while the worker has the vault.
CommandKey == Key /\ Free /\ phase = "workspace" /\ ~inflight

\* open_add and open_edit: an edited entry is the form's target from the start.
OpenEdit ==
    /\ CommandKey /\ ~readOnly /\ forms < MaxForms
    /\ forms' = forms + 1
    /\ \E t \in {0, 1} :
          overlay' = [NoOverlay EXCEPT !.kind = "edit", !.form = forms + 1, !.target = t]
    /\ UNCHANGED <<phase, attempts, lockPending, quit, handles, config, mem, disk, acked, faults>>

OpenDelete ==
    /\ CommandKey /\ SamePlace /\ ~readOnly /\ mem # {}
    /\ overlay' = [NoOverlay EXCEPT !.kind = "confirmDelete"]

\* apply_update of the form's target, or apply_add under a fresh UUID.
Applied ==
    LET f == overlay.form IN
    <<f, IF overlay.target # 0 THEN overlay.target ELSE IF <<f, 1>> \in mem THEN 2 ELSE 1>>

\* perform_save, persist_vault: the change is in memory, then in the file.
SaveOk ==
    /\ Key /\ overlay.kind = "edit"
    /\ mem' = mem \cup {Applied} /\ disk' = mem' /\ acked' = acked \cup {Applied}
    /\ overlay' = NoOverlay
    /\ UNCHANGED <<phase, attempts, lockPending, quit, handles, config, forms, faults>>

\* Faulty variant: the failed save is reported as done.
BugSaveFailsSilently ==
    /\ Fault
    /\ Key /\ overlay.kind = "edit"
    /\ mem' = mem \cup {Applied} /\ acked' = acked \cup {Applied}
    /\ overlay' = NoOverlay
    /\ UNCHANGED <<phase, attempts, lockPending, quit, handles, config, disk, forms>>

\* The save fails: the change stays in memory, the form stays open and has the
\* new entry as its target.
SaveFails ==
    /\ Fault
    /\ Key /\ overlay.kind = "edit"
    /\ mem' = mem \cup {Applied}
    /\ overlay' = [overlay EXCEPT !.target = Applied[2]]
    /\ UNCHANGED <<phase, attempts, lockPending, quit, handles, config, disk, acked, forms>>

\* persist_vault after the change to the contents M in memory, of which A is
\* reported as saved: a failing save leaves the change in memory.
Persist(M, A) ==
    /\ mem' = M
    /\ \/ disk' = M /\ acked' = A /\ UNCHANGED faults
       \/ Fault /\ acked' = acked \cap A /\ UNCHANGED disk

\* perform_delete.  The user has asked for it: a failing save leaves the entry
\* deleted in memory.
Delete(e) ==
    /\ Key /\ overlay.kind = "confirmDelete"
    /\ overlay' = NoOverlay
    /\ Persist(mem \ {e}, acked \ {e})
    /\ UNCHANGED <<phase, attempts, lockPending, quit, handles, config, forms>>

\* perform_bulk_delete of the marked entries, in one save.
BulkDelete(D) ==
    /\ Key /\ overlay.kind = "confirmDelete"
    /\ overlay' = NoOverlay
    /\ Persist(mem \ D, acked \ D)
    /\ UNCHANGED <<phase, attempts, lockPending, quit, handles, config, forms>>

\* open_group_picker, open_tag_input.
OpenBulk ==
    /\ CommandKey /\ ~readOnly /\ mem # {} /\ forms < MaxForms
    /\ forms' = forms + 1
    /\ overlay' = [NoOverlay EXCEPT !.kind = "bulk", !.form = forms + 1, !.target = 1]
    /\ UNCHANGED <<phase, attempts, lockPending, quit, handles, config, mem, disk, acked, faults>>

\* apply_move_to_group, apply_tag, finish_bulk_op.
Bulk ==
    /\ Key /\ overlay.kind = "bulk"
    /\ overlay' = NoOverlay
    /\ Persist(mem \cup {Applied}, acked \cup {Applied})
    /\ UNCHANGED <<phase, attempts, lockPending, quit, handles, config, forms>>

\* set_auto_lock: the controller is armed again with the new timeout.
SetAutoLock ==
    /\ pc = "poll" /\ ~away /\ pc' = "tick"
    /\ Free /\ phase = "workspace" /\ ~inflight /\ ~readOnly
    /\ overlay' = NoOverlay
    /\ ctl' = unlock
    /\ UNCHANGED <<phase, attempts, lockPending, quit, handles, config, data, faults, away>>

\* activate_settings_row: the two sync preferences.
ToggleSync(k) ==
    /\ CommandKey /\ overlay' = NoOverlay
    /\ prefs' = [prefs EXCEPT ![k] = ~@]
    /\ UNCHANGED <<phase, attempts, lockPending, quit, handles, target, readOnly, data, faults>>

OpenSyncConfig ==
    /\ CommandKey /\ SamePlace /\ ~readOnly /\ owner = "app"
    /\ overlay' = [NoOverlay EXCEPT !.kind = "syncConfig"]

\* perform_configure_sync.
ConfigureSync ==
    /\ Key /\ overlay.kind = "syncConfig"
    /\ target' = TRUE /\ overlay' = NoOverlay
    /\ UNCHANGED <<phase, attempts, lockPending, quit, handles, prefs, readOnly, data, faults>>

-----------------------------------------------------------------------------
(* The worker, and time.                                                   *)

Syncing == inflight /\ worker.end = "none" /\ pc # "exit"

\* on_activity.
WorkerPing ==
    /\ Syncing /\ worker.pings > 0
    /\ worker' = [worker EXCEPT !.pings = @ - 1, !.pinged = TRUE]
    /\ UNCHANGED <<session, owner, registry, inflight, ctl, config, data, faults, away>>

\* sync_now returns Ok: the file is as it was, the remote has replaced what is
\* in memory, or the merge has saved it.
WorkerOk ==
    /\ Syncing
    /\ worker' = [worker EXCEPT !.end = "ok"]
    /\ \/ UNCHANGED <<mem, disk>>
       \/ mem' = disk /\ UNCHANGED disk
       \/ disk' = mem /\ UNCHANGED mem
    /\ UNCHANGED <<session, owner, registry, inflight, ctl, config, acked, forms, faults, away>>

\* sync_now returns an error, or the thread panics and takes the vault with
\* it; a merge may have been saved before.
WorkerFails ==
    /\ Syncing /\ Fault
    /\ \E e \in {"err", "lost"} :
          /\ worker' = [worker EXCEPT !.end = e]
          /\ owner' = IF e = "lost" THEN "none" ELSE owner
          /\ mem' = IF e = "lost" THEN {} ELSE mem
    /\ disk' \in {disk, mem}
    /\ UNCHANGED <<session, registry, inflight, ctl, config, acked, forms, away>>

Elapse ==
    /\ pc # "exit" /\ ctl.idle < Timeout
    /\ ctl' = [ctl EXCEPT !.idle = @ + 1]
    /\ UNCHANGED <<session, handles, config, data, faults, away>>

\* The user walks away.
Leave ==
    /\ ~away /\ away' = TRUE
    /\ UNCHANGED <<session, handles, ctl, config, data, faults>>

-----------------------------------------------------------------------------
Keys ==
    \/ OtherKey \/ Help \/ CloseOverlay \/ ListConfirm \/ LockScreenKey
    \/ PromptCancel \/ UnlockOk \/ UnlockWrong \/ UnlockFails
    \/ RequestLock \/ RequestQuit \/ ConfirmQuit \/ RequestSync \/ SyncSubmit \/ SyncCancel
    \/ OpenEdit \/ OpenDelete \/ SaveOk \/ SaveFails
    \/ \E e \in mem : Delete(e)
    \/ \E D \in SUBSET mem \ {{}} : BulkDelete(D)
    \/ OpenBulk \/ Bulk \/ SetAutoLock
    \/ \E k \in {"syncOnUnlock", "syncOnLeave"} : ToggleSync(k)
    \/ OpenSyncConfig \/ ConfigureSync

Ticks == Tick \/ IntegrateOk \/ IntegrateErr

Worker == WorkerPing \/ WorkerOk \/ WorkerFails

Next == Ticks \/ NoKey \/ Keys \/ Worker \/ Elapse \/ Leave

Spec == Init /\ [][Next]_vars

\* The loop runs and its poll times out; every network call of a sync has a
\* timeout, so sync_now returns; time passes.
SessionFairness == WF_vars(Ticks) /\ WF_vars(NoKey) /\ WF_vars(Worker) /\ WF_vars(Elapse)

FairSpec == Spec /\ SessionFairness

-----------------------------------------------------------------------------
(* Properties.                                                             *)

\* The registry is where App::registry() expects it: with the App outside a
\* sync, and always on the screens before the workspace, which a deferred
\* lock, a failed sync or a lost worker reaches.
RegistryPresent ==
    /\ ~inflight => registry = "app"
    /\ phase # "workspace" => registry = "app"

\* A locked session holds nothing: no vault here or in the worker, no overlay
\* with a secret, no lock left over to close the next session's vault.
LockedIsClean ==
    phase # "workspace" =>
        /\ owner = "none" /\ mem = {} /\ ~inflight /\ ~lockPending
        /\ overlay.kind \in {"none", "palette", "confirmQuit"}

\* A read-only session has no unsaved change in memory and never syncs.
ReadOnlyIsReadOnly == readOnly => ~inflight /\ (owner = "app" => mem = disk)

\* What the UI has reported as saved, and the user has not asked to delete, is
\* in the file: after failed saves, syncs, lost workers and locks.
AckedIsDurable == acked \subseteq disk

\* One add form makes one entry, however often its save is retried.
NoDuplicateEntry ==
    \A a, b \in mem \cup disk : a[1] = b[1] => a = b

\* A lock or a quit that has to wait for a sync closes the vault in the end,
\* even if the user keeps the session active.
LeaveIsKept ==
    (inflight /\ (lockPending \/ worker.trigger \in {"onLock", "onQuit"}))
        ~> (owner = "none" \/ pc = "exit")

\* The vault of a user who has walked away is closed, a running sync and its
\* activity messages included.
AwayVaultCloses == away ~> (owner = "none" \/ pc = "exit")
=============================================================================
