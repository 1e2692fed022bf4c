------------------------- MODULE TuiSession_proofs -------------------------
(***************************************************************************)
(* Proofs about TuiSession.  Inv is the inductive invariant: where the     *)
(* vault and the registry are (Places), what a read-only session may hold  *)
(* (Quiet), which changes memory and file have (Durable), and that every   *)
(* change of a form is the one its form knows as its target (Forms).       *)
(***************************************************************************)
EXTENDS TuiSession, TLAPS

\* The overlays that act on the open vault.
VaultOverlay == {"edit", "confirmDelete", "bulk", "syncUnlock", "syncConfig"}

\* The App and the worker share one vault and one registry: a sync in flight
\* has both, except for the vault of a lost worker.  The workspace is on the
\* screen exactly when one of them has the vault or a sync is in flight.
Places ==
    /\ registry = IF inflight THEN "worker" ELSE "app"
    /\ inflight => owner = IF worker.end = "lost" THEN "none" ELSE "worker"
    /\ ~inflight => owner # "worker"
    /\ phase = "workspace" <=> (owner # "none" \/ inflight)
    /\ lockPending => inflight
    /\ owner = "none" => mem = {}
    /\ overlay.kind \in VaultOverlay => owner = "app"

\* No overlay that changes the vault opens in a read-only session.
Quiet ==
    readOnly => /\ ~inflight
                /\ owner = "app" => mem = disk
                /\ overlay.kind \notin VaultOverlay

\* What was reported as saved is in the file and in the open vault.
Durable == acked \subseteq disk /\ (owner # "none" => acked \subseteq mem)

\* The changes of an open form are its target; no change is of a form that
\* has not been opened.
Forms ==
    /\ overlay.kind \in {"edit", "bulk"} => overlay.form # 0
    /\ overlay.form <= forms
    /\ \A a \in mem \cup disk : a[1] <= forms
    /\ overlay.kind \in {"edit", "bulk"} =>
          \A a \in mem \cup disk : a[1] = overlay.form => a[2] = overlay.target
    /\ NoDuplicateEntry

Inv == TypeOK /\ Places /\ Quiet /\ Durable /\ Forms

OverlayType == [kind : OverlayKind, pending : Trigger, form : 0..MaxForms, target : 0..2]
WorkerType ==
    [trigger : Trigger, pings : 0..MaxPings, pinged : BOOLEAN, end : {"none", "ok", "err", "lost"}]
CtlType == [state : {"active", "expired", "locked"}, idle : 0..Timeout]

\* The overlays that the handlers open.
LEMMA OverlayTypes ==
    /\ NoOverlay \in OverlayType
    /\ \A k \in OverlayKind : [NoOverlay EXCEPT !.kind = k] \in OverlayType
    /\ \A t \in Trigger : [NoOverlay EXCEPT !.kind = "syncUnlock", !.pending = t] \in OverlayType
    /\ \A k \in OverlayKind, f \in 0..MaxForms, t \in 0..2 :
          [NoOverlay EXCEPT !.kind = k, !.form = f, !.target = t] \in OverlayType
<1>1. NoOverlay \in OverlayType
  BY SessionAssumption DEF NoOverlay, OverlayType, OverlayKind, Trigger
<1>2. \A k \in OverlayKind : [NoOverlay EXCEPT !.kind = k] \in OverlayType
  BY <1>1 DEF OverlayType
<1>3. "syncUnlock" \in OverlayKind
  BY DEF OverlayKind
<1>4. \A t \in Trigger : [NoOverlay EXCEPT !.kind = "syncUnlock", !.pending = t] \in OverlayType
  BY <1>1, <1>3 DEF OverlayType
<1>5. \A k \in OverlayKind, f \in 0..MaxForms, t \in 0..2 :
         [NoOverlay EXCEPT !.kind = k, !.form = f, !.target = t] \in OverlayType
  BY <1>1 DEF OverlayType
<1> QED
  BY <1>1, <1>2, <1>4, <1>5

\* Only a form has a number.
LEMMA OverlayForms ==
    /\ NoOverlay.kind = "none" /\ NoOverlay.form = 0
    /\ \A k \in OverlayKind : LET o == [NoOverlay EXCEPT !.kind = k] IN o.kind = k /\ o.form = 0
    /\ \A t \in Trigger : LET o == [NoOverlay EXCEPT !.kind = "syncUnlock", !.pending = t] IN
          o.kind = "syncUnlock" /\ o.form = 0
  BY DEF NoOverlay

\* The controller's operations.
LEMMA CtlTypes ==
    /\ unlock \in CtlType
    /\ \A c \in CtlType : register_activity(c) \in CtlType /\ apply_idle_logic(c) \in CtlType
<1>1. unlock \in CtlType
  BY SessionAssumption DEF unlock, CtlType
<1>2. ASSUME NEW c \in CtlType PROVE register_activity(c) \in CtlType
  BY SessionAssumption DEF register_activity, CtlType
<1>3. ASSUME NEW c \in CtlType PROVE apply_idle_logic(c) \in CtlType
  <2>1. c.idle \in 0..Timeout /\ [c EXCEPT !.state = "expired"] \in CtlType
                              /\ [c EXCEPT !.state = "locked"] \in CtlType
    BY DEF CtlType
  <2> QED
    BY <2>1 DEF apply_idle_logic
<1> QED
  BY <1>1, <1>2, <1>3

\* The worker's states.
LEMMA WorkerTypes ==
    /\ Idle \in WorkerType
    /\ \A t \in Trigger :
          [trigger |-> t, pings |-> MaxPings, pinged |-> FALSE, end |-> "none"] \in WorkerType
    /\ \A w \in WorkerType : [w EXCEPT !.pinged = FALSE] \in WorkerType
<1>1. Idle \in WorkerType
  BY SessionAssumption DEF Idle, WorkerType, Trigger
<1>2. \A t \in Trigger :
         [trigger |-> t, pings |-> MaxPings, pinged |-> FALSE, end |-> "none"] \in WorkerType
  BY SessionAssumption DEF WorkerType
<1>3. \A w \in WorkerType : [w EXCEPT !.pinged = FALSE] \in WorkerType
  BY DEF WorkerType
<1> QED
  BY <1>1, <1>2, <1>3

\* Every step keeps the types.
LEMMA TypeStep == Inv /\ [Next]_vars => TypeOK'
<1> SUFFICES ASSUME Inv, [Next]_vars PROVE TypeOK'
  OBVIOUS
<1> USE SessionAssumption DEF Inv
<1>1. CASE Tick
  <2>0. overlay \in OverlayType /\ ctl \in CtlType /\ worker \in WorkerType
    BY DEF TypeOK, OverlayType, CtlType, WorkerType
  <2>1. ctl' \in CtlType
    BY <1>1, <2>0, CtlTypes DEF Tick, DrainedCtl
  <2>2. worker' \in WorkerType
    BY <1>1, <2>0, WorkerTypes DEF Tick
  <2>3. /\ overlay' \in OverlayType /\ owner' \in {"none", "app", "worker"}
        /\ mem' \in SUBSET Change
        /\ phase' \in {"unlockList", "unlockPrompt", "lockScreen", "workspace"}
    BY <1>1, <2>0, OverlayTypes DEF Tick, LockApp, StayOpen, TypeOK
  <2>4. pc' \in {"tick", "poll", "exit"} /\ lockPending' \in BOOLEAN
    BY <1>1, <2>0, Zenon DEF Tick, AfterTick, TypeOK
  <2> QED
    BY <1>1, <2>0, <2>1, <2>2, <2>3, <2>4 DEF Tick, TypeOK, OverlayType, CtlType,
       WorkerType, session, handles, data, config
<1>2. CASE IntegrateOk
  <2>0. overlay \in OverlayType /\ ctl \in CtlType /\ worker \in WorkerType
    BY DEF TypeOK, OverlayType, CtlType, WorkerType
  <2>1. ctl' \in CtlType
    BY <1>2, <2>0, CtlTypes DEF IntegrateOk, DrainedCtl
  <2>2. worker' \in WorkerType
    BY <1>2, <2>0, WorkerTypes DEF IntegrateOk, Integrate
  <2>3. /\ overlay' \in OverlayType /\ owner' \in {"none", "app", "worker"}
        /\ mem' \in SUBSET Change
        /\ phase' \in {"unlockList", "unlockPrompt", "lockScreen", "workspace"}
    BY <1>2, <2>0, OverlayTypes DEF IntegrateOk, LockApp, TypeOK
  <2>4. pc' \in {"tick", "poll", "exit"} /\ quit' \in BOOLEAN
    BY <1>2, <2>0, Zenon DEF IntegrateOk, AfterTick, TypeOK
  <2> QED
    BY <1>2, <2>0, <2>1, <2>2, <2>3, <2>4 DEF IntegrateOk, Integrate, TypeOK, OverlayType,
       CtlType, WorkerType, session, handles, data, config
<1>3. CASE IntegrateErr
  <2>0. overlay \in OverlayType /\ ctl \in CtlType /\ worker \in WorkerType
    BY DEF TypeOK, OverlayType, CtlType, WorkerType
  <2>1. ctl' \in CtlType
    BY <1>3, <2>0, CtlTypes DEF IntegrateErr, DrainedCtl
  <2>2. worker' \in WorkerType
    BY <1>3, <2>0, WorkerTypes DEF IntegrateErr, Integrate
  <2>3. /\ overlay' \in OverlayType /\ owner' \in {"none", "app", "worker"}
        /\ mem' \in SUBSET Change
        /\ phase' \in {"unlockList", "unlockPrompt", "lockScreen", "workspace"}
    BY <1>3, <2>0, OverlayTypes DEF IntegrateErr, LockApp, TypeOK
  <2>4. pc' \in {"tick", "poll", "exit"} /\ quit' \in BOOLEAN
    BY <1>3, <2>0, Zenon DEF IntegrateErr, AfterTick, TypeOK
  <2> QED
    BY <1>3, <2>0, <2>1, <2>2, <2>3, <2>4 DEF IntegrateErr, Integrate, TypeOK, OverlayType,
       CtlType, WorkerType, session, handles, data, config
<1>4. CASE NoKey
  BY <1>4 DEF NoKey, TypeOK, Forms, Change, NoOverlay, OverlayKind, Trigger, session,
     handles, data, config
<1>5. CASE OtherKey
  BY <1>5 DEF OtherKey, Key, SamePlace, register_activity, TypeOK, Forms, Change, NoOverlay,
     OverlayKind, Trigger, session, handles, data, config
<1>6. CASE Help
  BY <1>6 DEF Help, Key, SamePlace, register_activity, TypeOK, Forms, Change, NoOverlay,
     OverlayKind, Trigger, session, handles, data, config
<1>7. CASE CloseOverlay
  BY <1>7 DEF CloseOverlay, Key, SamePlace, register_activity, TypeOK, Forms, Change,
     NoOverlay, OverlayKind, Trigger, session, handles, data, config
<1>8. CASE ListConfirm
  <2>0. overlay \in OverlayType /\ ctl \in CtlType /\ worker \in WorkerType
    BY DEF TypeOK, OverlayType, CtlType, WorkerType
  <2>1. ctl' \in CtlType
    BY <1>8, <2>0, CtlTypes DEF ListConfirm, Key
  <2>2. overlay' \in OverlayType
    BY <1>8, <2>0, OverlayTypes DEF ListConfirm
  <2> QED
    BY <1>8, <2>0, <2>1, <2>2 DEF ListConfirm, Key, MAX_UNLOCK_ATTEMPTS, TypeOK,
       OverlayType, CtlType, WorkerType, session, handles, data, config
<1>9. CASE LockScreenKey
  BY <1>9 DEF LockScreenKey, Key, register_activity, TypeOK, Forms, Change, NoOverlay,
     OverlayKind, Trigger, session, handles, data, config
<1>10. CASE PromptCancel
  BY <1>10 DEF PromptCancel, Key, register_activity, TypeOK, Forms, Change, NoOverlay,
     OverlayKind, Trigger, session, handles, data, config
<1>11. CASE UnlockOk
  <2>0. overlay \in OverlayType /\ ctl \in CtlType /\ worker \in WorkerType
    BY DEF TypeOK, OverlayType, CtlType, WorkerType
  <2>1. ctl' \in CtlType
    BY <1>11, <2>0, CtlTypes DEF UnlockOk
  <2>2. worker' \in WorkerType /\ owner' \in {"none", "app", "worker"}
        /\ registry' \in {"app", "worker"} /\ inflight' \in BOOLEAN
    BY <1>11, <2>0, WorkerTypes DEF UnlockOk, start_sync, TypeOK, Trigger
  <2> QED
    BY <1>11, <2>0, <2>1, <2>2 DEF UnlockOk, MAX_UNLOCK_ATTEMPTS, TypeOK, OverlayType,
       CtlType, WorkerType, session, handles, data, config
<1>12. CASE UnlockWrong
  BY <1>12 DEF UnlockWrong, Key, register_activity, MAX_UNLOCK_ATTEMPTS, TypeOK, Forms,
     Change, NoOverlay, OverlayKind, Trigger, session, handles, data, config
<1>13. CASE UnlockFails
  BY <1>13 DEF UnlockFails, Key, Fault, register_activity, TypeOK, Forms, Change, NoOverlay,
     OverlayKind, Trigger, session, handles, data, config
<1>14. CASE RequestLock
  <2>0. overlay \in OverlayType /\ ctl \in CtlType /\ worker \in WorkerType
    BY DEF TypeOK, OverlayType, CtlType, WorkerType
  <2>1. ctl' \in CtlType
    BY <1>14, <2>0, CtlTypes DEF RequestLock, Key
  <2>2. /\ overlay' \in OverlayType /\ owner' \in {"none", "app", "worker"}
        /\ mem' \in SUBSET Change /\ lockPending' \in BOOLEAN
        /\ phase' \in {"unlockList", "unlockPrompt", "lockScreen", "workspace"}
    BY <1>14, <2>0, OverlayTypes DEF RequestLock, AskMaster, LockApp, TypeOK, Trigger
  <2> QED
    BY <1>14, <2>0, <2>1, <2>2 DEF RequestLock, Key, TypeOK, OverlayType, CtlType,
       WorkerType, session, handles, data, config
<1>15. CASE RequestQuit
  <2>0. overlay \in OverlayType /\ ctl \in CtlType /\ worker \in WorkerType
    BY DEF TypeOK, OverlayType, CtlType, WorkerType
  <2>1. ctl' \in CtlType
    BY <1>15, <2>0, CtlTypes DEF RequestQuit, Key
  <2>2. overlay' \in OverlayType /\ quit' \in BOOLEAN
    BY <1>15, <2>0, OverlayTypes DEF RequestQuit, do_quit, AskMaster, TypeOK, Trigger,
       OverlayKind
  <2> QED
    BY <1>15, <2>0, <2>1, <2>2 DEF RequestQuit, Key, TypeOK, OverlayType, CtlType,
       WorkerType, session, handles, data, config
<1>16. CASE ConfirmQuit
  <2>0. overlay \in OverlayType /\ ctl \in CtlType /\ worker \in WorkerType
    BY DEF TypeOK, OverlayType, CtlType, WorkerType
  <2>1. ctl' \in CtlType
    BY <1>16, <2>0, CtlTypes DEF ConfirmQuit, Key
  <2>2. overlay' \in OverlayType /\ quit' \in BOOLEAN
    BY <1>16, <2>0, OverlayTypes DEF ConfirmQuit, do_quit, AskMaster, TypeOK, Trigger,
       OverlayKind
  <2> QED
    BY <1>16, <2>0, <2>1, <2>2 DEF ConfirmQuit, Key, TypeOK, OverlayType, CtlType,
       WorkerType, session, handles, data, config
<1>17. CASE RequestSync
  <2>0. overlay \in OverlayType /\ ctl \in CtlType /\ worker \in WorkerType
    BY DEF TypeOK, OverlayType, CtlType, WorkerType
  <2>1. ctl' \in CtlType
    BY <1>17, <2>0, CtlTypes DEF RequestSync, Key
  <2>2. overlay' \in OverlayType
    BY <1>17, <2>0, OverlayTypes DEF RequestSync, AskMaster, Trigger
  <2> QED
    BY <1>17, <2>0, <2>1, <2>2 DEF RequestSync, Key, SamePlace, TypeOK, OverlayType,
       CtlType, WorkerType, session, handles, data, config
<1>18. CASE SyncSubmit
  <2>0. overlay \in OverlayType /\ ctl \in CtlType /\ worker \in WorkerType
    BY DEF TypeOK, OverlayType, CtlType, WorkerType
  <2>1. ctl' \in CtlType
    BY <1>18, <2>0, CtlTypes DEF SyncSubmit, Key
  <2>2. overlay' \in OverlayType
    BY <1>18, <2>0, OverlayTypes DEF SyncSubmit
  <2>3. overlay.pending \in Trigger
    BY <1>18, <2>0, SMT DEF OverlayType
  <2>4. \/ owner' = owner /\ registry' = registry /\ inflight' = inflight /\ worker' = worker
        \/ owner' = "app" /\ registry' = registry /\ inflight' = inflight /\ worker' = worker
        \/ /\ owner' = "worker" /\ registry' = "worker" /\ inflight' = TRUE
           /\ worker' \in WorkerType
    BY <1>18, <2>0, <2>3, WorkerTypes, Zenon DEF SyncSubmit, start_sync, handles
  <2>5. worker' \in WorkerType /\ owner' \in {"none", "app", "worker"}
        /\ registry' \in {"app", "worker"} /\ inflight' \in BOOLEAN
    BY <1>18, <2>0, <2>3, <2>4, Zenon DEF TypeOK
  <2> QED
    BY <1>18, <2>0, <2>1, <2>2, <2>3, <2>4, <2>5 DEF SyncSubmit, Key, TypeOK, OverlayType,
       CtlType, WorkerType, session, handles, data, config
<1>19. CASE SyncCancel
  BY <1>19 DEF SyncCancel, Key, register_activity, LockApp, TypeOK, Forms, Change,
     NoOverlay, OverlayKind, Trigger, session, handles, data, config
<1>20. CASE OpenEdit
  <2>0. overlay \in OverlayType /\ ctl \in CtlType /\ worker \in WorkerType
    BY DEF TypeOK, OverlayType, CtlType, WorkerType
  <2>1. ctl' \in CtlType
    BY <1>20, <2>0, CtlTypes DEF OpenEdit, CommandKey, Key
  <2>2. forms + 1 \in 0..MaxForms
    BY <1>20, <2>0, SMT DEF OpenEdit, TypeOK
  <2>3. {"edit", "bulk"} \subseteq OverlayKind /\ {0, 1} \subseteq 0..2
    BY <1>20, <2>0, SMT DEF OverlayKind
  <2>4. \E t \in 0..2 :
           overlay' = [NoOverlay EXCEPT !.kind = "edit", !.form = forms + 1, !.target = t]
    BY <1>20, <2>0, <2>3, Zenon DEF OpenEdit
  <2>5. overlay' \in OverlayType
    <3>1. PICK t \in 0..2 :
             overlay' = [NoOverlay EXCEPT !.kind = "edit", !.form = forms + 1, !.target = t]
      BY <2>4
    <3>2. "edit" \in OverlayKind
      BY <2>3
    <3>3. [NoOverlay EXCEPT !.kind = "edit", !.form = forms + 1, !.target = t] \in OverlayType
      BY <2>2, <3>2, OverlayTypes, Zenon
    <3> QED
      BY <3>1, <3>3, Zenon
  <2> QED
    BY <1>20, <2>0, <2>1, <2>2, <2>3, <2>4, <2>5 DEF OpenEdit, CommandKey, Key, TypeOK,
       OverlayType, CtlType, WorkerType, session, handles, data, config
<1>21. CASE OpenDelete
  BY <1>21 DEF OpenDelete, CommandKey, Key, Free, SamePlace, register_activity, TypeOK, Forms,
     Change, NoOverlay, OverlayKind, Trigger, session, handles, data, config
<1>22. CASE SaveOk
  BY <1>22 DEF SaveOk, Key, register_activity, Applied, TypeOK, Forms, Change, NoOverlay,
     OverlayKind, Trigger, session, handles, data, config
<1>23. CASE SaveFails
  BY <1>23 DEF SaveFails, Key, Fault, register_activity, Applied, TypeOK, Forms, Change,
     NoOverlay, OverlayKind, Trigger, session, handles, data, config
<1>24. ASSUME NEW e \in mem, Delete(e) PROVE TypeOK'
  BY <1>24 DEF Delete, Key, Fault, register_activity, Persist, TypeOK, Forms, Change,
     NoOverlay, OverlayKind, Trigger, session, handles, data, config
<1>25. ASSUME NEW D \in SUBSET mem, BulkDelete(D) PROVE TypeOK'
  BY <1>25 DEF BulkDelete, Key, Fault, register_activity, Persist, TypeOK, Forms, Change,
     NoOverlay, OverlayKind, Trigger, session, handles, data, config
<1>26. CASE OpenBulk
  <2>0. overlay \in OverlayType /\ ctl \in CtlType /\ worker \in WorkerType
    BY DEF TypeOK, OverlayType, CtlType, WorkerType
  <2>1. ctl' \in CtlType
    BY <1>26, <2>0, CtlTypes DEF OpenBulk, CommandKey, Key
  <2>2. forms + 1 \in 0..MaxForms
    BY <1>26, <2>0, SMT DEF OpenBulk, TypeOK
  <2>3. {"edit", "bulk"} \subseteq OverlayKind /\ {0, 1} \subseteq 0..2
    BY <1>26, <2>0, SMT DEF OverlayKind
  <2>4. overlay' \in OverlayType
    BY <1>26, <2>0, <2>2, <2>3, OverlayTypes DEF OpenBulk
  <2> QED
    BY <1>26, <2>0, <2>1, <2>2, <2>3, <2>4 DEF OpenBulk, CommandKey, Key, TypeOK, OverlayType,
       CtlType, WorkerType, session, handles, data, config
<1>27. CASE Bulk
  BY <1>27 DEF Bulk, Key, Fault, register_activity, Applied, Persist, TypeOK, Forms, Change,
     NoOverlay, OverlayKind, Trigger, session, handles, data, config
<1>28. CASE SetAutoLock
  BY <1>28 DEF SetAutoLock, Free, unlock, TypeOK, Forms, Change, NoOverlay, OverlayKind,
     Trigger, session, handles, data, config
<1>29. ASSUME NEW k \in {"syncOnUnlock", "syncOnLeave"}, ToggleSync(k) PROVE TypeOK'
  <2>0. overlay \in OverlayType /\ ctl \in CtlType /\ worker \in WorkerType
    BY DEF TypeOK, OverlayType, CtlType, WorkerType
  <2>1. ctl' \in CtlType
    BY <1>29, <2>0, CtlTypes DEF ToggleSync, CommandKey, Key
  <2>2. overlay' \in OverlayType
    BY <1>29, <2>0, OverlayTypes DEF ToggleSync
  <2>3. \E b \in BOOLEAN : prefs' = [prefs EXCEPT ![k] = b]
    BY <1>29, <2>0, Zenon DEF ToggleSync
  <2>4. prefs' \in [confirmQuit : BOOLEAN, syncOnUnlock : BOOLEAN, syncOnLeave : BOOLEAN]
    BY <1>29, <2>0, <2>3, SMT DEF TypeOK
  <2> QED
    BY <1>29, <2>0, <2>1, <2>2, <2>3, <2>4 DEF ToggleSync, CommandKey, Key, TypeOK,
       OverlayType, CtlType, WorkerType, session, handles, data, config
<1>30. CASE OpenSyncConfig
  BY <1>30 DEF OpenSyncConfig, CommandKey, Key, Free, SamePlace, register_activity, TypeOK,
     Forms, Change, NoOverlay, OverlayKind, Trigger, session, handles, data, config
<1>31. CASE ConfigureSync
  BY <1>31 DEF ConfigureSync, Key, register_activity, TypeOK, Forms, Change, NoOverlay,
     OverlayKind, Trigger, session, handles, data, config
<1>32. CASE WorkerPing
  <2>0. overlay \in OverlayType /\ ctl \in CtlType /\ worker \in WorkerType
    BY DEF TypeOK, OverlayType, CtlType, WorkerType
  <2>1. worker.pings - 1 \in 0..MaxPings
    BY <1>32, <2>0, SMT DEF WorkerPing, WorkerType
  <2>2. worker' \in WorkerType
    BY <1>32, <2>0, <2>1 DEF WorkerPing, WorkerType
  <2> QED
    BY <1>32, <2>0, <2>1, <2>2 DEF WorkerPing, TypeOK, OverlayType, CtlType, WorkerType,
       session, handles, data, config
<1>33. CASE WorkerOk
  BY <1>33 DEF WorkerOk, Syncing, TypeOK, Forms, Change, NoOverlay, OverlayKind, Trigger,
     session, handles, data, config
<1>34. CASE WorkerFails
  BY <1>34 DEF WorkerFails, Syncing, Fault, TypeOK, Forms, Change, NoOverlay, OverlayKind,
     Trigger, session, handles, data, config
<1>35. CASE Elapse
  BY <1>35 DEF Elapse, TypeOK, Forms, Change, NoOverlay, OverlayKind, Trigger, session,
     handles, data, config
<1>36. CASE Leave
  BY <1>36 DEF Leave, TypeOK, Forms, Change, NoOverlay, OverlayKind, Trigger, session,
     handles, data, config
<1>37. CASE UNCHANGED vars
  BY <1>37 DEF vars, TypeOK, Forms, Change, session, handles, data, config, NoOverlay,
     OverlayKind, Trigger
<1> QED
  BY <1>1, <1>2, <1>3, <1>4, <1>5, <1>6, <1>7, <1>8, <1>9, <1>10, <1>11, <1>12, <1>13,
     <1>14, <1>15, <1>16, <1>17, <1>18, <1>19, <1>20, <1>21, <1>22, <1>23, <1>24, <1>25,
     <1>26, <1>27, <1>28, <1>29, <1>30, <1>31, <1>32, <1>33, <1>34, <1>35, <1>36, <1>37 DEF
     Next, Ticks, Keys, Worker

\* Every step keeps the vault and the registry in their places.
LEMMA PlacesStep == Inv /\ [Next]_vars => Places'
<1> SUFFICES ASSUME Inv, [Next]_vars PROVE Places'
  OBVIOUS
<1> USE SessionAssumption DEF Inv
<1>1. CASE Tick
  BY <1>1 DEF Tick, DrainedCtl, LockApp, StayOpen, AfterTick, apply_idle_logic,
     register_activity, TypeOK, Places, VaultOverlay, NoOverlay, OverlayKind, Trigger,
     session, handles, data, config
<1>2. CASE IntegrateOk
  BY <1>2 DEF IntegrateOk, Integrate, DrainedCtl, LockApp, AfterTick, apply_idle_logic,
     register_activity, Idle, TypeOK, Places, VaultOverlay, NoOverlay, OverlayKind, Trigger,
     session, handles, data, config
<1>3. CASE IntegrateErr
  BY <1>3 DEF IntegrateErr, Integrate, DrainedCtl, LockApp, AfterTick, register_activity, Idle,
     TypeOK, Places, VaultOverlay, NoOverlay, OverlayKind, Trigger, session, handles, data,
     config
<1>4. CASE NoKey
  BY <1>4 DEF NoKey, TypeOK, Places, VaultOverlay, NoOverlay, OverlayKind, Trigger, session,
     handles, data, config
<1>5. CASE OtherKey
  BY <1>5 DEF OtherKey, Key, SamePlace, register_activity, TypeOK, Places, VaultOverlay,
     NoOverlay, OverlayKind, Trigger, session, handles, data, config
<1>6. CASE Help
  BY <1>6 DEF Help, Key, SamePlace, register_activity, TypeOK, Places, VaultOverlay,
     NoOverlay, OverlayKind, Trigger, session, handles, data, config
<1>7. CASE CloseOverlay
  BY <1>7 DEF CloseOverlay, Key, SamePlace, register_activity, TypeOK, Places, VaultOverlay,
     NoOverlay, OverlayKind, Trigger, session, handles, data, config
<1>8. CASE ListConfirm
  BY <1>8 DEF ListConfirm, Key, Free, register_activity, TypeOK, Places, VaultOverlay,
     NoOverlay, OverlayKind, Trigger, session, handles, data, config
<1>9. CASE LockScreenKey
  BY <1>9 DEF LockScreenKey, Key, register_activity, TypeOK, Places, VaultOverlay,
     NoOverlay, OverlayKind, Trigger, session, handles, data, config
<1>10. CASE PromptCancel
  BY <1>10 DEF PromptCancel, Key, register_activity, TypeOK, Places, VaultOverlay,
     NoOverlay, OverlayKind, Trigger, session, handles, data, config
<1>11. CASE UnlockOk
  BY <1>11 DEF UnlockOk, start_sync, unlock, TypeOK, Places, VaultOverlay, NoOverlay,
     OverlayKind, Trigger, session, handles, data, config
<1>12. CASE UnlockWrong
  BY <1>12 DEF UnlockWrong, Key, register_activity, MAX_UNLOCK_ATTEMPTS, TypeOK, Places,
     VaultOverlay, NoOverlay, OverlayKind, Trigger, session, handles, data, config
<1>13. CASE UnlockFails
  BY <1>13 DEF UnlockFails, Key, Fault, register_activity, TypeOK, Places, VaultOverlay,
     NoOverlay, OverlayKind, Trigger, session, handles, data, config
<1>14. CASE RequestLock
  BY <1>14 DEF RequestLock, Key, register_activity, LockApp, AskMaster,
     should_sync_on_leave, TypeOK, Places, VaultOverlay, NoOverlay, OverlayKind, Trigger,
     session, handles, data, config
<1>15. CASE RequestQuit
  BY <1>15 DEF RequestQuit, Key, register_activity, do_quit, AskMaster,
     should_sync_on_leave, TypeOK, Places, VaultOverlay, NoOverlay, OverlayKind, Trigger,
     session, handles, data, config
<1>16. CASE ConfirmQuit
  BY <1>16 DEF ConfirmQuit, Key, register_activity, do_quit, AskMaster,
     should_sync_on_leave, TypeOK, Places, VaultOverlay, NoOverlay, OverlayKind, Trigger,
     session, handles, data, config
<1>17. CASE RequestSync
  BY <1>17 DEF RequestSync, Key, SamePlace, Free, register_activity, AskMaster, TypeOK,
     Places, VaultOverlay, NoOverlay, OverlayKind, Trigger, session, handles, data, config
<1>18. CASE SyncSubmit
  BY <1>18 DEF SyncSubmit, Key, register_activity, start_sync, TypeOK, Places, VaultOverlay,
     NoOverlay, OverlayKind, Trigger, session, handles, data, config
<1>19. CASE SyncCancel
  BY <1>19 DEF SyncCancel, Key, register_activity, LockApp, TypeOK, Places, VaultOverlay,
     NoOverlay, OverlayKind, Trigger, session, handles, data, config
<1>20. CASE OpenEdit
  BY <1>20 DEF OpenEdit, CommandKey, Key, Free, register_activity, TypeOK, Places,
     VaultOverlay, NoOverlay, OverlayKind, Trigger, session, handles, data, config
<1>21. CASE OpenDelete
  BY <1>21 DEF OpenDelete, CommandKey, Key, Free, SamePlace, register_activity, TypeOK, Places,
     VaultOverlay, NoOverlay, OverlayKind, Trigger, session, handles, data, config
<1>22. CASE SaveOk
  BY <1>22 DEF SaveOk, Key, register_activity, Applied, TypeOK, Places, VaultOverlay,
     NoOverlay, OverlayKind, Trigger, session, handles, data, config
<1>23. CASE SaveFails
  BY <1>23 DEF SaveFails, Key, Fault, register_activity, Applied, TypeOK, Places,
     VaultOverlay, NoOverlay, OverlayKind, Trigger, session, handles, data, config
<1>24. ASSUME NEW e \in mem, Delete(e) PROVE Places'
  BY <1>24 DEF Delete, Key, Fault, register_activity, Persist, TypeOK, Places, VaultOverlay,
     NoOverlay, OverlayKind, Trigger, session, handles, data, config
<1>25. ASSUME NEW D \in SUBSET mem, BulkDelete(D) PROVE Places'
  BY <1>25 DEF BulkDelete, Key, Fault, register_activity, Persist, TypeOK, Places,
     VaultOverlay, NoOverlay, OverlayKind, Trigger, session, handles, data, config
<1>26. CASE OpenBulk
  BY <1>26 DEF OpenBulk, CommandKey, Key, Free, register_activity, TypeOK, Places,
     VaultOverlay, NoOverlay, OverlayKind, Trigger, session, handles, data, config
<1>27. CASE Bulk
  BY <1>27 DEF Bulk, Key, Fault, register_activity, Applied, Persist, TypeOK, Places,
     VaultOverlay, NoOverlay, OverlayKind, Trigger, session, handles, data, config
<1>28. CASE SetAutoLock
  BY <1>28 DEF SetAutoLock, Free, unlock, TypeOK, Places, VaultOverlay, NoOverlay,
     OverlayKind, Trigger, session, handles, data, config
<1>29. ASSUME NEW k \in {"syncOnUnlock", "syncOnLeave"}, ToggleSync(k) PROVE Places'
  BY <1>29 DEF ToggleSync, CommandKey, Key, Free, register_activity, TypeOK, Places,
     VaultOverlay, NoOverlay, OverlayKind, Trigger, session, handles, data, config
<1>30. CASE OpenSyncConfig
  BY <1>30 DEF OpenSyncConfig, CommandKey, Key, Free, SamePlace, register_activity, TypeOK,
     Places, VaultOverlay, NoOverlay, OverlayKind, Trigger, session, handles, data, config
<1>31. CASE ConfigureSync
  BY <1>31 DEF ConfigureSync, Key, register_activity, TypeOK, Places, VaultOverlay,
     NoOverlay, OverlayKind, Trigger, session, handles, data, config
<1>32. CASE WorkerPing
  BY <1>32 DEF WorkerPing, Syncing, TypeOK, Places, VaultOverlay, NoOverlay, OverlayKind,
     Trigger, session, handles, data, config
<1>33. CASE WorkerOk
  BY <1>33 DEF WorkerOk, Syncing, TypeOK, Places, VaultOverlay, NoOverlay, OverlayKind,
     Trigger, session, handles, data, config
<1>34. CASE WorkerFails
  BY <1>34 DEF WorkerFails, Syncing, Fault, TypeOK, Places, VaultOverlay, NoOverlay,
     OverlayKind, Trigger, session, handles, data, config
<1>35. CASE Elapse
  BY <1>35 DEF Elapse, TypeOK, Places, VaultOverlay, NoOverlay, OverlayKind, Trigger,
     session, handles, data, config
<1>36. CASE Leave
  BY <1>36 DEF Leave, TypeOK, Places, VaultOverlay, NoOverlay, OverlayKind, Trigger,
     session, handles, data, config
<1>37. CASE UNCHANGED vars
  BY <1>37 DEF vars, TypeOK, Places, VaultOverlay, session, handles, data, config,
     NoOverlay, OverlayKind, Trigger
<1> QED
  BY <1>1, <1>2, <1>3, <1>4, <1>5, <1>6, <1>7, <1>8, <1>9, <1>10, <1>11, <1>12, <1>13,
     <1>14, <1>15, <1>16, <1>17, <1>18, <1>19, <1>20, <1>21, <1>22, <1>23, <1>24, <1>25,
     <1>26, <1>27, <1>28, <1>29, <1>30, <1>31, <1>32, <1>33, <1>34, <1>35, <1>36, <1>37 DEF
     Next, Ticks, Keys, Worker

\* Every step of a read-only session leaves the vault alone.
LEMMA QuietStep == Inv /\ [Next]_vars => Quiet'
<1> SUFFICES ASSUME Inv, [Next]_vars PROVE Quiet'
  OBVIOUS
<1> USE SessionAssumption DEF Inv
<1>1. CASE Tick
  BY <1>1 DEF Tick, DrainedCtl, LockApp, StayOpen, AfterTick, apply_idle_logic,
     register_activity, TypeOK, Places, Quiet, VaultOverlay, NoOverlay, OverlayKind,
     Trigger, session, handles, data, config
<1>2. CASE IntegrateOk
  BY <1>2 DEF IntegrateOk, Integrate, DrainedCtl, LockApp, AfterTick, apply_idle_logic,
     register_activity, Idle, TypeOK, Places, Quiet, VaultOverlay, NoOverlay, OverlayKind,
     Trigger, session, handles, data, config
<1>3. CASE IntegrateErr
  BY <1>3 DEF IntegrateErr, Integrate, DrainedCtl, LockApp, AfterTick, register_activity, Idle,
     TypeOK, Places, Quiet, VaultOverlay, NoOverlay, OverlayKind, Trigger, session, handles,
     data, config
<1>4. CASE NoKey
  BY <1>4 DEF NoKey, TypeOK, Places, Quiet, VaultOverlay, NoOverlay, OverlayKind, Trigger,
     session, handles, data, config
<1>5. CASE OtherKey
  BY <1>5 DEF OtherKey, Key, SamePlace, register_activity, TypeOK, Places, Quiet,
     VaultOverlay, NoOverlay, OverlayKind, Trigger, session, handles, data, config
<1>6. CASE Help
  BY <1>6 DEF Help, Key, SamePlace, register_activity, TypeOK, Places, Quiet, VaultOverlay,
     NoOverlay, OverlayKind, Trigger, session, handles, data, config
<1>7. CASE CloseOverlay
  BY <1>7 DEF CloseOverlay, Key, SamePlace, register_activity, TypeOK, Places, Quiet,
     VaultOverlay, NoOverlay, OverlayKind, Trigger, session, handles, data, config
<1>8. CASE ListConfirm
  BY <1>8 DEF ListConfirm, Key, Free, register_activity, TypeOK, Places, Quiet,
     VaultOverlay, NoOverlay, OverlayKind, Trigger, session, handles, data, config
<1>9. CASE LockScreenKey
  BY <1>9 DEF LockScreenKey, Key, register_activity, TypeOK, Places, Quiet, VaultOverlay,
     NoOverlay, OverlayKind, Trigger, session, handles, data, config
<1>10. CASE PromptCancel
  BY <1>10 DEF PromptCancel, Key, register_activity, TypeOK, Places, Quiet, VaultOverlay,
     NoOverlay, OverlayKind, Trigger, session, handles, data, config
<1>11. CASE UnlockOk
  BY <1>11 DEF UnlockOk, start_sync, unlock, TypeOK, Places, Quiet, VaultOverlay, NoOverlay,
     OverlayKind, Trigger, session, handles, data, config
<1>12. CASE UnlockWrong
  BY <1>12 DEF UnlockWrong, Key, register_activity, MAX_UNLOCK_ATTEMPTS, TypeOK, Places,
     Quiet, VaultOverlay, NoOverlay, OverlayKind, Trigger, session, handles, data, config
<1>13. CASE UnlockFails
  BY <1>13 DEF UnlockFails, Key, Fault, register_activity, TypeOK, Places, Quiet,
     VaultOverlay, NoOverlay, OverlayKind, Trigger, session, handles, data, config
<1>14. CASE RequestLock
  BY <1>14 DEF RequestLock, Key, register_activity, LockApp, AskMaster,
     should_sync_on_leave, TypeOK, Places, Quiet, VaultOverlay, NoOverlay, OverlayKind,
     Trigger, session, handles, data, config
<1>15. CASE RequestQuit
  BY <1>15 DEF RequestQuit, Key, register_activity, do_quit, AskMaster,
     should_sync_on_leave, TypeOK, Places, Quiet, VaultOverlay, NoOverlay, OverlayKind,
     Trigger, session, handles, data, config
<1>16. CASE ConfirmQuit
  BY <1>16 DEF ConfirmQuit, Key, register_activity, do_quit, AskMaster,
     should_sync_on_leave, TypeOK, Places, Quiet, VaultOverlay, NoOverlay, OverlayKind,
     Trigger, session, handles, data, config
<1>17. CASE RequestSync
  BY <1>17 DEF RequestSync, Key, SamePlace, Free, register_activity, AskMaster, TypeOK,
     Places, Quiet, VaultOverlay, NoOverlay, OverlayKind, Trigger, session, handles, data,
     config
<1>18. CASE SyncSubmit
  BY <1>18 DEF SyncSubmit, Key, register_activity, start_sync, TypeOK, Places, Quiet,
     VaultOverlay, NoOverlay, OverlayKind, Trigger, session, handles, data, config
<1>19. CASE SyncCancel
  BY <1>19 DEF SyncCancel, Key, register_activity, LockApp, TypeOK, Places, Quiet,
     VaultOverlay, NoOverlay, OverlayKind, Trigger, session, handles, data, config
<1>20. CASE OpenEdit
  BY <1>20 DEF OpenEdit, CommandKey, Key, Free, register_activity, TypeOK, Places, Quiet,
     VaultOverlay, NoOverlay, OverlayKind, Trigger, session, handles, data, config
<1>21. CASE OpenDelete
  BY <1>21 DEF OpenDelete, CommandKey, Key, Free, SamePlace, register_activity, TypeOK, Places,
     Quiet, VaultOverlay, NoOverlay, OverlayKind, Trigger, session, handles, data, config
<1>22. CASE SaveOk
  BY <1>22 DEF SaveOk, Key, register_activity, Applied, TypeOK, Places, Quiet, VaultOverlay,
     NoOverlay, OverlayKind, Trigger, session, handles, data, config
<1>23. CASE SaveFails
  BY <1>23 DEF SaveFails, Key, Fault, register_activity, Applied, TypeOK, Places, Quiet,
     VaultOverlay, NoOverlay, OverlayKind, Trigger, session, handles, data, config
<1>24. ASSUME NEW e \in mem, Delete(e) PROVE Quiet'
  BY <1>24 DEF Delete, Key, Fault, register_activity, Persist, TypeOK, Places, Quiet,
     VaultOverlay, NoOverlay, OverlayKind, Trigger, session, handles, data, config
<1>25. ASSUME NEW D \in SUBSET mem, BulkDelete(D) PROVE Quiet'
  BY <1>25 DEF BulkDelete, Key, Fault, register_activity, Persist, TypeOK, Places, Quiet,
     VaultOverlay, NoOverlay, OverlayKind, Trigger, session, handles, data, config
<1>26. CASE OpenBulk
  BY <1>26 DEF OpenBulk, CommandKey, Key, Free, register_activity, TypeOK, Places, Quiet,
     VaultOverlay, NoOverlay, OverlayKind, Trigger, session, handles, data, config
<1>27. CASE Bulk
  BY <1>27 DEF Bulk, Key, Fault, register_activity, Applied, Persist, TypeOK, Places, Quiet,
     VaultOverlay, NoOverlay, OverlayKind, Trigger, session, handles, data, config
<1>28. CASE SetAutoLock
  BY <1>28 DEF SetAutoLock, Free, unlock, TypeOK, Places, Quiet, VaultOverlay, NoOverlay,
     OverlayKind, Trigger, session, handles, data, config
<1>29. ASSUME NEW k \in {"syncOnUnlock", "syncOnLeave"}, ToggleSync(k) PROVE Quiet'
  BY <1>29 DEF ToggleSync, CommandKey, Key, Free, register_activity, TypeOK, Places, Quiet,
     VaultOverlay, NoOverlay, OverlayKind, Trigger, session, handles, data, config
<1>30. CASE OpenSyncConfig
  BY <1>30 DEF OpenSyncConfig, CommandKey, Key, Free, SamePlace, register_activity, TypeOK,
     Places, Quiet, VaultOverlay, NoOverlay, OverlayKind, Trigger, session, handles, data,
     config
<1>31. CASE ConfigureSync
  BY <1>31 DEF ConfigureSync, Key, register_activity, TypeOK, Places, Quiet, VaultOverlay,
     NoOverlay, OverlayKind, Trigger, session, handles, data, config
<1>32. CASE WorkerPing
  BY <1>32 DEF WorkerPing, Syncing, TypeOK, Places, Quiet, VaultOverlay, NoOverlay,
     OverlayKind, Trigger, session, handles, data, config
<1>33. CASE WorkerOk
  BY <1>33 DEF WorkerOk, Syncing, TypeOK, Places, Quiet, VaultOverlay, NoOverlay,
     OverlayKind, Trigger, session, handles, data, config
<1>34. CASE WorkerFails
  BY <1>34 DEF WorkerFails, Syncing, Fault, TypeOK, Places, Quiet, VaultOverlay, NoOverlay,
     OverlayKind, Trigger, session, handles, data, config
<1>35. CASE Elapse
  BY <1>35 DEF Elapse, TypeOK, Places, Quiet, VaultOverlay, NoOverlay, OverlayKind, Trigger,
     session, handles, data, config
<1>36. CASE Leave
  BY <1>36 DEF Leave, TypeOK, Places, Quiet, VaultOverlay, NoOverlay, OverlayKind, Trigger,
     session, handles, data, config
<1>37. CASE UNCHANGED vars
  BY <1>37 DEF vars, TypeOK, Places, Quiet, VaultOverlay, session, handles, data, config,
     NoOverlay, OverlayKind, Trigger
<1> QED
  BY <1>1, <1>2, <1>3, <1>4, <1>5, <1>6, <1>7, <1>8, <1>9, <1>10, <1>11, <1>12, <1>13,
     <1>14, <1>15, <1>16, <1>17, <1>18, <1>19, <1>20, <1>21, <1>22, <1>23, <1>24, <1>25,
     <1>26, <1>27, <1>28, <1>29, <1>30, <1>31, <1>32, <1>33, <1>34, <1>35, <1>36, <1>37 DEF
     Next, Ticks, Keys, Worker

\* Every step keeps what was reported as saved.
LEMMA DurableStep == Inv /\ [Next]_vars => Durable'
<1> SUFFICES ASSUME Inv, [Next]_vars PROVE Durable'
  OBVIOUS
<1> USE SessionAssumption DEF Inv
<1>1. CASE Tick
  BY <1>1 DEF Tick, DrainedCtl, LockApp, StayOpen, AfterTick, apply_idle_logic,
     register_activity, TypeOK, Places, Durable, VaultOverlay, NoOverlay, OverlayKind,
     Trigger, session, handles, data, config
<1>2. CASE IntegrateOk
  BY <1>2 DEF IntegrateOk, Integrate, DrainedCtl, LockApp, AfterTick, apply_idle_logic,
     register_activity, Idle, TypeOK, Places, Durable, VaultOverlay, NoOverlay, OverlayKind,
     Trigger, session, handles, data, config
<1>3. CASE IntegrateErr
  BY <1>3 DEF IntegrateErr, Integrate, DrainedCtl, LockApp, AfterTick, register_activity, Idle,
     TypeOK, Places, Durable, VaultOverlay, NoOverlay, OverlayKind, Trigger, session,
     handles, data, config
<1>4. CASE NoKey
  BY <1>4 DEF NoKey, TypeOK, Places, Durable, VaultOverlay, NoOverlay, OverlayKind, Trigger,
     session, handles, data, config
<1>5. CASE OtherKey
  BY <1>5 DEF OtherKey, Key, SamePlace, register_activity, TypeOK, Places, Durable,
     VaultOverlay, NoOverlay, OverlayKind, Trigger, session, handles, data, config
<1>6. CASE Help
  BY <1>6 DEF Help, Key, SamePlace, register_activity, TypeOK, Places, Durable,
     VaultOverlay, NoOverlay, OverlayKind, Trigger, session, handles, data, config
<1>7. CASE CloseOverlay
  BY <1>7 DEF CloseOverlay, Key, SamePlace, register_activity, TypeOK, Places, Durable,
     VaultOverlay, NoOverlay, OverlayKind, Trigger, session, handles, data, config
<1>8. CASE ListConfirm
  BY <1>8 DEF ListConfirm, Key, Free, register_activity, TypeOK, Places, Durable,
     VaultOverlay, NoOverlay, OverlayKind, Trigger, session, handles, data, config
<1>9. CASE LockScreenKey
  BY <1>9 DEF LockScreenKey, Key, register_activity, TypeOK, Places, Durable, VaultOverlay,
     NoOverlay, OverlayKind, Trigger, session, handles, data, config
<1>10. CASE PromptCancel
  BY <1>10 DEF PromptCancel, Key, register_activity, TypeOK, Places, Durable, VaultOverlay,
     NoOverlay, OverlayKind, Trigger, session, handles, data, config
<1>11. CASE UnlockOk
  BY <1>11 DEF UnlockOk, start_sync, unlock, TypeOK, Places, Durable, VaultOverlay,
     NoOverlay, OverlayKind, Trigger, session, handles, data, config
<1>12. CASE UnlockWrong
  BY <1>12 DEF UnlockWrong, Key, register_activity, MAX_UNLOCK_ATTEMPTS, TypeOK, Places,
     Durable, VaultOverlay, NoOverlay, OverlayKind, Trigger, session, handles, data, config
<1>13. CASE UnlockFails
  BY <1>13 DEF UnlockFails, Key, Fault, register_activity, TypeOK, Places, Durable,
     VaultOverlay, NoOverlay, OverlayKind, Trigger, session, handles, data, config
<1>14. CASE RequestLock
  BY <1>14 DEF RequestLock, Key, register_activity, LockApp, AskMaster,
     should_sync_on_leave, TypeOK, Places, Durable, VaultOverlay, NoOverlay, OverlayKind,
     Trigger, session, handles, data, config
<1>15. CASE RequestQuit
  BY <1>15 DEF RequestQuit, Key, register_activity, do_quit, AskMaster,
     should_sync_on_leave, TypeOK, Places, Durable, VaultOverlay, NoOverlay, OverlayKind,
     Trigger, session, handles, data, config
<1>16. CASE ConfirmQuit
  BY <1>16 DEF ConfirmQuit, Key, register_activity, do_quit, AskMaster,
     should_sync_on_leave, TypeOK, Places, Durable, VaultOverlay, NoOverlay, OverlayKind,
     Trigger, session, handles, data, config
<1>17. CASE RequestSync
  BY <1>17 DEF RequestSync, Key, SamePlace, Free, register_activity, AskMaster, TypeOK,
     Places, Durable, VaultOverlay, NoOverlay, OverlayKind, Trigger, session, handles, data,
     config
<1>18. CASE SyncSubmit
  BY <1>18 DEF SyncSubmit, Key, register_activity, start_sync, TypeOK, Places, Durable,
     VaultOverlay, NoOverlay, OverlayKind, Trigger, session, handles, data, config
<1>19. CASE SyncCancel
  BY <1>19 DEF SyncCancel, Key, register_activity, LockApp, TypeOK, Places, Durable,
     VaultOverlay, NoOverlay, OverlayKind, Trigger, session, handles, data, config
<1>20. CASE OpenEdit
  BY <1>20 DEF OpenEdit, CommandKey, Key, Free, register_activity, TypeOK, Places, Durable,
     VaultOverlay, NoOverlay, OverlayKind, Trigger, session, handles, data, config
<1>21. CASE OpenDelete
  BY <1>21 DEF OpenDelete, CommandKey, Key, Free, SamePlace, register_activity, TypeOK, Places,
     Durable, VaultOverlay, NoOverlay, OverlayKind, Trigger, session, handles, data, config
<1>22. CASE SaveOk
  BY <1>22 DEF SaveOk, Key, register_activity, Applied, TypeOK, Places, Durable,
     VaultOverlay, NoOverlay, OverlayKind, Trigger, session, handles, data, config
<1>23. CASE SaveFails
  BY <1>23 DEF SaveFails, Key, Fault, register_activity, Applied, TypeOK, Places, Durable,
     VaultOverlay, NoOverlay, OverlayKind, Trigger, session, handles, data, config
<1>24. ASSUME NEW e \in mem, Delete(e) PROVE Durable'
  BY <1>24 DEF Delete, Key, Fault, register_activity, Persist, TypeOK, Places, Durable,
     VaultOverlay, NoOverlay, OverlayKind, Trigger, session, handles, data, config
<1>25. ASSUME NEW D \in SUBSET mem, BulkDelete(D) PROVE Durable'
  BY <1>25 DEF BulkDelete, Key, Fault, register_activity, Persist, TypeOK, Places, Durable,
     VaultOverlay, NoOverlay, OverlayKind, Trigger, session, handles, data, config
<1>26. CASE OpenBulk
  BY <1>26 DEF OpenBulk, CommandKey, Key, Free, register_activity, TypeOK, Places, Durable,
     VaultOverlay, NoOverlay, OverlayKind, Trigger, session, handles, data, config
<1>27. CASE Bulk
  BY <1>27 DEF Bulk, Key, Fault, register_activity, Applied, Persist, TypeOK, Places,
     Durable, VaultOverlay, NoOverlay, OverlayKind, Trigger, session, handles, data, config
<1>28. CASE SetAutoLock
  BY <1>28 DEF SetAutoLock, Free, unlock, TypeOK, Places, Durable, VaultOverlay, NoOverlay,
     OverlayKind, Trigger, session, handles, data, config
<1>29. ASSUME NEW k \in {"syncOnUnlock", "syncOnLeave"}, ToggleSync(k) PROVE Durable'
  BY <1>29 DEF ToggleSync, CommandKey, Key, Free, register_activity, TypeOK, Places, Durable,
     VaultOverlay, NoOverlay, OverlayKind, Trigger, session, handles, data, config
<1>30. CASE OpenSyncConfig
  BY <1>30 DEF OpenSyncConfig, CommandKey, Key, Free, SamePlace, register_activity, TypeOK,
     Places, Durable, VaultOverlay, NoOverlay, OverlayKind, Trigger, session, handles, data,
     config
<1>31. CASE ConfigureSync
  BY <1>31 DEF ConfigureSync, Key, register_activity, TypeOK, Places, Durable, VaultOverlay,
     NoOverlay, OverlayKind, Trigger, session, handles, data, config
<1>32. CASE WorkerPing
  BY <1>32 DEF WorkerPing, Syncing, TypeOK, Places, Durable, VaultOverlay, NoOverlay,
     OverlayKind, Trigger, session, handles, data, config
<1>33. CASE WorkerOk
  BY <1>33 DEF WorkerOk, Syncing, TypeOK, Places, Durable, VaultOverlay, NoOverlay,
     OverlayKind, Trigger, session, handles, data, config
<1>34. CASE WorkerFails
  BY <1>34 DEF WorkerFails, Syncing, Fault, TypeOK, Places, Durable, VaultOverlay,
     NoOverlay, OverlayKind, Trigger, session, handles, data, config
<1>35. CASE Elapse
  BY <1>35 DEF Elapse, TypeOK, Places, Durable, VaultOverlay, NoOverlay, OverlayKind,
     Trigger, session, handles, data, config
<1>36. CASE Leave
  BY <1>36 DEF Leave, TypeOK, Places, Durable, VaultOverlay, NoOverlay, OverlayKind,
     Trigger, session, handles, data, config
<1>37. CASE UNCHANGED vars
  BY <1>37 DEF vars, TypeOK, Places, Durable, VaultOverlay, session, handles, data, config,
     NoOverlay, OverlayKind, Trigger
<1> QED
  BY <1>1, <1>2, <1>3, <1>4, <1>5, <1>6, <1>7, <1>8, <1>9, <1>10, <1>11, <1>12, <1>13,
     <1>14, <1>15, <1>16, <1>17, <1>18, <1>19, <1>20, <1>21, <1>22, <1>23, <1>24, <1>25,
     <1>26, <1>27, <1>28, <1>29, <1>30, <1>31, <1>32, <1>33, <1>34, <1>35, <1>36, <1>37 DEF
     Next, Ticks, Keys, Worker

\* Every step keeps the changes of a form to one.
LEMMA FormsStep == Inv /\ [Next]_vars => Forms'
<1> SUFFICES ASSUME Inv, [Next]_vars PROVE Forms'
  OBVIOUS
<1> USE SessionAssumption DEF Inv
<1>1. CASE Tick
  BY <1>1 DEF Tick, DrainedCtl, LockApp, StayOpen, AfterTick, apply_idle_logic,
     register_activity, TypeOK, Places, Forms, NoDuplicateEntry, VaultOverlay, Change,
     NoOverlay, OverlayKind, Trigger, session, handles, data, config
<1>2. CASE IntegrateOk
  BY <1>2 DEF IntegrateOk, Integrate, DrainedCtl, LockApp, AfterTick, apply_idle_logic,
     register_activity, Idle, TypeOK, Places, Forms, NoDuplicateEntry, VaultOverlay, Change,
     NoOverlay, OverlayKind, Trigger, session, handles, data, config
<1>3. CASE IntegrateErr
  BY <1>3 DEF IntegrateErr, Integrate, DrainedCtl, LockApp, AfterTick, register_activity, Idle,
     TypeOK, Places, Forms, NoDuplicateEntry, VaultOverlay, Change, NoOverlay, OverlayKind,
     Trigger, session, handles, data, config
<1>4. CASE NoKey
  BY <1>4 DEF NoKey, TypeOK, Places, Forms, NoDuplicateEntry, VaultOverlay, Change,
     NoOverlay, OverlayKind, Trigger, session, handles, data, config
<1>5. CASE OtherKey
  BY <1>5 DEF OtherKey, Key, SamePlace, register_activity, TypeOK, Places, Forms,
     NoDuplicateEntry, VaultOverlay, Change, NoOverlay, OverlayKind, Trigger, session,
     handles, data, config
<1>6. CASE Help
  BY <1>6 DEF Help, Key, SamePlace, register_activity, TypeOK, Places, Forms,
     NoDuplicateEntry, VaultOverlay, Change, NoOverlay, OverlayKind, Trigger, session,
     handles, data, config
<1>7. CASE CloseOverlay
  BY <1>7 DEF CloseOverlay, Key, SamePlace, register_activity, TypeOK, Places, Forms,
     NoDuplicateEntry, VaultOverlay, Change, NoOverlay, OverlayKind, Trigger, session,
     handles, data, config
<1>8. CASE ListConfirm
  BY <1>8 DEF ListConfirm, Key, Free, register_activity, TypeOK, Places, Forms,
     NoDuplicateEntry, VaultOverlay, Change, NoOverlay, OverlayKind, Trigger, session,
     handles, data, config
<1>9. CASE LockScreenKey
  BY <1>9 DEF LockScreenKey, Key, register_activity, TypeOK, Places, Forms,
     NoDuplicateEntry, VaultOverlay, Change, NoOverlay, OverlayKind, Trigger, session,
     handles, data, config
<1>10. CASE PromptCancel
  BY <1>10 DEF PromptCancel, Key, register_activity, TypeOK, Places, Forms,
     NoDuplicateEntry, VaultOverlay, Change, NoOverlay, OverlayKind, Trigger, session,
     handles, data, config
<1>11. CASE UnlockOk
  BY <1>11 DEF UnlockOk, start_sync, unlock, TypeOK, Places, Forms, NoDuplicateEntry,
     VaultOverlay, Change, NoOverlay, OverlayKind, Trigger, session, handles, data, config
<1>12. CASE UnlockWrong
  BY <1>12 DEF UnlockWrong, Key, register_activity, MAX_UNLOCK_ATTEMPTS, TypeOK, Places,
     Forms, NoDuplicateEntry, VaultOverlay, Change, NoOverlay, OverlayKind, Trigger,
     session, handles, data, config
<1>13. CASE UnlockFails
  BY <1>13 DEF UnlockFails, Key, Fault, register_activity, TypeOK, Places, Forms,
     NoDuplicateEntry, VaultOverlay, Change, NoOverlay, OverlayKind, Trigger, session,
     handles, data, config
<1>14. CASE RequestLock
  <2>1. mem' \cup disk' \subseteq mem \cup disk /\ forms' = forms
    BY <1>14 DEF RequestLock, LockApp, data
  <2>2. \/ overlay' = overlay
        \/ overlay'.kind \in {"none", "syncUnlock"} /\ overlay'.form = 0
    BY <1>14, OverlayForms DEF RequestLock, LockApp, AskMaster, Trigger
  <2> QED
    BY <2>1, <2>2 DEF TypeOK, Forms, NoDuplicateEntry
<1>15. CASE RequestQuit
  <2>1. mem' = mem /\ disk' = disk /\ forms' = forms
    BY <1>15 DEF RequestQuit, data
  <2>2. \/ overlay' = overlay
        \/ overlay'.kind \in {"none", "syncUnlock", "confirmQuit"} /\ overlay'.form = 0
    <3>1. CASE prefs.confirmQuit
      <4>1. overlay' = [NoOverlay EXCEPT !.kind = "confirmQuit"]
        BY <1>15, <3>1 DEF RequestQuit
      <4> QED
        BY <4>1, OverlayForms DEF OverlayKind
    <3>2. CASE ~prefs.confirmQuit
      <4>1. do_quit(IF overlay.kind = "palette" THEN NoOverlay ELSE overlay)
        BY <1>15, <3>2 DEF RequestQuit
      <4> QED
        BY <4>1, OverlayForms DEF do_quit, AskMaster, Trigger
    <3> QED
      BY <3>1, <3>2
  <2> QED
    BY <2>1, <2>2 DEF TypeOK, Forms, NoDuplicateEntry
<1>16. CASE ConfirmQuit
  <2>1. mem' = mem /\ disk' = disk /\ forms' = forms
    BY <1>16 DEF ConfirmQuit, data
  <2>2. \/ overlay' = overlay
        \/ overlay'.kind \in {"none", "syncUnlock", "confirmQuit"} /\ overlay'.form = 0
    BY <1>16, OverlayForms DEF ConfirmQuit, do_quit, AskMaster, Trigger, OverlayKind
  <2> QED
    BY <2>1, <2>2 DEF TypeOK, Forms, NoDuplicateEntry
<1>17. CASE RequestSync
  BY <1>17 DEF RequestSync, Key, SamePlace, Free, register_activity, AskMaster, TypeOK,
     Places, Forms, NoDuplicateEntry, VaultOverlay, Change, NoOverlay, OverlayKind, Trigger,
     session, handles, data, config
<1>18. CASE SyncSubmit
  BY <1>18 DEF SyncSubmit, Key, register_activity, start_sync, TypeOK, Places, Forms,
     NoDuplicateEntry, VaultOverlay, Change, NoOverlay, OverlayKind, Trigger, session,
     handles, data, config
<1>19. CASE SyncCancel
  BY <1>19 DEF SyncCancel, Key, register_activity, LockApp, TypeOK, Places, Forms,
     NoDuplicateEntry, VaultOverlay, Change, NoOverlay, OverlayKind, Trigger, session,
     handles, data, config
<1>20. CASE OpenEdit
  BY <1>20 DEF OpenEdit, CommandKey, Key, Free, register_activity, TypeOK, Places, Forms,
     NoDuplicateEntry, VaultOverlay, Change, NoOverlay, OverlayKind, Trigger, session,
     handles, data, config
<1>21. CASE OpenDelete
  BY <1>21 DEF OpenDelete, CommandKey, Key, Free, SamePlace, register_activity, TypeOK, Places,
     Forms, NoDuplicateEntry, VaultOverlay, Change, NoOverlay, OverlayKind, Trigger,
     session, handles, data, config
<1>22. CASE SaveOk
  BY <1>22 DEF SaveOk, Key, register_activity, Applied, TypeOK, Places, Forms,
     NoDuplicateEntry, VaultOverlay, Change, NoOverlay, OverlayKind, Trigger, session,
     handles, data, config
<1>23. CASE SaveFails
  BY <1>23 DEF SaveFails, Key, Fault, register_activity, Applied, TypeOK, Places, Forms,
     NoDuplicateEntry, VaultOverlay, Change, NoOverlay, OverlayKind, Trigger, session,
     handles, data, config
<1>24. ASSUME NEW e \in mem, Delete(e) PROVE Forms'
  BY <1>24 DEF Delete, Key, Fault, register_activity, Persist, TypeOK, Places, Forms,
     NoDuplicateEntry, VaultOverlay, Change, NoOverlay, OverlayKind, Trigger, session,
     handles, data, config
<1>25. ASSUME NEW D \in SUBSET mem, BulkDelete(D) PROVE Forms'
  BY <1>25 DEF BulkDelete, Key, Fault, register_activity, Persist, TypeOK, Places, Forms,
     NoDuplicateEntry, VaultOverlay, Change, NoOverlay, OverlayKind, Trigger, session,
     handles, data, config
<1>26. CASE OpenBulk
  BY <1>26 DEF OpenBulk, CommandKey, Key, Free, register_activity, TypeOK, Places, Forms,
     NoDuplicateEntry, VaultOverlay, Change, NoOverlay, OverlayKind, Trigger, session,
     handles, data, config
<1>27. CASE Bulk
  BY <1>27 DEF Bulk, Key, Fault, register_activity, Applied, Persist, TypeOK, Places, Forms,
     NoDuplicateEntry, VaultOverlay, Change, NoOverlay, OverlayKind, Trigger, session,
     handles, data, config
<1>28. CASE SetAutoLock
  BY <1>28 DEF SetAutoLock, Free, unlock, TypeOK, Places, Forms, NoDuplicateEntry,
     VaultOverlay, Change, NoOverlay, OverlayKind, Trigger, session, handles, data, config
<1>29. ASSUME NEW k \in {"syncOnUnlock", "syncOnLeave"}, ToggleSync(k) PROVE Forms'
  BY <1>29 DEF ToggleSync, CommandKey, Key, Free, register_activity, TypeOK, Places, Forms,
     NoDuplicateEntry, VaultOverlay, Change, NoOverlay, OverlayKind, Trigger, session,
     handles, data, config
<1>30. CASE OpenSyncConfig
  BY <1>30 DEF OpenSyncConfig, CommandKey, Key, Free, SamePlace, register_activity, TypeOK,
     Places, Forms, NoDuplicateEntry, VaultOverlay, Change, NoOverlay, OverlayKind, Trigger,
     session, handles, data, config
<1>31. CASE ConfigureSync
  BY <1>31 DEF ConfigureSync, Key, register_activity, TypeOK, Places, Forms,
     NoDuplicateEntry, VaultOverlay, Change, NoOverlay, OverlayKind, Trigger, session,
     handles, data, config
<1>32. CASE WorkerPing
  BY <1>32 DEF WorkerPing, Syncing, TypeOK, Places, Forms, NoDuplicateEntry, VaultOverlay,
     Change, NoOverlay, OverlayKind, Trigger, session, handles, data, config
<1>33. CASE WorkerOk
  BY <1>33 DEF WorkerOk, Syncing, TypeOK, Places, Forms, NoDuplicateEntry, VaultOverlay,
     Change, NoOverlay, OverlayKind, Trigger, session, handles, data, config
<1>34. CASE WorkerFails
  BY <1>34 DEF WorkerFails, Syncing, Fault, TypeOK, Places, Forms, NoDuplicateEntry,
     VaultOverlay, Change, NoOverlay, OverlayKind, Trigger, session, handles, data, config
<1>35. CASE Elapse
  BY <1>35 DEF Elapse, TypeOK, Places, Forms, NoDuplicateEntry, VaultOverlay, Change,
     NoOverlay, OverlayKind, Trigger, session, handles, data, config
<1>36. CASE Leave
  BY <1>36 DEF Leave, TypeOK, Places, Forms, NoDuplicateEntry, VaultOverlay, Change,
     NoOverlay, OverlayKind, Trigger, session, handles, data, config
<1>37. CASE UNCHANGED vars
  BY <1>37 DEF vars, TypeOK, Places, Forms, NoDuplicateEntry, VaultOverlay, Change, session,
     handles, data, config, NoOverlay, OverlayKind, Trigger
<1> QED
  BY <1>1, <1>2, <1>3, <1>4, <1>5, <1>6, <1>7, <1>8, <1>9, <1>10, <1>11, <1>12, <1>13,
     <1>14, <1>15, <1>16, <1>17, <1>18, <1>19, <1>20, <1>21, <1>22, <1>23, <1>24, <1>25,
     <1>26, <1>27, <1>28, <1>29, <1>30, <1>31, <1>32, <1>33, <1>34, <1>35, <1>36, <1>37 DEF
     Next, Ticks, Keys, Worker

\* The session starts in the invariant.
LEMMA InvInit == Init => Inv
<1> SUFFICES ASSUME Init PROVE Inv
  OBVIOUS
<1> USE SessionAssumption DEF Init
<1>1. TypeOK
  <2>1. overlay \in OverlayType /\ worker \in WorkerType /\ ctl \in CtlType
    BY OverlayTypes, WorkerTypes, CtlTypes DEF unlock
  <2> QED
    <3>1. attempts \in 0..(MAX_UNLOCK_ATTEMPTS - 1) /\ forms \in 0..MaxForms /\ faults \in 0..MaxFaults
      BY DEF MAX_UNLOCK_ATTEMPTS
    <3> QED
      BY <2>1, <3>1, Zenon DEF TypeOK, OverlayType, WorkerType, CtlType
<1>2. Places
  BY DEF Places, VaultOverlay, NoOverlay
<1>3. Quiet
  BY DEF Quiet, VaultOverlay, NoOverlay
<1>4. Durable
  BY DEF Durable
<1>5. Forms
  BY DEF Forms, NoDuplicateEntry, NoOverlay
<1> QED
  BY <1>1, <1>2, <1>3, <1>4, <1>5 DEF Inv

\* Every reachable state of a session, with any timeout and any number of
\* forms, syncs and faults, satisfies the invariant.
THEOREM SessionInvariant == Spec => []Inv
<1>1. Inv /\ [Next]_vars => Inv'
  BY TypeStep, PlacesStep, QuietStep, DurableStep, FormsStep DEF Inv
<1> QED
  BY InvInit, <1>1, PTL DEF Spec

\* The state of a session is well typed; the prompt never counts more than
\* MAX_UNLOCK_ATTEMPTS - 1 failures.
THEOREM SessionTypeCorrect == Spec => []TypeOK
<1>1. Inv => TypeOK
  BY DEF Inv
<1> QED
  BY SessionInvariant, <1>1, PTL

\* App::registry() never meets an absent registry: every screen that calls it
\* is reached with the registry back in the App.
THEOREM RegistryIsPresent == Spec => []RegistryPresent
<1>1. Inv => RegistryPresent
  BY DEF Inv, Places, TypeOK, RegistryPresent
<1> QED
  BY SessionInvariant, <1>1, PTL

\* lock_app leaves nothing behind, whichever way the session came to it.
THEOREM LockedSessionIsClean == Spec => []LockedIsClean
<1>1. Inv => LockedIsClean
  BY DEF Inv, Places, TypeOK, LockedIsClean, VaultOverlay, OverlayKind
<1> QED
  BY SessionInvariant, <1>1, PTL

\* A read-only session never changes the vault in memory and never syncs.
THEOREM ReadOnlyChangesNothing == Spec => []ReadOnlyIsReadOnly
<1>1. Inv => ReadOnlyIsReadOnly
  BY DEF Inv, Quiet, ReadOnlyIsReadOnly
<1> QED
  BY SessionInvariant, <1>1, PTL

\* What the UI has reported as saved is in the vault's file.
THEOREM AcknowledgedIsDurable == Spec => []AckedIsDurable
<1>1. Inv => AckedIsDurable
  BY DEF Inv, Durable, AckedIsDurable
<1> QED
  BY SessionInvariant, <1>1, PTL

\* Retrying the save of an add form never makes a second entry.
THEOREM FormsNeverDuplicate == Spec => []NoDuplicateEntry
<1>1. Inv => NoDuplicateEntry
  BY DEF Inv, Forms
<1> QED
  BY SessionInvariant, <1>1, PTL
=============================================================================
