-------------------------- MODULE Frontend_proofs ---------------------------
(***************************************************************************)
(* Proofs about the state that the front ends keep between the user and the *)
(* vault: the auto-lock controller and its settings, the preference files, *)
(* the terminal, the commands and the keymap.                              *)
(***************************************************************************)
EXTENDS AutoLock, LockSettings, UserPrefs, Terminal, Cli, Keymap, FiniteSetTheorems, SequenceTheorems, TLAPS

(***************************************************************************)
(* AutoLock.                                                               *)
(*                                                                         *)
(* A tick drains the channel in a loop: by FoldFacts, a state that every   *)
(* event of the channel leaves alone is left alone by the loop.            *)
(***************************************************************************)

\* The loop of tick: its round for the i-th event.
DrainRound(queue, unused, i, st) ==
    IF queue[i] = "activity" THEN ActiveAfter(st) ELSE "locked"
IsState(k, st) == st = k
AnyOf(s) == CHOOSE x \in s : TRUE
Picking == INSTANCE FoldFacts WITH Op <- DrainRound, Good <- IsState, Pick <- AnyOf
Draining == INSTANCE FoldFacts WITH Op <- DrainRound, Good <- IsState, Pick <- Max

\* The drain loop of tick leaves a locked controller locked, and an active one
\* active if nothing but activity is in the channel.
LEMMA DrainedKeeps ==
    ASSUME NEW st, channel \in Seq({"activity", "manual", "oslock"}),
           \/ st = "locked"
           \/ st = "active" /\ \A i \in DOMAIN channel : channel[i] = "activity"
    PROVE  Drained(st) = st
<1> DEFINE S == DOMAIN channel
<1>1. Drained(st) = Draining!Fold(channel, 0, st, S)
    BY DEF Drained, FoldLeft, Draining!Fold, MapThenFoldSet, Draining!MapThenFoldSet, DrainRound
<1>2. S = 1..Len(channel) /\ Len(channel) \in Nat
    OBVIOUS
<1>3. IsFiniteSet(S)
    BY <1>2, FS_Interval
<1>4. \A s \in SUBSET S : s # {} => Max(s) \in s
  <2>1. Picking!IsFiniteSet(S) /\ Picking!PicksFrom(S) /\ S \in SUBSET Int
    BY <1>2, <1>3 DEF IsFiniteSet, Picking!IsFiniteSet, Picking!PicksFrom, AnyOf
  <2> HIDE DEF S
  <2> QED BY <2>1, Picking!GreatestAndLeast DEF Max, Picking!Max
<1>5. \A i \in S : \A v : IsState(st, v) => IsState(st, DrainRound(channel, 0, i, v))
    BY DEF IsState, DrainRound, ActiveAfter
<1>6. Draining!IsFiniteSet(S) /\ Draining!PicksFrom(S)
  <2> HIDE DEF S
  <2> QED BY <1>3, <1>4 DEF IsFiniteSet, Draining!IsFiniteSet, Draining!PicksFrom
<1>7. IsState(st, st)
    BY DEF IsState
<1> HIDE DEF S
<1>8. IsState(st, Draining!Fold(channel, 0, st, S))
    BY <1>5, <1>6, <1>7, Draining!FoldKeeps
<1> QED
    BY <1>1, <1>8 DEF IsState

-----------------------------------------------------------------------------
LockShape ==
    /\ idle \in -1..IdleTimeout
    /\ channel \in Seq({"activity", "manual", "oslock"})

\* The idle time starts at nothing, with an empty channel.
LEMMA LockShapeInit == LockInit => LockShape
BY AutoLockAssumption DEF LockInit, LockShape

\* What a tick does to the state.
LEMMA TickIsEarned ==
    ASSUME LockShape, TickController
    PROVE  /\ lockState = "locked" => lockState' = "locked"
           /\ lockState = "active" /\ lockState' # "active" =>
                 \/ \E i \in DOMAIN channel : channel[i] # "activity"
                 \/ lockState' = "expired" /\ TimeUntilLock = 0
<1> USE AutoLockAssumption
<1>1. channel \in Seq({"activity", "manual", "oslock"}) /\ idle \in -1..IdleTimeout
    BY DEF LockShape
<1>2. lockState' = IdleLogic(Drained(lockState), idle')
    BY DEF TickController
<1>3. lockState = "locked" => lockState' = "locked"
    BY <1>1, <1>2, DrainedKeeps DEF IdleLogic
<1>4. ASSUME lockState = "active", lockState' # "active",
             \A i \in DOMAIN channel : channel[i] = "activity"
      PROVE  lockState' = "expired" /\ TimeUntilLock = 0
  <2>1. Drained(lockState) = "active"
    BY <1>1, <1>4, DrainedKeeps
  <2>2. lockState' = "expired" /\ idle' >= IdleTimeout
    BY <1>2, <1>4, <2>1 DEF IdleLogic
  <2>3. channel # <<>> => Renewed
    BY <1>1, <1>4 DEF Renewed
  <2>4. idle' = idle /\ idle >= IdleTimeout
    BY <2>2, <2>3 DEF TickController
  <2> QED
    BY <1>1, <1>4, <2>2, <2>4 DEF TimeUntilLock
<1> QED
    BY <1>3, <1>4

\* Every operation of the controller and every event of a source keeps the shape.
LEMMA LockShapeStep == LockShape /\ [LockNext]_lockVars => LockShape'
<1> SUFFICES ASSUME LockShape, [LockNext]_lockVars PROVE LockShape'
    OBVIOUS
<1> USE AutoLockAssumption DEF LockShape
<1>1. CASE UNCHANGED lockVars
    BY <1>1 DEF lockVars
<1>2. CASE RegisterActivity \/ TickController \/ LockNow \/ UnlockController \/ DropController \/ DropStep \/ Sigcont
  <2>1. idle' \in {0, idle}
    BY <1>2 DEF RegisterActivity, TickController, LockNow, UnlockController, DropController, DropStep, Sigcont
  <2>2. channel' = channel \/ channel' = <<>>
    BY <1>2 DEF RegisterActivity, TickController, LockNow, UnlockController, DropController, DropStep, Sigcont
  <2>3. channel' \in Seq({"activity", "manual", "oslock"})
    <3>1. <<>> \in Seq({"activity", "manual", "oslock"})
        OBVIOUS
    <3>2. CASE channel' = channel
        BY <3>2
    <3>3. CASE channel' = <<>>
        BY <3>1, <3>3
    <3> QED
        BY <2>2, <3>2, <3>3
  <2> QED
    BY <2>1, <2>3
<1>3. CASE TimePasses
    BY <1>3 DEF TimePasses
<1>4. ASSUME NEW e \in {"activity", "manual"}, Forward(e) PROVE LockShape'
    BY <1>4 DEF Forward
<1>5. ASSUME NEW s \in Source, Attach(s) \/ OsLock(s) \/ Sigtstp(s) \/ SourceStep(s) PROVE LockShape'
    BY <1>5 DEF Attach, OsLock, Sigtstp, SourceStep, Connected, ConnectFails, StreamEnds, RaiseStop,
                SourceEnds, Moves
<1> QED
    BY <1>1, <1>2, <1>3, <1>4, <1>5 DEF LockNext

\* The controller locks for a reason - LockNow, a manual or an OS event in the
\* channel, or an idle time that has run out - and only an unlock opens it again.
THEOREM LocksAreEarned == LockSpec => LockIsEarned
<1> DEFINE Earned ==
    /\ lockState = "locked" /\ lockState' # "locked" => UnlockController
    /\ lockState = "active" /\ lockState' # "active" =>
              \/ LockNow \/ \E i \in DOMAIN channel : channel[i] # "activity"
              \/ lockState' = "expired" /\ TimeUntilLock = 0
<1>1. ASSUME LockShape, [LockNext]_lockVars PROVE Earned
  <2>1. CASE TickController
    BY <1>1, <2>1, TickIsEarned
  <2>2. CASE RegisterActivity
    BY <2>2 DEF RegisterActivity, ActiveAfter
  <2>3. CASE LockNow \/ UnlockController
    BY <2>3 DEF LockNow, UnlockController
  <2>4. CASE UNCHANGED lockState
    BY <2>4
  <2>5. TickController \/ RegisterActivity \/ LockNow \/ UnlockController \/ UNCHANGED lockState
    BY <1>1 DEF LockNext, lockVars, TimePasses, Sigcont, DropController, DropStep, Forward, Attach, OsLock,
                Sigtstp, SourceStep, Connected, ConnectFails, StreamEnds, RaiseStop, SourceEnds, Moves
  <2> QED
    BY <2>1, <2>2, <2>3, <2>4, <2>5
<1>2. LockSpec => []LockShape
    BY LockShapeInit, LockShapeStep, PTL DEF LockSpec
<1> QED
    BY <1>1, <1>2, PTL DEF LockSpec, LockIsEarned

(***************************************************************************)
(* LockSettings.                                                           *)
(*                                                                         *)
(* The controller's timeout is never zero, because whatever is written in  *)
(* the table reads as a positive number or as nothing.                     *)
(***************************************************************************)

\* A value under "lock": a table, if it is one, holds a number.
LockValueOK(x) == x.kind = "table" => x.timeout \in Int

LockInv ==
    /\ DOMAIN lockDisk = LockedVault /\ DOMAIN lockSnap = LockedVault
    /\ \A v \in LockedVault : LockValueOK(lockDisk[v]) /\ LockValueOK(lockSnap[v])
    /\ opened \in LockedVault \cup {Absent}
    /\ armed \in Nat \ {0}
    /\ ArmedIsValid

\* A vault's own timeout is used only if it is positive: lenient reading turns
\* everything else into nothing.
LEMMA OverrideIsPositive ==
  ASSUME NEW x, LockValueOK(x), Override(x) # Absent
  PROVE  Override(x) \in Nat \ {0}
<1>1. LenientTimeout(x) # 0 /\ LenientTimeout(x) # Absent /\ Override(x) = LenientTimeout(x)
  BY DEF Override
<1>2. x.kind = "table" /\ x.timeout >= 0 /\ LenientTimeout(x) = x.timeout
  BY <1>1 DEF LenientTimeout
<1>3. x.timeout \in Int
  BY <1>2 DEF LockValueOK
<1> QED BY <1>1, <1>2, <1>3

\* Arming leaves a timeout that is not zero, and that is the override if any.
LEMMA ArmedIsPositive ==
  ASSUME NEW x, LockValueOK(x), armed \in Nat \ {0}
  PROVE  /\ Armed(x) \in Nat \ {0}
         /\ Override(x) # Absent => Armed(x) = Override(x)
BY OverrideIsPositive DEF Armed

\* What applying a timeout leaves.
LEMMA ApplyKeeps ==
  ASSUME NEW x, NEW t \in Int
  PROVE  /\ LockValueOK(ApplyTimeout(x, t))
         /\ (x.kind = "table" /\ x.more) =>
              (ApplyTimeout(x, t).kind = "table" /\ ApplyTimeout(x, t).more)
         /\ ApplyTimeout(x, t) # LockTable(Absent, FALSE)
<1> DEFINE more == x.kind = "table" /\ x.more
           new == IF t = Absent THEN Absent ELSE IF t > MaxInt THEN MaxInt ELSE t
<1>0. MaxInt \in Nat
  BY LockSettingsAssumption DEF LockSettingsAssumption
<1>1. new \in Int /\ more \in BOOLEAN
  BY <1>0 DEF Absent
<1>2. ApplyTimeout(x, t) = IF new = Absent /\ ~more THEN NoTable ELSE LockTable(new, more)
  BY DEF ApplyTimeout
<1> HIDE DEF new, more
<1>3. CASE new = Absent /\ ~more
  <2>1. ApplyTimeout(x, t) = NoTable
    BY <1>2, <1>3
  <2> QED BY <1>3, <2>1 DEF NoTable, LockTable, LockValueOK, more
<1>4. CASE ~(new = Absent /\ ~more)
  <2>1. ApplyTimeout(x, t) = LockTable(new, more)
    BY <1>2, <1>4
  <2>2. LockTable(new, more).kind = "table" /\ LockTable(new, more).timeout = new
        /\ LockTable(new, more).more = more
    BY DEF LockTable
  <2>3. LockTable(Absent, FALSE).timeout = Absent /\ LockTable(Absent, FALSE).more = FALSE
    BY DEF LockTable
  <2>4. LockTable(new, more) # LockTable(Absent, FALSE)
    BY <1>1, <1>4, <2>2, <2>3
  <2>5. more <=> (x.kind = "table" /\ x.more)
    BY DEF more
  <2> QED BY <1>1, <2>1, <2>2, <2>4, <2>5 DEF LockValueOK
<1> QED BY <1>3, <1>4

\* The timeout that the settings screen cycles to is one of the cycle, so not zero.
LEMMA NextIsInCycle == ASSUME NEW t PROVE NextInCycle(t) \in Nat \ {0}
<1> DEFINE here == {i \in DOMAIN Cycle : Cycle[i] = t}
<1>0. Cycle \in Seq(Nat \ {0}) /\ Cycle # <<>>
  BY LockSettingsAssumption DEF LockSettingsAssumption
<1>1. DOMAIN Cycle = 1..Len(Cycle) /\ Len(Cycle) \in Nat /\ Len(Cycle) # 0
  BY <1>0
<1>2. \A i \in 1..Len(Cycle) : Cycle[i] \in Nat \ {0}
  BY <1>0
<1>3. CASE here = {}
  <2>1. NextInCycle(t) = Cycle[1]
    BY <1>3 DEF NextInCycle
  <2> QED BY <1>1, <1>2, <2>1
<1>4. CASE here # {}
  <2> DEFINE k == CHOOSE i \in here : TRUE
  <2>1. k \in 1..Len(Cycle)
    BY <1>1, <1>4
  <2> HIDE DEF k
  <2>2. (k % Len(Cycle)) + 1 \in 1..Len(Cycle)
    BY <1>1, <2>1
  <2>3. NextInCycle(t) = Cycle[(k % Len(Cycle)) + 1]
    BY <1>4 DEF NextInCycle, k
  <2> QED BY <1>2, <2>2, <2>3
<1> QED BY <1>3, <1>4

\* A vault without a lock table arms the controller with the default.
LEMMA LockInvInit == SettingsInit => LockInv
<1> SUFFICES ASSUME SettingsInit PROVE LockInv
  OBVIOUS
<1>1. Override(NoTable) = Absent
  BY DEF Override, LenientTimeout, NoTable, Absent
<1>2. DefaultTimeout \in Nat \ {0}
  BY LockSettingsAssumption DEF LockSettingsAssumption
<1> QED BY <1>1, <1>2 DEF SettingsInit, LockInv, LockValueOK, NoTable, ArmedIsValid

\* Every edit, save, open and arm keeps the timeout positive and equal to what the
\* opened vault says, and no save loses the table's other keys.
LEMMA LockInvStep == LockInv /\ [SettingsNext]_settingVars => LockInv' /\ KeepsLockTable
<1> SUFFICES ASSUME LockInv, [SettingsNext]_settingVars PROVE LockInv' /\ KeepsLockTable
  OBVIOUS
<1>0. MaxInt \in Nat /\ Absent \notin LockedVault /\ Absent \in Int /\ MaxInt + 1 \in Int
  BY LockSettingsAssumption DEF LockSettingsAssumption, Absent
<1>1. ASSUME UNCHANGED <<lockSnap, opened, armed>>, NEW v \in LockedVault, NEW x, LockValueOK(x),
             lockDisk' = [lockDisk EXCEPT ![v] = x]
      PROVE  LockInv'
  BY <1>1 DEF LockInv, ArmedIsValid
<1>2. ASSUME NEW v \in LockedVault, NEW t \in {Absent, 1, MaxInt + 1}, SetLock(v, t)
      PROVE  /\ LockInv'
             /\ (lockDisk[v].kind = "table" /\ lockDisk[v].more)
                  => (lockDisk'[v].kind = "table" /\ lockDisk'[v].more)
             /\ lockDisk'[v] # LockTable(Absent, FALSE)
  <2>1. lockDisk' = [lockDisk EXCEPT ![v] = ApplyTimeout(lockDisk[v], t)]
    BY <1>2 DEF SetLock
  <2>2. t \in Int
    BY <1>0
  <2>3. lockDisk'[v] = ApplyTimeout(lockDisk[v], t)
    BY <2>1 DEF LockInv
  <2>4. LockValueOK(ApplyTimeout(lockDisk[v], t))
    BY <2>2, ApplyKeeps
  <2> QED BY <1>1, <1>2, <2>1, <2>2, <2>3, <2>4, ApplyKeeps DEF SetLock
<1>3. ASSUME CycleAutoLock
      PROVE  /\ LockInv'
             /\ \A v \in LockedVault :
                  /\ (lockDisk[v].kind = "table" /\ lockDisk[v].more)
                       => (lockDisk'[v].kind = "table" /\ lockDisk'[v].more)
                  /\ lockDisk'[v] # lockDisk[v] => lockDisk'[v] # LockTable(Absent, FALSE)
  <2> DEFINE t == NextInCycle(ShownTimeout(lockSnap[opened]))
             d == [lockDisk EXCEPT ![opened] = ApplyTimeout(lockDisk[opened], t)]
  <2>1. opened \in LockedVault /\ lockDisk' = d /\ lockSnap' = d /\ armed' = Armed(d[opened])
        /\ opened' = opened
    BY <1>3 DEF CycleAutoLock, LockInv
  <2>2. t \in Int
    BY NextIsInCycle
  <2>3. /\ d[opened] = ApplyTimeout(lockDisk[opened], t) /\ DOMAIN d = LockedVault
        /\ \A v \in LockedVault \ {opened} : d[v] = lockDisk[v]
    BY <2>1 DEF LockInv
  <2> HIDE DEF t, d
  <2>4. LockValueOK(d[opened])
    BY <2>2, <2>3, ApplyKeeps
  <2>5. armed' \in Nat \ {0} /\ (Override(d[opened]) # Absent => armed' = Override(d[opened]))
    BY <2>1, <2>4, ArmedIsPositive DEF LockInv
  <2>6. ArmedIsValid'
    <3>1. armed' >= 1
      BY <2>5
    <3>2. Override(lockSnap'[opened']) = Override(d[opened])
      BY <2>1
    <3> QED BY <2>1, <2>5, <3>1, <3>2 DEF ArmedIsValid, Override, LenientTimeout
  <2>7. LockInv'
    BY <2>1, <2>3, <2>4, <2>5, <2>6 DEF LockInv
  <2>8. /\ (lockDisk[opened].kind = "table" /\ lockDisk[opened].more)
             => (d[opened].kind = "table" /\ d[opened].more)
        /\ d[opened] # LockTable(Absent, FALSE)
    <3>1. /\ (lockDisk[opened].kind = "table" /\ lockDisk[opened].more) =>
              (ApplyTimeout(lockDisk[opened], t).kind = "table" /\ ApplyTimeout(lockDisk[opened], t).more)
          /\ ApplyTimeout(lockDisk[opened], t) # LockTable(Absent, FALSE)
      BY <2>2, ApplyKeeps
    <3>2. d[opened] = ApplyTimeout(lockDisk[opened], t)
      BY <2>3
    <3> HIDE DEF ApplyTimeout
    <3> QED BY <3>1, <3>2, Zenon
  <2> QED BY <2>1, <2>3, <2>7, <2>8
<1>4. ASSUME NEW v \in LockedVault, NEW x \in HandValues, HandEdit(v, x) PROVE LockInv'
  <2>1. LockValueOK(x)
    <3>1. CASE x \in {NoTable, NotTable}
      BY <3>1 DEF LockValueOK, NoTable, NotTable
    <3>2. CASE x \notin {NoTable, NotTable}
      <4>1. PICK t \in {Absent, BadValue, -1, 0, 1}, more \in BOOLEAN : x = LockTable(t, more)
        BY <3>2 DEF HandValues
      <4>2. t \in Int
        BY DEF Absent, BadValue
      <4> QED BY <4>1, <4>2 DEF LockTable, LockValueOK
    <3> QED BY <3>1, <3>2
  <2> QED BY <1>1, <1>4, <2>1 DEF HandEdit
<1>5. ASSUME StartTui PROVE LockInv'
  <2>1. DefaultTimeout \in Nat \ {0}
    BY LockSettingsAssumption DEF LockSettingsAssumption
  <2> QED BY <1>5, <2>1 DEF StartTui, LockInv, ArmedIsValid
<1>6. ASSUME NEW v \in LockedVault, UnlockVault(v) PROVE LockInv'
  <2>1. opened' = v /\ armed' = Armed(lockSnap[v]) /\ UNCHANGED <<lockDisk, lockSnap>>
    BY <1>6 DEF UnlockVault
  <2>2. armed' \in Nat \ {0} /\ (Override(lockSnap[v]) # Absent => armed' = Override(lockSnap[v]))
    BY <2>1, ArmedIsPositive DEF LockInv
  <2>3. armed' >= 1
    BY <2>2
  <2> QED BY <2>1, <2>2, <2>3 DEF LockInv, ArmedIsValid, Override, LenientTimeout
<1>7. ASSUME LockVault PROVE LockInv'
  BY <1>7 DEF LockVault, LockInv, ArmedIsValid
<1>8. ASSUME UNCHANGED settingVars PROVE LockInv'
  BY <1>8 DEF settingVars, LockInv, ArmedIsValid, Override, LenientTimeout
<1>9. LockInv'
  BY <1>2, <1>3, <1>4, <1>5, <1>6, <1>7, <1>8 DEF SettingsNext
<1>10. KeepsLockTable
  BY <1>2, <1>3 DEF KeepsLockTable
<1> QED BY <1>9, <1>10

\* The settings screen keeps the keys of the lock table that it does not know, and
\* the controller is armed with the opened vault's own timeout if it has a valid one.
THEOREM LockTableKept == SettingsSpec => LockTableIsKept
<1>1. LockInv' => ArmedIsValid'
  BY DEF LockInv
<1>2. LockInv /\ [SettingsNext]_settingVars => [KeepsLockTable /\ ArmedIsValid']_settingVars
  BY <1>1, LockInvStep
<1> QED BY <1>1, <1>2, LockInvInit, LockInvStep, PTL DEF SettingsSpec, LockTableIsKept

(***************************************************************************)
(* UserPrefs.                                                              *)
(*                                                                         *)
(* Under the lock a session knows what is in config.toml (Knows), unless the *)
(* user has edited the file: who has the lock writes what it has read, but *)
(* for one preference.                                                     *)
(***************************************************************************)

SessionFields == {"pc", "args", "env", "conf", "effect", "theme", "light", "picked", "ui", "uiWarned",
                  "uiKeys", "vault", "change", "latest", "touched", "cfgMine", "uiMine", "keys", "strayed"}

Locked == {"recheck", "generate", "updateRead", "updateWrite"}

\* What is in config.toml for a session that changes one preference.
Present(file) == IF file.kind = "absent" THEN DefaultConf ELSE file.conf

\* What a session knows of the two files: under its lock, and unless the user
\* has edited the file meanwhile, config.toml is what it has read; and the
\* keys of another version that it has read are in its memory.
Knows(file, me) ==
  /\ DOMAIN me = SessionFields
  /\ me.pc = "generate" /\ ~me.touched => file.kind = "absent"
  /\ me.pc = "updateWrite" /\ ~me.touched =>
        MayUpdate(file) /\ me.latest = Changed(Present(file), me.change)
  /\ me.uiKeys => me.ui.extra /\ me.pc \notin {"off", "loadUi"}

PrefInv ==
  /\ DOMAIN prefs = PrefSession
  /\ \A s \in PrefSession : Knows(cfgFile, prefs[s]) /\ (prefs[s].pc \in Locked => cfgLock = s)

\* A session that is not running knows nothing of the files.
LEMMA OffKnows == \A file : Knows(file, OffSession) /\ OffSession.pc \notin Locked
BY DEF Knows, OffSession, SessionFields, Locked

\* A session without the lock knows nothing of config.toml that could change.
LEMMA UnlockedKnows ==
  ASSUME NEW file, NEW other, NEW me, Knows(file, me), me.pc \notin Locked
  PROVE  Knows(other, me)
BY DEF Knows, Locked

\* Nor does one whose fields other than these change.
LEMMA KnowsByFields ==
  ASSUME NEW file, NEW other, NEW me, NEW you, Knows(file, me),
         DOMAIN you = SessionFields, you.pc \in {"load", "generateLock", "running", "updateLock"},
         you.uiKeys = me.uiKeys, you.ui = me.ui
  PROVE  Knows(other, you) /\ you.pc \notin Locked
BY DEF Knows, Locked

\* A session that has loaded its configuration holds no lock.
LEMMA InstalledKnows ==
  ASSUME NEW file, NEW other, NEW s, NEW conf, Knows(file, prefs[s])
  PROVE  Knows(other, Installed(s, conf)) /\ Installed(s, conf).pc \notin Locked
<1> DEFINE me == prefs[s]
           eff == Effective(me.args, conf)
           new == [me EXCEPT !.pc = "running", !.conf = conf, !.effect = eff,
                     !.theme = ResolveTheme(me.env, conf, eff.theme),
                     !.light = ActiveLight(me.env, conf.mode), !.keys = conf.keymap]
<1>1. DOMAIN new = SessionFields /\ new.pc = "running" /\ new.uiKeys = me.uiKeys /\ new.ui = me.ui
  BY DEF Knows, SessionFields
<1>2. Installed(s, conf) = OffSession \/ Installed(s, conf) = new
  BY DEF Installed
<1> HIDE DEF new
<1>3. Knows(other, new) /\ new.pc \notin Locked
  BY <1>1, KnowsByFields DEF Locked
<1> QED BY <1>2, <1>3, OffKnows

\* A session whose update failed holds no lock and keeps what it has of tui.toml.
LEMMA NotChangedKnows ==
  ASSUME NEW file, NEW other, NEW me, Knows(file, me)
  PROVE  Knows(other, NotChanged(me)) /\ NotChanged(me).pc \notin Locked
<1>1. DOMAIN NotChanged(me) = SessionFields /\ NotChanged(me).pc = "running"
      /\ NotChanged(me).uiKeys = me.uiKeys /\ NotChanged(me).ui = me.ui
  BY DEF Knows, SessionFields, NotChanged
<1> QED BY <1>1, KnowsByFields DEF Locked

\* A session whose update was written holds no lock and keeps what it has of tui.toml.
LEMMA AdoptedKnows ==
  ASSUME NEW file, NEW other, NEW me, Knows(file, me)
  PROVE  Knows(other, Adopted(me)) /\ Adopted(me).pc \notin Locked
<1>1. DOMAIN Adopted(me) = SessionFields /\ Adopted(me).pc = "running"
      /\ Adopted(me).uiKeys = me.uiKeys /\ Adopted(me).ui = me.ui
  BY DEF Knows, SessionFields, NotChanged, Adopted
<1> QED BY <1>1, KnowsByFields DEF Locked

\* No session runs at first.
LEMMA PrefInvInit == PrefInit => PrefInv
BY OffKnows DEF PrefInit, PrefInv

\* A session moves and config.toml stays: the others keep what they know.
LEMMA SessionMoves ==
  ASSUME PrefInv, NEW s \in PrefSession, NEW me, prefs' = [prefs EXCEPT ![s] = me],
         Knows(cfgFile, me), cfgFile' = cfgFile,
         me.pc \in Locked => cfgLock' = s,
         \A t \in PrefSession \ {s} : cfgLock = t => cfgLock' = t
  PROVE  PrefInv'
BY DEF PrefInv

\* The lock's holder gives it up and may have written the file: nobody else
\* knew anything of it.
LEMMA HolderMoves ==
  ASSUME PrefInv, NEW s \in PrefSession, prefs[s].pc \in Locked,
         DOMAIN prefs' = PrefSession, cfgLock' = Release(s),
         \A t \in PrefSession : Knows(cfgFile', prefs'[t]),
         \A t \in PrefSession : prefs'[t].pc = prefs[t].pc \/ (t = s /\ prefs'[t].pc \notin Locked),
         prefs'[s].pc \notin Locked
  PROVE  PrefInv'
BY DEF PrefInv, Release

\* update_at, generate and UiConfig::save, each by what it leaves.
Careful == MergesEdits /\ KeepsHandWritten /\ KeepsFileAtFirstRun /\ KeepsForeignKeys

\* A step that writes neither file loses nobody's edit.
LEMMA UntouchedIsCareful == cfgFile' = cfgFile /\ uiFile' = uiFile => Careful
BY DEF Careful, MergesEdits, KeepsHandWritten, KeepsFileAtFirstRun, KeepsForeignKeys

\* Every step of a session, its end, and the user's edits by hand keep the invariant,
\* and a step that writes a file is careful of what the others have written.
LEMMA PrefInvStep == PrefInv /\ [PrefNext]_prefVars => PrefInv' /\ (Careful \/ UNCHANGED prefVars)
<1> SUFFICES ASSUME PrefInv, [PrefNext]_prefVars PROVE PrefInv' /\ (Careful \/ UNCHANGED prefVars)
  OBVIOUS
<1>0. /\ DOMAIN prefs = PrefSession
      /\ \A s \in PrefSession : Knows(cfgFile, prefs[s]) /\ (prefs[s].pc \in Locked => cfgLock = s)
  BY DEF PrefInv
<1>1. ASSUME UNCHANGED prefVars PROVE PrefInv'
  BY <1>1 DEF prefVars, PrefInv, Knows
<1>2. ASSUME EditConfigByHand PROVE PrefInv' /\ Careful
  <2>1. prefs' = [t \in PrefSession |-> [prefs[t] EXCEPT !.touched = TRUE, !.cfgMine = FALSE]]
        /\ cfgLock' = cfgLock /\ uiFile' = uiFile
    BY <1>2 DEF EditConfigByHand
  <2>2. \A t \in PrefSession :
           /\ DOMAIN prefs'[t] = SessionFields /\ prefs'[t].touched /\ prefs'[t].pc = prefs[t].pc
           /\ prefs'[t].uiKeys = prefs[t].uiKeys /\ prefs'[t].ui = prefs[t].ui
    BY <1>0, <2>1 DEF Knows, SessionFields
  <2>3. PrefInv'
    BY <1>0, <2>1, <2>2 DEF PrefInv, Knows
  <2> QED BY <2>1, <2>2, <2>3 DEF PrefAt, Careful, MergesEdits, KeepsHandWritten, KeepsFileAtFirstRun, KeepsForeignKeys
<1>3. ASSUME NEW s \in PrefSession, StartSession(s) PROVE PrefInv' /\ Careful
  <2>1. PICK launch \in Launches[s] :
           LET args == ParseArgs(launch.line) IN
           prefs' = [prefs EXCEPT ![s] =
                   IF args.outcome # "run" THEN OffSession
                   ELSE [OffSession EXCEPT !.args = args, !.env = launch.env, !.pc = FirstStep(args)]]
    BY <1>3 DEF StartSession
  <2> DEFINE args == ParseArgs(launch.line)
             on == [OffSession EXCEPT !.args = args, !.env = launch.env, !.pc = FirstStep(args)]
             me == IF args.outcome # "run" THEN OffSession ELSE on
  <2>2. DOMAIN on = SessionFields /\ on.pc \notin Locked /\ on.uiKeys = FALSE
    BY DEF OffSession, SessionFields, FirstStep, Locked
  <2> HIDE DEF on
  <2>3. Knows(cfgFile, on)
    BY <2>2 DEF Knows, Locked
  <2>4. Knows(cfgFile, me) /\ me.pc \notin Locked
    BY <2>2, <2>3, OffKnows
  <2>5. prefs' = [prefs EXCEPT ![s] = me]
    BY <2>1 DEF on
  <2> HIDE DEF me
  <2>6. UNCHANGED <<cfgFile, cfgLock, uiFile>>
    BY <1>3 DEF StartSession
  <2> QED BY <2>4, <2>5, <2>6, SessionMoves, UntouchedIsCareful
<1>4. ASSUME NEW s \in PrefSession, LoadUi(s) PROVE PrefInv' /\ Careful
  <2>1. UNCHANGED <<cfgFile, cfgLock, uiFile>>
    BY <1>4 DEF LoadUi
  <2>2. ASSUME NEW ui, NEW warned, NEW keys, keys => ui.extra,
               prefs' = [prefs EXCEPT ![s].pc = "load", ![s].ui = ui, ![s].uiWarned = warned, ![s].uiKeys = keys]
        PROVE  PrefInv'
    <3> DEFINE me == [prefs[s] EXCEPT !.pc = "load", !.ui = ui, !.uiWarned = warned, !.uiKeys = keys]
    <3>1. DOMAIN me = SessionFields /\ me.pc = "load" /\ me.ui = ui /\ me.uiKeys = keys
      BY <1>0 DEF Knows, SessionFields
    <3>2. prefs' = [prefs EXCEPT ![s] = me]
      BY <1>0, <2>2
    <3> HIDE DEF me
    <3>3. Knows(cfgFile, me)
      BY <2>2, <3>1 DEF Knows
    <3> QED BY <2>1, <3>1, <3>2, <3>3, SessionMoves DEF Locked
  <2>3. CASE prefs' = [prefs EXCEPT ![s].pc = "load", ![s].ui = ParseUi(uiFile),
                                    ![s].uiWarned = uiFile.kind = "garbage",
                                    ![s].uiKeys = uiFile.kind = "toml" /\ uiFile.extra]
    <3>1. (uiFile.kind = "toml" /\ uiFile.extra) => ParseUi(uiFile).extra
      BY DEF ParseUi
    <3> QED BY <2>1, <2>2, <2>3, <3>1, UntouchedIsCareful
  <2>4. CASE prefs' = [prefs EXCEPT ![s].pc = "load", ![s].ui = EmptyUi, ![s].uiWarned = TRUE]
    <3> DEFINE me == [prefs[s] EXCEPT !.pc = "load", !.ui = EmptyUi, !.uiWarned = TRUE]
    <3>1. DOMAIN me = SessionFields /\ me.pc = "load" /\ me.uiKeys = prefs[s].uiKeys
      BY <1>0 DEF Knows, SessionFields
    <3>2. prefs' = [prefs EXCEPT ![s] = me]
      BY <1>0, <2>4
    <3>3. ~prefs[s].uiKeys
      BY <1>0, <1>4 DEF LoadUi, PrefAt, Knows
    <3> HIDE DEF me
    <3>4. Knows(cfgFile, me) /\ me.pc \notin Locked
      BY <3>1, <3>3 DEF Knows, Locked
    <3> QED BY <2>1, <3>2, <3>4, SessionMoves, UntouchedIsCareful
  <2> QED BY <1>4, <2>3, <2>4 DEF LoadUi
<1>5. ASSUME NEW s \in PrefSession, NEW you,
             DOMAIN you = SessionFields, you.pc \in {"load", "generateLock", "running", "updateLock"},
             you.uiKeys = prefs[s].uiKeys, you.ui = prefs[s].ui,
             prefs' = [prefs EXCEPT ![s] = you], UNCHANGED <<cfgFile, cfgLock>>
      PROVE  PrefInv'
  BY <1>0, <1>5, KnowsByFields, SessionMoves
<1>6. ASSUME NEW s \in PrefSession, NEW me, Knows(cfgFile, me), me.pc \notin Locked,
             prefs' = [prefs EXCEPT ![s] = me], cfgFile' = cfgFile, uiFile' = uiFile,
             cfgLock' = cfgLock \/ cfgLock' = Release(s)
      PROVE  PrefInv' /\ Careful
  BY <1>6, SessionMoves, UntouchedIsCareful DEF Release
<1>7. ASSUME NEW s \in PrefSession, LoadConfig(s) PROVE PrefInv' /\ Careful
  <2>1. UNCHANGED <<cfgFile, cfgLock, uiFile>>
    BY <1>7 DEF LoadConfig
  <2>2. CASE prefs' = [prefs EXCEPT ![s] = [prefs[s] EXCEPT !.pc = "generateLock"]]
    <3> DEFINE you == [prefs[s] EXCEPT !.pc = "generateLock"]
    <3>1. DOMAIN you = SessionFields /\ you.pc = "generateLock" /\ you.uiKeys = prefs[s].uiKeys
          /\ you.ui = prefs[s].ui
      BY <1>0 DEF Knows, SessionFields
    <3> HIDE DEF you
    <3>2. prefs' = [prefs EXCEPT ![s] = you]
      BY <2>2 DEF you
    <3> QED BY <1>5, <2>1, <3>1, <3>2, UntouchedIsCareful
  <2>3. ASSUME NEW conf, prefs' = [prefs EXCEPT ![s] = Installed(s, conf)] PROVE PrefInv' /\ Careful
    <3>1. Knows(cfgFile, Installed(s, conf)) /\ Installed(s, conf).pc \notin Locked
      BY <1>0, InstalledKnows
    <3> QED BY <1>6, <2>1, <2>3, <3>1
  <2> QED BY <1>7, <2>2, <2>3 DEF LoadConfig
<1>8. ASSUME NEW s \in PrefSession, LockToGenerate(s) PROVE PrefInv' /\ Careful
  <2>1. CASE cfgLock = Free
    <3> DEFINE me == [prefs[s] EXCEPT !.pc = "recheck"]
    <3>1. DOMAIN me = SessionFields /\ me.pc = "recheck" /\ me.uiKeys = prefs[s].uiKeys
          /\ me.ui = prefs[s].ui
      BY <1>0 DEF Knows, SessionFields
    <3>2. prefs' = [prefs EXCEPT ![s] = me] /\ cfgLock' = s /\ UNCHANGED <<cfgFile, uiFile>>
      BY <1>0, <1>8, <2>1 DEF LockToGenerate
    <3> HIDE DEF me
    <3>3. Knows(cfgFile, me)
      BY <1>0, <3>1 DEF Knows
    <3> QED BY <2>1, <3>2, <3>3, SessionMoves, UntouchedIsCareful, UserPrefsAssumption DEF UserPrefsAssumption
  <2>2. CASE cfgLock # Free
    <3>1. Knows(cfgFile, Installed(s, DefaultConf)) /\ Installed(s, DefaultConf).pc \notin Locked
      BY <1>0, InstalledKnows
    <3> QED BY <1>6, <1>8, <2>2, <3>1 DEF LockToGenerate
  <2> QED BY <2>1, <2>2
<1>9. ASSUME NEW s \in PrefSession, Recheck(s) PROVE PrefInv' /\ Careful
  <2>0. UNCHANGED <<cfgFile, uiFile>> /\ cfgLock = s
    BY <1>0, <1>9 DEF Recheck, PrefAt, Locked
  <2>1. CASE cfgFile.kind = "absent"
    <3> DEFINE me == [prefs[s] EXCEPT !.pc = "generate", !.touched = FALSE]
    <3>1. DOMAIN me = SessionFields /\ me.pc = "generate" /\ me.uiKeys = prefs[s].uiKeys
          /\ me.ui = prefs[s].ui
      BY <1>0 DEF Knows, SessionFields
    <3>2. prefs' = [prefs EXCEPT ![s] = me] /\ cfgLock' = cfgLock
      BY <1>9, <2>1 DEF Recheck
    <3> HIDE DEF me
    <3>3. Knows(cfgFile, me)
      BY <1>0, <2>1, <3>1 DEF Knows
    <3> QED BY <2>0, <3>2, <3>3, SessionMoves, UntouchedIsCareful
  <2>2. ASSUME NEW conf, prefs' = [prefs EXCEPT ![s] = Installed(s, conf)], cfgLock' = Release(s)
        PROVE  PrefInv' /\ Careful
    <3>1. Knows(cfgFile, Installed(s, conf)) /\ Installed(s, conf).pc \notin Locked
      BY <1>0, InstalledKnows
    <3> QED BY <1>6, <2>0, <2>2, <3>1
  <2> QED BY <1>9, <2>1, <2>2 DEF Recheck
<1>10. ASSUME NEW s \in PrefSession, prefs[s].pc \in Locked, cfgLock' = Release(s), uiFile' = uiFile,
              NEW me, \A file : Knows(file, me), me.pc \notin Locked,
              \/ prefs' = [prefs EXCEPT ![s] = me] /\ cfgFile' = cfgFile
              \/ prefs' = [t \in PrefSession |->
                              [[prefs EXCEPT ![s] = me][t] EXCEPT !.cfgMine = FALSE]]
              \/ prefs' = [t \in PrefSession |->
                              [[prefs EXCEPT ![s] = me][t] EXCEPT !.cfgMine = (t = s)]]
       PROVE  PrefInv' /\ \A t \in PrefSession \ {s} : prefs'[t].pc = prefs[t].pc
  <2>1. CASE prefs' = [prefs EXCEPT ![s] = me] /\ cfgFile' = cfgFile
    BY <1>0, <1>10, <2>1, SessionMoves DEF Release
  <2>2. ASSUME DOMAIN prefs' = PrefSession, \E c : prefs'[s] = [me EXCEPT !.cfgMine = c],
               \A t \in PrefSession \ {s} : \E c : prefs'[t] = [prefs[t] EXCEPT !.cfgMine = c]
        PROVE  PrefInv' /\ \A t \in PrefSession \ {s} : prefs'[t].pc = prefs[t].pc
    <3>2. \A t \in PrefSession \ {s} : Knows(cfgFile', prefs'[t]) /\ prefs'[t].pc = prefs[t].pc
      <4> SUFFICES ASSUME NEW t \in PrefSession \ {s}
                   PROVE  Knows(cfgFile', prefs'[t]) /\ prefs'[t].pc = prefs[t].pc
        OBVIOUS
      <4>1. prefs[t].pc \notin Locked
        BY <1>0, <1>10
      <4>2. Knows(cfgFile', prefs[t])
        BY <1>0, <4>1, UnlockedKnows
      <4>3. PICK c : prefs'[t] = [prefs[t] EXCEPT !.cfgMine = c]
        BY <2>2
      <4> QED BY <4>2, <4>3 DEF Knows, SessionFields
    <3>3. Knows(cfgFile', me)
      BY <1>10
    <3>4. Knows(cfgFile', prefs'[s]) /\ prefs'[s].pc = me.pc
      BY <2>2, <3>3 DEF Knows, SessionFields
    <3>5. \A t \in PrefSession : Knows(cfgFile', prefs'[t])
      BY <3>2, <3>4
    <3>6. \A t \in PrefSession : prefs'[t].pc = prefs[t].pc \/ (t = s /\ prefs'[t].pc \notin Locked)
      BY <1>10, <3>2, <3>4
    <3>7. prefs'[s].pc \notin Locked
      BY <1>10, <3>4
    <3>8. PrefInv'
      BY <1>10, <2>2, <3>5, <3>6, <3>7, HolderMoves
    <3> QED BY <3>2, <3>8
  <2>3. CASE prefs' = [t \in PrefSession |-> [[prefs EXCEPT ![s] = me][t] EXCEPT !.cfgMine = FALSE]]
    BY <1>0, <2>2, <2>3
  <2>4. CASE prefs' = [t \in PrefSession |-> [[prefs EXCEPT ![s] = me][t] EXCEPT !.cfgMine = (t = s)]]
    <3>1. DOMAIN prefs' = PrefSession /\ prefs'[s] = [me EXCEPT !.cfgMine = TRUE]
      BY <1>0, <2>4
    <3>2. \A t \in PrefSession \ {s} : prefs'[t] = [prefs[t] EXCEPT !.cfgMine = FALSE]
      BY <1>0, <2>4
    <3> QED BY <2>2, <3>1, <3>2
  <2> QED BY <1>10, <2>1, <2>3, <2>4
<1>11. ASSUME NEW s \in PrefSession, Generate(s) PROVE PrefInv' /\ Careful
  <2> DEFINE me == Installed(s, DefaultConf)
  <2>0. /\ cfgLock' = Release(s) /\ uiFile' = uiFile /\ cfgFile' \in {cfgFile, Catalog}
        /\ prefs[s].pc = "generate" /\ cfgLock = s /\ Knows(cfgFile, prefs[s])
    BY <1>0, <1>11 DEF Generate, PrefAt, Locked
  <2>1. (\A file : Knows(file, me)) /\ me.pc \notin Locked
    BY <2>0, InstalledKnows
  <2> HIDE DEF me
  <2>2. \/ prefs' = [prefs EXCEPT ![s] = me] /\ cfgFile' = cfgFile
        \/ prefs' = [t \in PrefSession |-> [[prefs EXCEPT ![s] = me][t] EXCEPT !.cfgMine = FALSE]]
    BY <1>11 DEF Generate, me
  <2>3. PrefInv' /\ \A t \in PrefSession \ {s} : prefs'[t].pc = prefs[t].pc
    BY <1>10, <2>0, <2>1, <2>2 DEF Locked
  <2>4. ~prefs[s].touched => cfgFile.kind = "absent"
    BY <2>0 DEF Knows
  <2>5. MergesEdits
    BY <2>0, <2>3 DEF MergesEdits, PrefAt
  <2>6. KeepsHandWritten
    BY <2>0, <2>4 DEF KeepsHandWritten
  <2>7. KeepsFileAtFirstRun
    BY <2>3, <2>4 DEF KeepsFileAtFirstRun, PrefAt
  <2> QED BY <2>0, <2>3, <2>5, <2>6, <2>7 DEF Careful, KeepsForeignKeys
<1>12. ASSUME NEW s \in PrefSession, UnlockFor(s) PROVE PrefInv' /\ Careful
  <2>1. PICK v \in RegisteredVaults : prefs' = [prefs EXCEPT ![s].vault = v]
    BY <1>12 DEF UnlockFor
  <2> DEFINE you == [prefs[s] EXCEPT !.vault = v]
  <2>2. DOMAIN you = SessionFields /\ you.pc = "running" /\ you.uiKeys = prefs[s].uiKeys
        /\ you.ui = prefs[s].ui
    BY <1>0, <1>12 DEF Knows, SessionFields, UnlockFor, PrefAt
  <2>3. prefs' = [prefs EXCEPT ![s] = you]
    BY <1>0, <2>1
  <2> HIDE DEF you
  <2> QED BY <1>5, <1>12, <2>2, <2>3, UntouchedIsCareful DEF UnlockFor
<1>13. ASSUME NEW s \in PrefSession, ActivateRow(s) PROVE PrefInv' /\ Careful
  <2>1. PICK row \in {0, 1, 3, 4} :
           prefs' = [prefs EXCEPT ![s].pc = "updateLock", ![s].change = ChangeOf(prefs[s], row)]
    BY <1>13 DEF ActivateRow
  <2> DEFINE you == [prefs[s] EXCEPT !.pc = "updateLock", !.change = ChangeOf(prefs[s], row)]
  <2>2. DOMAIN you = SessionFields /\ you.pc = "updateLock" /\ you.uiKeys = prefs[s].uiKeys
        /\ you.ui = prefs[s].ui
    BY <1>0 DEF Knows, SessionFields
  <2>3. prefs' = [prefs EXCEPT ![s] = you]
    BY <1>0, <2>1
  <2> HIDE DEF you
  <2> QED BY <1>5, <1>13, <2>2, <2>3, UntouchedIsCareful DEF ActivateRow
<1>14. ASSUME NEW s \in PrefSession, LockToUpdate(s) PROVE PrefInv' /\ Careful
  <2>1. CASE cfgLock = Free
    <3> DEFINE me == [prefs[s] EXCEPT !.pc = "updateRead"]
    <3>1. DOMAIN me = SessionFields /\ me.pc = "updateRead" /\ me.uiKeys = prefs[s].uiKeys
          /\ me.ui = prefs[s].ui
      BY <1>0 DEF Knows, SessionFields
    <3>2. prefs' = [prefs EXCEPT ![s] = me] /\ cfgLock' = s /\ UNCHANGED <<cfgFile, uiFile>>
      BY <1>0, <1>14, <2>1 DEF LockToUpdate
    <3> HIDE DEF me
    <3>3. Knows(cfgFile, me)
      BY <1>0, <3>1 DEF Knows
    <3> QED BY <2>1, <3>2, <3>3, SessionMoves, UntouchedIsCareful, UserPrefsAssumption DEF UserPrefsAssumption
  <2>2. CASE cfgLock # Free
    <3>1. Knows(cfgFile, NotChanged(prefs[s])) /\ NotChanged(prefs[s]).pc \notin Locked
      BY <1>0, NotChangedKnows
    <3> QED BY <1>6, <1>14, <2>2, <3>1 DEF LockToUpdate
  <2> QED BY <2>1, <2>2
<1>15. ASSUME NEW s \in PrefSession, ReadToUpdate(s) PROVE PrefInv' /\ Careful
  <2>0. UNCHANGED <<cfgFile, uiFile>> /\ cfgLock = s
    BY <1>0, <1>15 DEF ReadToUpdate, PrefAt, Locked
  <2>1. CASE /\ MayUpdate(cfgFile) /\ cfgLock' = cfgLock
             /\ prefs' = [prefs EXCEPT ![s] = [prefs[s] EXCEPT !.pc = "updateWrite", !.touched = FALSE,
                             !.latest = Changed(Latest(s), prefs[s].change)]]
    <3> DEFINE me == [prefs[s] EXCEPT !.pc = "updateWrite", !.touched = FALSE,
                             !.latest = Changed(Latest(s), prefs[s].change)]
    <3>1. /\ DOMAIN me = SessionFields /\ me.pc = "updateWrite" /\ me.uiKeys = prefs[s].uiKeys
          /\ me.ui = prefs[s].ui /\ me.latest = Changed(Latest(s), prefs[s].change)
          /\ me.change = prefs[s].change
      BY <1>0 DEF Knows, SessionFields
    <3>2. prefs' = [prefs EXCEPT ![s] = me]
      BY <2>1
    <3> HIDE DEF me
    <3>3. Latest(s) = Present(cfgFile)
      BY DEF Latest, Present
    <3>4. Knows(cfgFile, me)
      BY <1>0, <2>1, <3>1, <3>3 DEF Knows
    <3> QED BY <2>0, <2>1, <3>2, <3>4, SessionMoves, UntouchedIsCareful
  <2>2. CASE prefs' = [prefs EXCEPT ![s] = NotChanged(prefs[s])] /\ cfgLock' = Release(s)
    <3>1. Knows(cfgFile, NotChanged(prefs[s])) /\ NotChanged(prefs[s]).pc \notin Locked
      BY <1>0, NotChangedKnows
    <3> QED BY <1>6, <2>0, <2>2, <3>1
  <2> QED BY <1>15, <2>1, <2>2 DEF ReadToUpdate
<1>16. ASSUME NEW s \in PrefSession, WriteUpdate(s) PROVE PrefInv' /\ Careful
  <2> DEFINE written == OnDisk(prefs[s].latest)
  <2>0. /\ cfgLock' = Release(s) /\ uiFile' = uiFile /\ cfgFile' \in {cfgFile, written}
        /\ prefs[s].pc = "updateWrite" /\ cfgLock = s /\ Knows(cfgFile, prefs[s])
    BY <1>0, <1>16 DEF WriteUpdate, PrefAt, Locked
  <2>1. PrefInv' /\ \A t \in PrefSession \ {s} : prefs'[t].pc = prefs[t].pc
    <3>1. CASE prefs' = Wrote([prefs EXCEPT ![s] = Adopted(prefs[s])], s, "cfgMine")
      <4>1. (\A file : Knows(file, Adopted(prefs[s]))) /\ Adopted(prefs[s]).pc \notin Locked
        BY <2>0, AdoptedKnows
      <4>2. prefs' = [t \in PrefSession |->
                        [[prefs EXCEPT ![s] = Adopted(prefs[s])][t] EXCEPT !.cfgMine = (t = s)]]
        BY <3>1 DEF Wrote
      <4> QED BY <1>10, <2>0, <4>1, <4>2 DEF Locked
    <3>2. CASE \/ prefs' = [prefs EXCEPT ![s] = NotChanged(prefs[s])] /\ cfgFile' = cfgFile
               \/ prefs' = [t \in PrefSession |->
                       [[prefs EXCEPT ![s] = NotChanged(prefs[s])][t] EXCEPT !.cfgMine = FALSE]]
      <4>1. (\A file : Knows(file, NotChanged(prefs[s]))) /\ NotChanged(prefs[s]).pc \notin Locked
        BY <2>0, NotChangedKnows
      <4> QED BY <1>10, <2>0, <3>2, <4>1 DEF Locked
    <3> QED BY <1>16, <3>1, <3>2 DEF WriteUpdate
  <2>2. ~prefs[s].touched => MayUpdate(cfgFile) /\ prefs[s].latest = Changed(Present(cfgFile), prefs[s].change)
    BY <2>0 DEF Knows
  <2>3. MergesEdits
    BY <2>0, <2>1, <2>2 DEF MergesEdits, PrefAt, Present, OnDisk
  <2>4. KeepsHandWritten
    BY <2>0, <2>2 DEF KeepsHandWritten, MayUpdate, Strict
  <2>5. KeepsFileAtFirstRun
    BY <2>0, <2>1 DEF KeepsFileAtFirstRun, PrefAt
  <2> QED BY <2>0, <2>1, <2>3, <2>4, <2>5 DEF Careful, KeepsForeignKeys
<1>17. ASSUME NEW s \in PrefSession, SaveUi(s) PROVE PrefInv' /\ Careful
  <2>1. PICK pins \in {"one", "two"} :
           LET ui == [prefs[s].ui EXCEPT !.pins[prefs[s].vault] = pins]
               mine == [prefs EXCEPT ![s].ui = ui]
           IN \/ uiFile' = UiOnDisk(ui) /\ prefs' = Wrote(mine, s, "uiMine")
              \/ prefs' = [mine EXCEPT ![s].uiMine = FALSE] /\ uiFile' = uiFile
    BY <1>17 DEF SaveUi
  <2> DEFINE ui == [prefs[s].ui EXCEPT !.pins[prefs[s].vault] = pins]
             you == [prefs[s] EXCEPT !.ui = ui]
  <2>2. prefs[s].pc = "running" /\ UNCHANGED <<cfgFile, cfgLock>>
    BY <1>17 DEF SaveUi, PrefAt
  <2>3. prefs[s].uiKeys => ui.extra
    BY <1>0 DEF Knows
  <2>4. Knows(cfgFile, you) /\ you.pc = "running" /\ you.uiKeys = prefs[s].uiKeys /\ DOMAIN you = SessionFields
    <3> HIDE DEF ui
    <3> QED BY <1>0, <2>2, <2>3 DEF Knows, SessionFields
  <2>5. [prefs EXCEPT ![s].ui = ui] = [prefs EXCEPT ![s] = you]
    BY <1>0
  <2>6. CASE prefs' = [[prefs EXCEPT ![s] = you] EXCEPT ![s].uiMine = FALSE] /\ uiFile' = uiFile
    <3> DEFINE me == [you EXCEPT !.uiMine = FALSE]
    <3>1. prefs' = [prefs EXCEPT ![s] = me]
      BY <1>0, <2>6
    <3> HIDE DEF ui, you
    <3>2. Knows(cfgFile, me) /\ me.pc \notin Locked
      BY <2>4 DEF Knows, SessionFields, Locked
    <3> QED BY <1>6, <2>2, <2>6, <3>1, <3>2
  <2>7. CASE uiFile' = UiOnDisk(ui) /\ prefs' = Wrote([prefs EXCEPT ![s] = you], s, "uiMine")
    <3>1. /\ DOMAIN prefs' = PrefSession /\ prefs'[s] = [you EXCEPT !.uiMine = TRUE]
          /\ \A t \in PrefSession \ {s} : prefs'[t] = [prefs[t] EXCEPT !.uiMine = FALSE]
      BY <1>0, <2>7 DEF Wrote
    <3> HIDE DEF you
    <3>2. Knows(cfgFile, prefs'[s]) /\ prefs'[s].pc = "running"
      BY <2>4, <3>1 DEF Knows, SessionFields
    <3>3. \A t \in PrefSession \ {s} : Knows(cfgFile, prefs'[t]) /\ prefs'[t].pc = prefs[t].pc /\ ~prefs'[t].uiMine
      BY <1>0, <3>1 DEF Knows, SessionFields
    <3>4. PrefInv'
      BY <1>0, <2>2, <3>1, <3>2, <3>3 DEF PrefInv, Locked
    <3>5. uiFile'.kind = "toml" /\ uiFile'.extra = ui.extra
      BY <2>7 DEF UiOnDisk
    <3>6. KeepsForeignKeys
      <4> HIDE DEF ui
      <4> QED BY <2>3, <3>3, <3>5 DEF KeepsForeignKeys
    <3> QED BY <2>2, <3>4, <3>6 DEF Careful, MergesEdits, KeepsHandWritten, KeepsFileAtFirstRun
  <2>8. \/ prefs' = [[prefs EXCEPT ![s] = you] EXCEPT ![s].uiMine = FALSE] /\ uiFile' = uiFile
        \/ uiFile' = UiOnDisk(ui) /\ prefs' = Wrote([prefs EXCEPT ![s] = you], s, "uiMine")
    BY <2>1, <2>5
  <2> QED BY <2>6, <2>7, <2>8
<1>18. ASSUME NEW s \in PrefSession, EndSession(s) PROVE PrefInv' /\ Careful
  <2>1. prefs' = [prefs EXCEPT ![s] = OffSession] /\ cfgLock' = Release(s) /\ UNCHANGED <<cfgFile, uiFile>>
    BY <1>18 DEF EndSession
  <2> QED BY <1>6, <2>1, OffKnows
<1> QED BY <1>1, <1>2, <1>3, <1>4, <1>7, <1>8, <1>9, <1>11, <1>12, <1>13, <1>14, <1>15, <1>16, <1>17, <1>18
        DEF PrefNext

\* Of the known preferences a Settings change alters one in the latest config.toml,
\* whatever other sessions write at once; generate writes only when there is no
\* file, a file that cannot be read back is not overwritten, and a save of tui.toml
\* keeps the keys of another version that the session has found in it.
THEOREM SavesKeepWhatIsKnown == PrefSpec => SavesKeepWhatTheyKnow
<1>1. PrefInv /\ [PrefNext]_prefVars => [Careful]_prefVars
  BY PrefInvStep
<1>2. PrefInv /\ [PrefNext]_prefVars => PrefInv'
  BY PrefInvStep
<1> QED BY <1>1, <1>2, PrefInvInit, PTL DEF PrefSpec, SavesKeepWhatTheyKnow, Careful

(***************************************************************************)
(* What a session works with.  SessionInv has, for every session and not   *)
(* only for those whose screen is up, what its flags and environment asked *)
(* for, that its preferences are within range, and that a file it was the  *)
(* last to write reads as what it has in memory (Holds).                   *)
(***************************************************************************)

\* The preferences of config.toml that the model has.
ConfFields == {"mouse", "sort", "unlock", "leave", "dark", "light", "mode", "scope", "ratio", "keymap"}

\* Preferences that the screen can rely on.
ConfOK(c) ==
    /\ c = [f \in ConfFields |-> c[f]]
    /\ c.scope \in {"all", "group", "tag"} /\ c.ratio \in TreeRatioMin..TreeRatioMax

\* A file that can be read, whatever it says.
FileOK(file) == DOMAIN file.conf = ConfFields /\ file.conf.ratio \in Int

\* The phases of a session that has its configuration.
Ready == {"running", "updateLock", "updateRead", "updateWrite"}

\* What the flags and the environment of a session promise of its screen.
ThemeOK(env, flag, picked, theme) ==
    /\ IsBuiltin(flag) /\ ~picked /\ ~ForcesMonochrome(env) => theme.name = flag
    /\ ForcesMonochrome(env) => theme = Accessible
    /\ theme.palette.tier \in {ColorTier(env), "Monochrome"}
    /\ theme.palette.tier = "Color16" => \A slot \in Slots : theme.palette.colors[slot] = ANSI

\* What the flags promise of the whole session.
FlagsOK(me) ==
    /\ me.args.noMouse => ~me.effect.mouse
    /\ me.args.readOnly => me.effect.readOnly
    /\ ThemeOK(me.env, me.args.value["--theme"], me.picked, me.theme)

\* A session and the two files: what it works with, and what it finds again.
Holds(cfg, ui, me) ==
    /\ ConfOK(me.conf) /\ ConfOK(me.latest)
    /\ me.ui = [pins |-> me.ui.pins, extra |-> me.ui.extra]
    /\ me.pc \in Ready => FlagsOK(me)
    /\ me.pc \in Ready \ {"running"} => me.change.field \in {"sort", "dark", "light", "unlock", "leave"}
    /\ me.picked => me.pc \in Ready
    /\ me.cfgMine => me.pc \in Ready /\ cfg.kind = "toml" /\ ParseAndClamp(cfg) = me.conf
    /\ me.uiMine => me.pc \in Ready /\ ParseUi(ui) = me.ui

\* Every session and the files.
SessionInv ==
    /\ PrefInv
    /\ FileOK(cfgFile) /\ cfgLock \in PrefSession \cup {Free}
    /\ \A s \in PrefSession : Holds(cfgFile, uiFile, prefs[s])

\* The defaults are within range, and so is the catalog of the first run.
LEMMA DefaultIsOK == ConfOK(DefaultConf) /\ FileOK(AbsentCfg) /\ FileOK(Catalog)
BY DEF ConfOK, FileOK, ConfFields, DefaultConf, AbsentCfg, Catalog, TreeRatioMin, TreeRatioMax

\* Whatever config.toml says, what is read of it is within range.
LEMMA ReadingClamps ==
    ASSUME NEW file, FileOK(file)
    PROVE  ConfOK(ParseAndClamp(file))
<1>1. ASSUME NEW c, DOMAIN c = ConfFields, c.ratio \in Int PROVE ConfOK(ClampConf(c))
  <2> DEFINE d == ClampConf(c)
  <2>1. d = [f \in ConfFields |-> d[f]]
    BY <1>1 DEF ClampConf
  <2>2. d.scope = IF c.scope \in {"all", "group", "tag"} THEN c.scope ELSE "all"
    BY <1>1 DEF ClampConf, ConfFields
  <2>3. d.ratio = IF c.ratio < TreeRatioMin THEN TreeRatioMin
                         ELSE IF c.ratio > TreeRatioMax THEN TreeRatioMax ELSE c.ratio
    BY <1>1 DEF ClampConf, ConfFields
  <2> HIDE DEF d
  <2>4. d.ratio \in TreeRatioMin..TreeRatioMax
    BY <1>1, <2>3 DEF TreeRatioMin, TreeRatioMax
  <2>5. d.scope \in {"all", "group", "tag"}
    BY <2>2
  <2>6. ConfOK(d)
    BY <2>1, <2>4, <2>5 DEF ConfOK
  <2> QED BY <2>6 DEF d
<1> QED BY <1>1, DefaultIsOK DEF FileOK, ParseAndClamp

\* clamp leaves what is within range alone.
LEMMA ClampedStays ==
    ASSUME NEW c, ConfOK(c)
    PROVE  ClampConf(c) = c
<1>1. DOMAIN c = ConfFields /\ c.scope \in {"all", "group", "tag"}
      /\ ~(c.ratio < TreeRatioMin) /\ ~(c.ratio > TreeRatioMax)
  BY DEF ConfOK, TreeRatioMin, TreeRatioMax
<1>2. ClampConf(c) = [c EXCEPT !.scope = c.scope, !.ratio = c.ratio]
  BY <1>1 DEF ClampConf, ConfFields
<1>3. c = [f \in ConfFields |-> c[f]]
  BY DEF ConfOK
<1>4. [c EXCEPT !.scope = c.scope, !.ratio = c.ratio] = [f \in ConfFields |-> c[f]]
  BY <1>1
<1> QED BY <1>2, <1>3, <1>4

\* A Settings row changes neither the scope nor the ratio.
LEMMA ChangedIsOK ==
    ASSUME NEW c, ConfOK(c), NEW change,
           change.field \in {"sort", "dark", "light", "unlock", "leave"}
    PROVE  ConfOK(Changed(c, change))
BY DEF ConfOK, Changed, ConfFields

\* Each theme that a session can be given is what its flags and environment ask for.
LEMMA ResolvedIsOK ==
    ASSUME NEW env, NEW conf, NEW flag
    PROVE  ThemeOK(env, flag, FALSE, ResolveTheme(env, conf, flag))
<1>1. CASE ForcesMonochrome(env)
  BY <1>1 DEF ThemeOK, ResolveTheme, Accessible, Palette
<1>2. CASE ~ForcesMonochrome(env)
  <2> DEFINE light == WantsLight(env, conf.mode)
             name == ChosenName(env, conf, flag)
             def == DefOf(name, light)
  <2>1. ResolveTheme(env, conf, flag) = ThemeForTier(def, ColorTier(env))
    BY <1>2 DEF ResolveTheme
  <2>2. \A slot \in Slots : def.color16[slot] = ANSI
    <3>1. \A n : \A slot \in Slots : Builtin(n).color16[slot] = ANSI
      BY DEF Builtin
    <3>2. ASSUME NEW base, NEW over, NEW n, \A slot \in Slots : base.color16[slot] = ANSI,
                 DOMAIN base = {"name", "monochrome", "truecolor", "color16"}
          PROVE  \A slot \in Slots : [ApplyPatch(base, over) EXCEPT !.name = n].color16[slot] = ANSI
      <4>1. [ApplyPatch(base, over) EXCEPT !.name = n].color16 = PatchedColor16(base, over)
        BY <3>2 DEF ApplyPatch
      <4>2. \A slot \in Slots : PatchedColor16(base, over)[slot] = ANSI
        BY <3>2 DEF PatchedColor16, ClampAnsi16
      <4> QED BY <4>1, <4>2
    <3>3. \A n : DOMAIN Builtin(n) = {"name", "monochrome", "truecolor", "color16"}
      BY DEF Builtin
    <3> QED BY <3>1, <3>2, <3>3 DEF DefOf
  <2>3. IsBuiltin(flag) => def.name = flag
    <3>1. IsBuiltin(flag) => name = flag
      BY UserPrefsAssumption DEF UserPrefsAssumption, ChosenName
    <3>2. \A n : Builtin(n).name = n
      BY DEF Builtin
    <3> QED BY <3>1, <3>2 DEF DefOf
  <2> HIDE DEF def
  <2>4. ThemeForTier(def, ColorTier(env)).name = def.name
    BY DEF ThemeForTier
  <2>5. /\ ThemeForTier(def, ColorTier(env)).palette.tier \in {ColorTier(env), "Monochrome"}
        /\ ThemeForTier(def, ColorTier(env)).palette.tier = "Color16"
              => ThemeForTier(def, ColorTier(env)).palette.colors = def.color16
    BY DEF ThemeForTier, Palette, ColorTier
  <2> QED BY <1>2, <2>1, <2>2, <2>3, <2>4, <2>5 DEF ThemeOK
<1> QED BY <1>1, <1>2

\* Every signal has a modifier of its own in every theme.
LEMMA SignalsAlwaysCarried == \A theme : SignalsCarried(theme)
<1> SUFFICES ASSUME NEW theme PROVE SignalsCarried(theme)
  OBVIOUS
<1>1. \A signal : StyleOf(theme, signal).modifier = Carrier[signal]
  BY DEF StyleOf
<1>2. Unset \notin {"REVERSED", "BOLD", "DIM"} /\ PlainStyle.modifier = Unset
  BY UserPrefsAssumption DEF UserPrefsAssumption, PlainStyle
<1>3. \A signal \in DOMAIN Carrier \ {"hint_desc"} : Carrier[signal] \in {"REVERSED", "BOLD", "DIM"}
  BY DEF Carrier
<1>4. \A p \in Opposites : Carrier[p[1]] # Carrier[p[2]]
  BY DEF Carrier, Opposites
<1> QED BY <1>1, <1>2, <1>3, <1>4 DEF SignalsCarried

\* A session that does not run holds nothing.
LEMMA OffHolds ==
    ASSUME NEW cfg, NEW ui
    PROVE  Holds(cfg, ui, OffSession)
<1>1. /\ OffSession.pc = "off" /\ OffSession.conf = DefaultConf /\ OffSession.latest = DefaultConf
      /\ OffSession.ui = EmptyUi /\ OffSession.picked = FALSE /\ OffSession.cfgMine = FALSE /\ OffSession.uiMine = FALSE
  BY DEF OffSession
<1>2. EmptyUi = [pins |-> EmptyUi.pins, extra |-> EmptyUi.extra]
  BY DEF EmptyUi
<1> QED BY <1>1, <1>2, DefaultIsOK DEF Holds, Ready

\* A session holds what it held when only the marks of its own writes are
\* cleared, or the files stay.
LEMMA HoldsByFields ==
    ASSUME NEW cfg, NEW cfg2, NEW ui, NEW ui2, NEW me, NEW you, Holds(cfg, ui, me),
           /\ you.pc = me.pc /\ you.args = me.args /\ you.env = me.env /\ you.conf = me.conf
           /\ you.effect = me.effect /\ you.theme = me.theme /\ you.picked = me.picked
           /\ you.ui = me.ui /\ you.change = me.change /\ you.latest = me.latest,
           you.cfgMine => me.cfgMine /\ cfg2 = cfg,
           you.uiMine => me.uiMine /\ ui2 = ui
    PROVE  Holds(cfg2, ui2, you)
BY DEF Holds, FlagsOK

\* A session that gets its configuration runs as flags and environment ask.
LEMMA InstalledHolds ==
    ASSUME NEW cfg, NEW ui, NEW cfg2, NEW s, NEW conf, Holds(cfg, ui, prefs[s]),
           DOMAIN prefs[s] = SessionFields,
           prefs[s].pc \notin Ready, ConfOK(conf)
    PROVE  Holds(cfg2, ui, Installed(s, conf))
<1> DEFINE me == prefs[s]
           eff == Effective(me.args, conf)
           new == [me EXCEPT !.pc = "running", !.conf = conf, !.effect = eff,
                     !.theme = ResolveTheme(me.env, conf, eff.theme),
                     !.light = ActiveLight(me.env, conf.mode), !.keys = conf.keymap]
<1>1. /\ new.pc = "running" /\ new.conf = conf /\ new.latest = me.latest /\ new.ui = me.ui
      /\ new.args = me.args /\ new.env = me.env /\ new.picked = me.picked /\ new.effect = eff
      /\ new.theme = ResolveTheme(me.env, conf, eff.theme)
      /\ new.cfgMine = me.cfgMine /\ new.uiMine = me.uiMine
  BY DEF SessionFields
<1>2. /\ eff.theme = me.args.value["--theme"] /\ (me.args.noMouse => ~eff.mouse)
      /\ (me.args.readOnly => eff.readOnly)
  BY DEF Effective
<1>3. Installed(s, conf) = OffSession \/ Installed(s, conf) = new
  BY DEF Installed
<1> HIDE DEF new, eff
<1>4. ThemeOK(new.env, new.args.value["--theme"], FALSE, new.theme)
  BY <1>1, <1>2, ResolvedIsOK
<1>5. ThemeOK(new.env, new.args.value["--theme"], new.picked, new.theme)
  BY <1>1, <1>4 DEF ThemeOK, Holds
<1>6. FlagsOK(new)
  BY <1>1, <1>2, <1>5 DEF FlagsOK
<1>7. ~me.cfgMine /\ ~me.uiMine
  BY DEF Holds
<1>8. Holds(cfg2, ui, new)
  BY <1>1, <1>6, <1>7 DEF Holds, Ready
<1> QED BY <1>3, <1>8, OffHolds

\* A refused change leaves the session as it was.
LEMMA NotChangedHolds ==
    ASSUME NEW cfg, NEW ui, NEW me, Holds(cfg, ui, me), DOMAIN me = SessionFields, me.pc \in Ready
    PROVE  Holds(cfg, ui, NotChanged(me))
<1> DEFINE you == NotChanged(me)
<1>1. /\ you.pc = "running" /\ you.args = me.args /\ you.env = me.env /\ you.conf = me.conf
      /\ you.effect = me.effect /\ you.theme = me.theme /\ you.picked = me.picked
      /\ you.ui = me.ui /\ you.latest = DefaultConf
      /\ you.cfgMine = me.cfgMine /\ you.uiMine = me.uiMine
  BY DEF NotChanged, SessionFields
<1> HIDE DEF you
<1>2. Holds(cfg, ui, you)
  BY <1>1, DefaultIsOK DEF Holds, FlagsOK, Ready
<1> QED BY <1>2 DEF you

\* A change that was written is what the session works with and what it finds again.
LEMMA AdoptedHolds ==
    ASSUME NEW cfg, NEW ui, NEW me, Holds(cfg, ui, me), DOMAIN me = SessionFields, me.pc \in Ready,
           NEW you, \E c : you = [Adopted(me) EXCEPT !.cfgMine = c]
    PROVE  Holds(OnDisk(me.latest), ui, you)
<1> DEFINE themed == me.change.field \in {"dark", "light"}
           all == Adopted(me)
<1>1. PICK c : you = [all EXCEPT !.cfgMine = c]
  OBVIOUS
<1>2. /\ DOMAIN all = SessionFields
      /\ all.pc = "running" /\ all.args = me.args /\ all.env = me.env /\ all.conf = me.latest
      /\ all.effect = me.effect /\ all.ui = me.ui /\ all.latest = DefaultConf
      /\ all.picked = (me.picked \/ themed)
      /\ all.theme = IF themed THEN ResolveTheme(me.env, me.latest, Unset) ELSE me.theme
      /\ all.uiMine = me.uiMine
  BY DEF Adopted, NotChanged, SessionFields
<1> HIDE DEF all
<1>3. /\ you.pc = "running" /\ you.args = me.args /\ you.env = me.env /\ you.conf = me.latest
      /\ you.effect = me.effect /\ you.ui = me.ui /\ you.latest = DefaultConf
      /\ you.picked = (me.picked \/ themed)
      /\ you.theme = IF themed THEN ResolveTheme(me.env, me.latest, Unset) ELSE me.theme
      /\ you.uiMine = me.uiMine
  BY <1>1, <1>2 DEF SessionFields
<1>4. ThemeOK(you.env, you.args.value["--theme"], you.picked, you.theme)
  <2>1. CASE themed
    <3>1. ThemeOK(me.env, Unset, FALSE, ResolveTheme(me.env, me.latest, Unset))
      BY ResolvedIsOK
    <3>2. you.theme = ResolveTheme(me.env, me.latest, Unset) /\ you.env = me.env
      BY <1>3, <2>1
    <3>3. you.picked
      BY <1>3, <2>1
    <3> QED BY <3>1, <3>2, <3>3 DEF ThemeOK
  <2>2. CASE ~themed
    <3>1. ThemeOK(me.env, me.args.value["--theme"], me.picked, me.theme)
      BY DEF Holds, FlagsOK
    <3>2. you.picked <=> me.picked
      BY <1>3, <2>2
    <3> QED BY <1>3, <2>2, <3>1, <3>2 DEF ThemeOK
  <2> QED BY <2>1, <2>2
<1>5. FlagsOK(you)
  BY <1>3, <1>4 DEF FlagsOK, Holds
<1>6. ConfOK(me.latest) /\ ClampConf(me.latest) = me.latest
  BY ClampedStays DEF Holds
<1>7. OnDisk(me.latest).kind = "toml" /\ ParseAndClamp(OnDisk(me.latest)) = me.latest
  BY <1>6 DEF OnDisk, ParseAndClamp
<1> QED BY <1>3, <1>5, <1>6, <1>7, DefaultIsOK DEF Holds, Ready

\* One session moves and the files stay.
LEMMA OneMoves ==
    ASSUME SessionInv, NEW s \in PrefSession, NEW me, prefs' = [prefs EXCEPT ![s] = me],
           UNCHANGED <<cfgFile, uiFile>>, Holds(cfgFile, uiFile, me)
    PROVE  FileOK(cfgFile') /\ \A t \in PrefSession : Holds(cfgFile', uiFile', prefs'[t])
BY DEF SessionInv, PrefInv

\* Any file may be written if no session but s takes it for its own.
LEMMA FileMoves ==
    ASSUME SessionInv, NEW s \in PrefSession, FileOK(cfgFile'), Holds(cfgFile', uiFile', prefs'[s]),
           \A t \in PrefSession \ {s} :
              \/ prefs'[t] = [prefs[t] EXCEPT !.cfgMine = FALSE] /\ uiFile' = uiFile
              \/ prefs'[t] = [prefs[t] EXCEPT !.uiMine = FALSE] /\ cfgFile' = cfgFile
    PROVE  FileOK(cfgFile') /\ \A t \in PrefSession : Holds(cfgFile', uiFile', prefs'[t])
<1>1. ASSUME NEW t \in PrefSession \ {s} PROVE Holds(cfgFile', uiFile', prefs'[t])
  <2>1. Holds(cfgFile, uiFile, prefs[t]) /\ DOMAIN prefs[t] = SessionFields
    BY DEF SessionInv, PrefInv, Knows
  <2>2. CASE prefs'[t] = [prefs[t] EXCEPT !.cfgMine = FALSE] /\ uiFile' = uiFile
    <3> DEFINE me == prefs[t]
               you == [me EXCEPT !.cfgMine = FALSE]
    <3>1. /\ you.pc = me.pc /\ you.args = me.args /\ you.env = me.env /\ you.conf = me.conf
          /\ you.effect = me.effect /\ you.theme = me.theme /\ you.picked = me.picked
          /\ you.ui = me.ui /\ you.change = me.change /\ you.latest = me.latest
          /\ you.cfgMine = FALSE /\ you.uiMine = me.uiMine
      BY <2>1 DEF SessionFields
    <3> HIDE DEF you
    <3>2. Holds(cfgFile', uiFile', you)
      BY <2>1, <2>2, <3>1, HoldsByFields
    <3> QED BY <2>2, <3>2 DEF you
  <2>3. CASE prefs'[t] = [prefs[t] EXCEPT !.uiMine = FALSE] /\ cfgFile' = cfgFile
    <3> DEFINE me == prefs[t]
               you == [me EXCEPT !.uiMine = FALSE]
    <3>1. /\ you.pc = me.pc /\ you.args = me.args /\ you.env = me.env /\ you.conf = me.conf
          /\ you.effect = me.effect /\ you.theme = me.theme /\ you.picked = me.picked
          /\ you.ui = me.ui /\ you.change = me.change /\ you.latest = me.latest
          /\ you.uiMine = FALSE /\ you.cfgMine = me.cfgMine
      BY <2>1 DEF SessionFields
    <3> HIDE DEF you
    <3>2. Holds(cfgFile', uiFile', you)
      BY <2>1, <2>3, <3>1, HoldsByFields
    <3> QED BY <2>3, <3>2 DEF you
  <2> QED BY <2>2, <2>3
<1> QED BY <1>1

\* No session runs at first.
LEMMA SessionInvInit == PrefInit => SessionInv
BY PrefInvInit, OffHolds, UserPrefsAssumption DEF UserPrefsAssumption, PrefInit, SessionInv, FileOK, ConfFields

\* Loading tui.toml, the configuration and the flags leaves a session as they ask.
LEMMA StartHolds ==
    ASSUME SessionInv, NEW s \in PrefSession,
           StartSession(s) \/ LoadUi(s) \/ LoadConfig(s) \/ LockToGenerate(s) \/ Recheck(s)
    PROVE  FileOK(cfgFile') /\ \A t \in PrefSession : Holds(cfgFile', uiFile', prefs'[t])
<1>0. /\ DOMAIN prefs = PrefSession /\ Holds(cfgFile, uiFile, prefs[s]) /\ FileOK(cfgFile)
      /\ DOMAIN prefs[s] = SessionFields
  BY DEF SessionInv, PrefInv, Knows
<1>1. UNCHANGED <<cfgFile, uiFile>>
  BY DEF StartSession, LoadUi, LoadConfig, LockToGenerate, Recheck
<1>2. ASSUME NEW p \in {"generateLock", "recheck", "generate"}, NEW b, prefs[s].pc \notin Ready,
             \/ prefs' = [prefs EXCEPT ![s] = [prefs[s] EXCEPT !.pc = p]]
             \/ prefs' = [prefs EXCEPT ![s] = [prefs[s] EXCEPT !.pc = p, !.touched = b]]
      PROVE  \A t \in PrefSession : Holds(cfgFile', uiFile', prefs'[t])
  <2> DEFINE you == prefs'[s]
             me == prefs[s]
  <2>1. /\ you.pc = p /\ you.args = me.args /\ you.env = me.env /\ you.conf = me.conf
        /\ you.effect = me.effect /\ you.theme = me.theme /\ you.picked = me.picked
        /\ you.ui = me.ui /\ you.change = me.change /\ you.latest = me.latest
        /\ you.uiMine = me.uiMine /\ you.cfgMine = me.cfgMine
    BY <1>0, <1>2 DEF SessionFields
  <2>2. prefs' = [prefs EXCEPT ![s] = you]
    BY <1>0, <1>2
  <2> HIDE DEF you
  <2>3. Holds(cfgFile, uiFile, you)
    BY <1>0, <1>2, <2>1 DEF Holds, Ready
  <2> QED BY <1>1, <2>2, <2>3, OneMoves
<1>3. ASSUME NEW conf, ConfOK(conf), prefs[s].pc \notin Ready, prefs' = [prefs EXCEPT ![s] = Installed(s, conf)]
      PROVE  \A t \in PrefSession : Holds(cfgFile', uiFile', prefs'[t])
  <2>1. Holds(cfgFile, uiFile, Installed(s, conf))
    BY <1>0, <1>3, InstalledHolds
  <2> QED BY <1>1, <1>3, <2>1, OneMoves
<1>4. ConfOK(ParseAndClamp(cfgFile)) /\ ConfOK(DefaultConf)
  BY <1>0, ReadingClamps, DefaultIsOK
<1>5. CASE StartSession(s)
  <2>1. PICK launch \in Launches[s] :
           LET args == ParseArgs(launch.line) IN
           prefs' = [prefs EXCEPT ![s] =
                   IF args.outcome # "run" THEN OffSession
                   ELSE [OffSession EXCEPT !.args = args, !.env = launch.env, !.pc = FirstStep(args)]]
    BY <1>5 DEF StartSession
  <2> DEFINE args == ParseArgs(launch.line)
             on == [OffSession EXCEPT !.args = args, !.env = launch.env, !.pc = FirstStep(args)]
             me == IF args.outcome # "run" THEN OffSession ELSE on
  <2>2. /\ on.pc \in {"load", "loadUi"} /\ on.conf = DefaultConf /\ on.latest = DefaultConf
        /\ on.ui = EmptyUi /\ on.picked = FALSE /\ on.cfgMine = FALSE /\ on.uiMine = FALSE
    BY DEF OffSession, FirstStep
  <2> HIDE DEF on
  <2>3. EmptyUi = [pins |-> EmptyUi.pins, extra |-> EmptyUi.extra]
    BY DEF EmptyUi
  <2>4. Holds(cfgFile, uiFile, on)
    BY <2>2, <2>3, DefaultIsOK DEF Holds, Ready
  <2>5. Holds(cfgFile, uiFile, me)
    BY <2>4, OffHolds
  <2>6. prefs' = [prefs EXCEPT ![s] = me]
    BY <2>1 DEF on
  <2> HIDE DEF me
  <2> QED BY <1>1, <2>5, <2>6, OneMoves
<1>6. CASE LoadUi(s)
  <2>1. ASSUME NEW ui \in {ParseUi(uiFile), EmptyUi}, NEW w, NEW k,
           \/ prefs' = [prefs EXCEPT ![s].pc = "load", ![s].ui = ui, ![s].uiWarned = w, ![s].uiKeys = k]
           \/ prefs' = [prefs EXCEPT ![s].pc = "load", ![s].ui = ui, ![s].uiWarned = w]
        PROVE  \A t \in PrefSession : Holds(cfgFile', uiFile', prefs'[t])
    <3> DEFINE you == prefs'[s]
               me == prefs[s]
    <3>1. /\ you.pc = "load" /\ you.conf = me.conf /\ you.latest = me.latest /\ you.ui = ui
          /\ you.picked = me.picked /\ you.uiMine = me.uiMine /\ you.cfgMine = me.cfgMine
      BY <1>0, <2>1 DEF SessionFields
    <3>2. prefs' = [prefs EXCEPT ![s] = you]
      BY <1>0, <2>1
    <3>3. me.pc = "loadUi"
      BY <1>6 DEF LoadUi, PrefAt
    <3>4. ui = [pins |-> ui.pins, extra |-> ui.extra]
      BY <2>1 DEF ParseUi, EmptyUi
    <3> HIDE DEF you
    <3>5. Holds(cfgFile, uiFile, you)
      BY <1>0, <3>1, <3>3, <3>4 DEF Holds, Ready
    <3> QED BY <1>0, <1>1, <3>2, <3>5, OneMoves
  <2>2. \/ prefs' = [prefs EXCEPT ![s].pc = "load", ![s].ui = ParseUi(uiFile),
                                  ![s].uiWarned = uiFile.kind = "garbage",
                                  ![s].uiKeys = uiFile.kind = "toml" /\ uiFile.extra]
        \/ prefs' = [prefs EXCEPT ![s].pc = "load", ![s].ui = EmptyUi, ![s].uiWarned = TRUE]
    BY <1>6 DEF LoadUi
  <2>3. CASE prefs' = [prefs EXCEPT ![s].pc = "load", ![s].ui = ParseUi(uiFile),
                                  ![s].uiWarned = uiFile.kind = "garbage",
                                  ![s].uiKeys = uiFile.kind = "toml" /\ uiFile.extra]
    BY <1>0, <1>1, <2>1, <2>3
  <2>4. CASE prefs' = [prefs EXCEPT ![s].pc = "load", ![s].ui = EmptyUi, ![s].uiWarned = TRUE]
    BY <1>0, <1>1, <2>1, <2>4
  <2> QED BY <1>0, <1>1, <2>2, <2>3, <2>4
<1>7. CASE LoadConfig(s)
  <2>1. prefs[s].pc = "load"
    BY <1>7 DEF LoadConfig, PrefAt
  <2>2. \/ prefs' = [prefs EXCEPT ![s] = [prefs[s] EXCEPT !.pc = "generateLock"]]
        \/ prefs' = [prefs EXCEPT ![s] = Installed(s, ParseAndClamp(cfgFile))]
        \/ prefs' = [prefs EXCEPT ![s] = Installed(s, DefaultConf)]
    BY <1>7 DEF LoadConfig
  <2> QED BY <1>0, <1>1, <1>2, <1>3, <1>4, <2>1, <2>2 DEF Ready
<1>8. CASE LockToGenerate(s)
  <2>1. prefs[s].pc = "generateLock"
    BY <1>8 DEF LockToGenerate, PrefAt
  <2>2. \/ prefs' = [prefs EXCEPT ![s] = [prefs[s] EXCEPT !.pc = "recheck"]]
        \/ prefs' = [prefs EXCEPT ![s] = Installed(s, DefaultConf)]
    BY <1>0, <1>8 DEF LockToGenerate
  <2> QED BY <1>0, <1>1, <1>2, <1>3, <1>4, <2>1, <2>2 DEF Ready
<1>9. CASE Recheck(s)
  <2>1. prefs[s].pc = "recheck"
    BY <1>9 DEF Recheck, PrefAt
  <2>2. \/ prefs' = [prefs EXCEPT ![s] = [prefs[s] EXCEPT !.pc = "generate", !.touched = FALSE]]
        \/ prefs' = [prefs EXCEPT ![s] = Installed(s, ParseAndClamp(cfgFile))]
        \/ prefs' = [prefs EXCEPT ![s] = Installed(s, DefaultConf)]
    BY <1>9 DEF Recheck
  <2> QED BY <1>0, <1>1, <1>2, <1>3, <1>4, <2>1, <2>2 DEF Ready
<1> QED BY <1>5, <1>6, <1>7, <1>8, <1>9

\* Generating config.toml installs the defaults that it was written with.
LEMMA GenerateHolds ==
    ASSUME SessionInv, NEW s \in PrefSession, Generate(s)
    PROVE  FileOK(cfgFile') /\ \A t \in PrefSession : Holds(cfgFile', uiFile', prefs'[t])
<1>0. /\ DOMAIN prefs = PrefSession /\ Holds(cfgFile, uiFile, prefs[s]) /\ FileOK(cfgFile)
      /\ \A t \in PrefSession : DOMAIN prefs[t] = SessionFields
  BY DEF SessionInv, PrefInv, Knows
<1> DEFINE me == Installed(s, DefaultConf)
<1>1. /\ uiFile' = uiFile /\ cfgFile' \in {cfgFile, Catalog} /\ prefs[s].pc = "generate"
      /\ \/ prefs' = [prefs EXCEPT ![s] = me] /\ cfgFile' = cfgFile
         \/ prefs' = [t \in PrefSession |-> [[prefs EXCEPT ![s] = me][t] EXCEPT !.cfgMine = FALSE]]
  BY DEF Generate, PrefAt
<1>2. FileOK(cfgFile')
  BY <1>0, <1>1, DefaultIsOK
<1>3. \A cfg : Holds(cfg, uiFile, me)
  BY <1>0, <1>1, InstalledHolds, DefaultIsOK DEF Ready
<1>4. DOMAIN me = SessionFields
  <2>1. DOMAIN OffSession = SessionFields
    BY DEF OffSession, SessionFields
  <2> QED BY <1>0, <2>1 DEF Installed
<1> HIDE DEF me
<1>5. CASE prefs' = [prefs EXCEPT ![s] = me] /\ cfgFile' = cfgFile
  BY <1>1, <1>3, <1>5, OneMoves
<1>6. CASE prefs' = [t \in PrefSession |-> [[prefs EXCEPT ![s] = me][t] EXCEPT !.cfgMine = FALSE]]
  <2>1. \A t \in PrefSession \ {s} : prefs'[t] = [prefs[t] EXCEPT !.cfgMine = FALSE]
    BY <1>0, <1>6
  <2> DEFINE you == [me EXCEPT !.cfgMine = FALSE]
  <2>2. prefs'[s] = you
    BY <1>0, <1>6
  <2>3. /\ you.pc = me.pc /\ you.args = me.args /\ you.env = me.env /\ you.conf = me.conf
        /\ you.effect = me.effect /\ you.theme = me.theme /\ you.picked = me.picked
        /\ you.ui = me.ui /\ you.change = me.change /\ you.latest = me.latest
        /\ you.cfgMine = FALSE /\ you.uiMine = me.uiMine
    BY <1>4 DEF SessionFields
  <2> HIDE DEF you
  <2>4. Holds(cfgFile', uiFile', you)
    BY <1>1, <1>3, <2>3, HoldsByFields
  <2> QED BY <1>1, <1>2, <2>1, <2>2, <2>4, FileMoves
<1> QED BY <1>1, <1>5, <1>6

\* Unlocking, asking for a change, taking its lock and reading the file.
LEMMA AskHolds ==
    ASSUME SessionInv, NEW s \in PrefSession,
           UnlockFor(s) \/ ActivateRow(s) \/ LockToUpdate(s) \/ ReadToUpdate(s) \/ EndSession(s)
    PROVE  FileOK(cfgFile') /\ \A t \in PrefSession : Holds(cfgFile', uiFile', prefs'[t])
<1>0. /\ DOMAIN prefs = PrefSession /\ Holds(cfgFile, uiFile, prefs[s]) /\ FileOK(cfgFile)
      /\ DOMAIN prefs[s] = SessionFields
  BY DEF SessionInv, PrefInv, Knows
<1>1. UNCHANGED <<cfgFile, uiFile>>
  BY DEF UnlockFor, ActivateRow, LockToUpdate, ReadToUpdate, EndSession
<1>2. CASE prefs' = [prefs EXCEPT ![s] = NotChanged(prefs[s])] /\ prefs[s].pc \in Ready
  BY <1>0, <1>1, <1>2, NotChangedHolds, OneMoves
<1>3. CASE UnlockFor(s)
  <2>1. PICK v \in RegisteredVaults : prefs' = [prefs EXCEPT ![s].vault = v]
    BY <1>3 DEF UnlockFor
  <2> DEFINE me == prefs[s]
             you == [me EXCEPT !.vault = v]
  <2>2. /\ you.pc = me.pc /\ you.args = me.args /\ you.env = me.env /\ you.conf = me.conf
        /\ you.effect = me.effect /\ you.theme = me.theme /\ you.picked = me.picked
        /\ you.ui = me.ui /\ you.change = me.change /\ you.latest = me.latest
        /\ you.cfgMine = me.cfgMine /\ you.uiMine = me.uiMine
    BY <1>0 DEF SessionFields
  <2>3. prefs' = [prefs EXCEPT ![s] = you]
    BY <1>0, <2>1
  <2> HIDE DEF you
  <2>4. Holds(cfgFile, uiFile, you)
    BY <1>0, <2>2, HoldsByFields
  <2> QED BY <1>1, <2>3, <2>4, OneMoves
<1>4. CASE ActivateRow(s)
  <2>1. PICK row \in {0, 1, 3, 4} :
           prefs' = [prefs EXCEPT ![s].pc = "updateLock", ![s].change = ChangeOf(prefs[s], row)]
    BY <1>4 DEF ActivateRow
  <2> DEFINE me == prefs[s]
             change == ChangeOf(me, row)
             you == [me EXCEPT !.pc = "updateLock", !.change = change]
  <2>2. change.field \in {"sort", "dark", "light", "unlock", "leave"}
    BY DEF ChangeOf
  <2> HIDE DEF change
  <2>3. /\ you.pc = "updateLock" /\ you.args = me.args /\ you.env = me.env /\ you.conf = me.conf
        /\ you.effect = me.effect /\ you.theme = me.theme /\ you.picked = me.picked
        /\ you.ui = me.ui /\ you.change = change /\ you.latest = me.latest
        /\ you.cfgMine = me.cfgMine /\ you.uiMine = me.uiMine
    BY <1>0 DEF SessionFields
  <2>4. prefs' = [prefs EXCEPT ![s] = you]
    BY <1>0, <2>1 DEF change
  <2>5. me.pc = "running"
    BY <1>4 DEF ActivateRow, PrefAt
  <2> HIDE DEF you
  <2>6. Holds(cfgFile, uiFile, you)
    BY <1>0, <2>2, <2>3, <2>5 DEF Holds, FlagsOK, Ready
  <2> QED BY <1>1, <2>4, <2>6, OneMoves
<1>5. CASE LockToUpdate(s)
  <2>1. prefs[s].pc = "updateLock"
    BY <1>5 DEF LockToUpdate, PrefAt
  <2>2. CASE prefs' = [prefs EXCEPT ![s].pc = "updateRead"]
    <3> DEFINE me == prefs[s]
               you == [me EXCEPT !.pc = "updateRead"]
    <3>1. /\ you.pc = "updateRead" /\ you.args = me.args /\ you.env = me.env /\ you.conf = me.conf
          /\ you.effect = me.effect /\ you.theme = me.theme /\ you.picked = me.picked
          /\ you.ui = me.ui /\ you.change = me.change /\ you.latest = me.latest
          /\ you.cfgMine = me.cfgMine /\ you.uiMine = me.uiMine
      BY <1>0 DEF SessionFields
    <3>2. prefs' = [prefs EXCEPT ![s] = you]
      BY <1>0, <2>2
    <3> HIDE DEF you
    <3>3. Holds(cfgFile, uiFile, you)
      BY <1>0, <2>1, <3>1 DEF Holds, FlagsOK, Ready
    <3> QED BY <1>1, <3>2, <3>3, OneMoves
  <2> QED BY <1>0, <1>2, <1>5, <2>1, <2>2 DEF LockToUpdate, Ready
<1>6. CASE ReadToUpdate(s)
  <2>1. prefs[s].pc = "updateRead"
    BY <1>6 DEF ReadToUpdate, PrefAt
  <2>2. CASE /\ MayUpdate(cfgFile)
             /\ prefs' = [prefs EXCEPT ![s] = [prefs[s] EXCEPT !.pc = "updateWrite", !.touched = FALSE,
                             !.latest = Changed(Latest(s), prefs[s].change)]]
    <3> DEFINE me == prefs[s]
               new == Changed(Latest(s), me.change)
               you == [me EXCEPT !.pc = "updateWrite", !.touched = FALSE, !.latest = new]
    <3>1. ConfOK(Latest(s))
      <4>1. Strict(cfgFile) => ParseAndClamp(cfgFile) = cfgFile.conf
        BY DEF Strict, ParseAndClamp
      <4> QED BY <1>0, <2>2, <4>1, ReadingClamps, DefaultIsOK DEF MayUpdate, Latest, Strict
    <3>2. ConfOK(new)
      BY <1>0, <2>1, <3>1, ChangedIsOK DEF Holds, Ready
    <3> HIDE DEF new
    <3>3. /\ you.pc = "updateWrite" /\ you.args = me.args /\ you.env = me.env /\ you.conf = me.conf
          /\ you.effect = me.effect /\ you.theme = me.theme /\ you.picked = me.picked
          /\ you.ui = me.ui /\ you.change = me.change /\ you.latest = new
          /\ you.cfgMine = me.cfgMine /\ you.uiMine = me.uiMine
      BY <1>0 DEF SessionFields
    <3>4. prefs' = [prefs EXCEPT ![s] = you]
      BY <2>2 DEF new
    <3> HIDE DEF you
    <3>5. Holds(cfgFile, uiFile, you)
      BY <1>0, <2>1, <3>2, <3>3 DEF Holds, FlagsOK, Ready
    <3> QED BY <1>1, <3>4, <3>5, OneMoves
  <2> QED BY <1>2, <1>6, <2>1, <2>2 DEF ReadToUpdate, Ready
<1>7. CASE EndSession(s)
  BY <1>1, <1>7, OffHolds, OneMoves DEF EndSession
<1> QED BY <1>3, <1>4, <1>5, <1>6, <1>7

\* A change that is written is the session's, and nobody else's.
LEMMA WriteHolds ==
    ASSUME SessionInv, NEW s \in PrefSession, WriteUpdate(s)
    PROVE  FileOK(cfgFile') /\ \A t \in PrefSession : Holds(cfgFile', uiFile', prefs'[t])
<1> DEFINE me == prefs[s]
           written == OnDisk(me.latest)
<1>0. /\ DOMAIN prefs = PrefSession /\ Holds(cfgFile, uiFile, me) /\ FileOK(cfgFile)
      /\ \A t \in PrefSession : DOMAIN prefs[t] = SessionFields
  BY DEF SessionInv, PrefInv, Knows
<1>1. /\ uiFile' = uiFile /\ cfgFile' \in {cfgFile, written} /\ me.pc = "updateWrite" /\ me.pc \in Ready
  BY DEF WriteUpdate, PrefAt, Ready
<1>2. FileOK(cfgFile')
  <2>1. FileOK(written)
    BY <1>0 DEF Holds, ConfOK, FileOK, OnDisk, TreeRatioMin, TreeRatioMax
  <2> QED BY <1>0, <1>1, <2>1
<1>3. CASE cfgFile' = written /\ prefs' = Wrote([prefs EXCEPT ![s] = Adopted(me)], s, "cfgMine")
  <2>1. prefs' = [t \in PrefSession |-> [[prefs EXCEPT ![s] = Adopted(me)][t] EXCEPT !.cfgMine = (t = s)]]
    BY <1>3 DEF Wrote
  <2>2. prefs'[s] = [Adopted(me) EXCEPT !.cfgMine = TRUE]
    BY <1>0, <2>1
  <2>3. \A t \in PrefSession \ {s} : prefs'[t] = [prefs[t] EXCEPT !.cfgMine = FALSE]
    BY <1>0, <2>1
  <2>4. Holds(written, uiFile, prefs'[s])
    BY <1>0, <1>1, <2>2, AdoptedHolds
  <2> QED BY <1>1, <1>2, <1>3, <2>3, <2>4, FileMoves
<1>4. CASE prefs' = [prefs EXCEPT ![s] = NotChanged(me)] /\ cfgFile' = cfgFile
  BY <1>0, <1>1, <1>4, NotChangedHolds, OneMoves
<1>5. CASE prefs' = [t \in PrefSession |-> [[prefs EXCEPT ![s] = NotChanged(me)][t] EXCEPT !.cfgMine = FALSE]]
  <2> DEFINE was == NotChanged(me)
             you == [was EXCEPT !.cfgMine = FALSE]
  <2>1. DOMAIN was = SessionFields /\ Holds(cfgFile, uiFile, was)
    BY <1>0, <1>1, NotChangedHolds DEF NotChanged
  <2>2. \A t \in PrefSession \ {s} : prefs'[t] = [prefs[t] EXCEPT !.cfgMine = FALSE]
    BY <1>0, <1>5
  <2>3. prefs'[s] = you
    BY <1>0, <1>5
  <2> HIDE DEF was
  <2>4. /\ you.pc = was.pc /\ you.args = was.args /\ you.env = was.env /\ you.conf = was.conf
        /\ you.effect = was.effect /\ you.theme = was.theme /\ you.picked = was.picked
        /\ you.ui = was.ui /\ you.change = was.change /\ you.latest = was.latest
        /\ you.cfgMine = FALSE /\ you.uiMine = was.uiMine
    BY <2>1 DEF SessionFields
  <2> HIDE DEF you
  <2>5. Holds(cfgFile', uiFile', you)
    BY <1>1, <2>1, <2>4, HoldsByFields
  <2> QED BY <1>1, <1>2, <2>2, <2>3, <2>5, FileMoves
<1>6. \/ cfgFile' = written /\ prefs' = Wrote([prefs EXCEPT ![s] = Adopted(me)], s, "cfgMine")
      \/ prefs' = [prefs EXCEPT ![s] = NotChanged(me)] /\ cfgFile' = cfgFile
      \/ prefs' = [t \in PrefSession |-> [[prefs EXCEPT ![s] = NotChanged(me)][t] EXCEPT !.cfgMine = FALSE]]
  BY DEF WriteUpdate
<1> QED BY <1>3, <1>4, <1>5, <1>6

\* A save of tui.toml writes what the session has in memory.
LEMMA SaveUiHolds ==
    ASSUME SessionInv, NEW s \in PrefSession, SaveUi(s)
    PROVE  FileOK(cfgFile') /\ \A t \in PrefSession : Holds(cfgFile', uiFile', prefs'[t])
<1>0. /\ DOMAIN prefs = PrefSession /\ Holds(cfgFile, uiFile, prefs[s]) /\ FileOK(cfgFile)
      /\ \A t \in PrefSession : DOMAIN prefs[t] = SessionFields
  BY DEF SessionInv, PrefInv, Knows
<1>1. PICK pins \in {"one", "two"} :
         LET ui == [prefs[s].ui EXCEPT !.pins[prefs[s].vault] = pins]
             mine == [prefs EXCEPT ![s].ui = ui]
         IN \/ uiFile' = UiOnDisk(ui) /\ prefs' = Wrote(mine, s, "uiMine")
            \/ prefs' = [mine EXCEPT ![s].uiMine = FALSE] /\ uiFile' = uiFile
  BY DEF SaveUi
<1> DEFINE me == prefs[s]
           ui == [me.ui EXCEPT !.pins[me.vault] = pins]
           you == [me EXCEPT !.ui = ui]
<1>2. me.pc = "running" /\ cfgFile' = cfgFile
  BY DEF SaveUi, PrefAt
<1>3. ui = [pins |-> ui.pins, extra |-> ui.extra]
  BY <1>0 DEF Holds
<1>4. [prefs EXCEPT ![s].ui = ui] = [prefs EXCEPT ![s] = you]
  BY <1>0
<1>5. \/ prefs' = [[prefs EXCEPT ![s] = you] EXCEPT ![s].uiMine = FALSE] /\ uiFile' = uiFile
      \/ uiFile' = UiOnDisk(ui) /\ prefs' = Wrote([prefs EXCEPT ![s] = you], s, "uiMine")
  BY <1>1, <1>4
<1>6. ParseUi(UiOnDisk(ui)) = ui
  <2> HIDE DEF ui
  <2>1. ParseUi(UiOnDisk(ui)) = [pins |-> ui.pins, extra |-> ui.extra]
    BY DEF ParseUi, UiOnDisk
  <2> QED BY <1>3, <2>1
<1> HIDE DEF ui
<1>7. ASSUME NEW c \in BOOLEAN, NEW file, c => ParseUi(file) = ui
      PROVE  Holds(cfgFile, file, [you EXCEPT !.uiMine = c])
  <2> DEFINE new == [you EXCEPT !.uiMine = c]
  <2>1. /\ new.pc = "running" /\ new.args = me.args /\ new.env = me.env /\ new.conf = me.conf
        /\ new.effect = me.effect /\ new.theme = me.theme /\ new.picked = me.picked
        /\ new.ui = ui /\ new.change = me.change /\ new.latest = me.latest
        /\ new.cfgMine = me.cfgMine /\ new.uiMine = c
    BY <1>0, <1>2 DEF SessionFields
  <2> HIDE DEF new
  <2>2. Holds(cfgFile, file, new)
    BY <1>0, <1>2, <1>3, <1>7, <2>1 DEF Holds, FlagsOK, Ready
  <2> QED BY <2>2 DEF new
<1> HIDE DEF you
<1>8. CASE prefs' = [[prefs EXCEPT ![s] = you] EXCEPT ![s].uiMine = FALSE] /\ uiFile' = uiFile
  <2>1. prefs' = [prefs EXCEPT ![s] = [you EXCEPT !.uiMine = FALSE]]
    BY <1>0, <1>8
  <2>2. Holds(cfgFile, uiFile, [you EXCEPT !.uiMine = FALSE])
    BY <1>7
  <2> QED BY <1>2, <1>8, <2>1, <2>2, OneMoves
<1>9. CASE uiFile' = UiOnDisk(ui) /\ prefs' = Wrote([prefs EXCEPT ![s] = you], s, "uiMine")
  <2>1. prefs' = [t \in PrefSession |-> [[prefs EXCEPT ![s] = you][t] EXCEPT !.uiMine = (t = s)]]
    BY <1>9 DEF Wrote
  <2>2. prefs'[s] = [you EXCEPT !.uiMine = TRUE]
    BY <1>0, <2>1
  <2>3. \A t \in PrefSession \ {s} : prefs'[t] = [prefs[t] EXCEPT !.uiMine = FALSE]
    BY <1>0, <2>1
  <2>4. Holds(cfgFile, uiFile', prefs'[s])
    BY <1>6, <1>7, <1>9, <2>2
  <2> QED BY <1>0, <1>2, <2>3, <2>4, FileMoves
<1> QED BY <1>5, <1>8, <1>9

\* An edit by hand takes config.toml from whoever wrote it last.
LEMMA EditHolds ==
    ASSUME SessionInv, EditConfigByHand
    PROVE  FileOK(cfgFile') /\ \A t \in PrefSession : Holds(cfgFile', uiFile', prefs'[t])
<1>1. /\ cfgFile' \in HandFiles /\ uiFile' = uiFile
      /\ prefs' = [t \in PrefSession |-> [prefs[t] EXCEPT !.touched = TRUE, !.cfgMine = FALSE]]
  BY DEF EditConfigByHand
<1>2. FileOK(cfgFile')
  BY <1>1, UserPrefsAssumption DEF UserPrefsAssumption, FileOK, ConfFields
<1>3. ASSUME NEW t \in PrefSession PROVE Holds(cfgFile', uiFile', prefs'[t])
  <2> DEFINE me == prefs[t]
             you == [me EXCEPT !.touched = TRUE, !.cfgMine = FALSE]
  <2>1. Holds(cfgFile, uiFile, me) /\ DOMAIN me = SessionFields
    BY DEF SessionInv, PrefInv, Knows
  <2>2. /\ you.pc = me.pc /\ you.args = me.args /\ you.env = me.env /\ you.conf = me.conf
        /\ you.effect = me.effect /\ you.theme = me.theme /\ you.picked = me.picked
        /\ you.ui = me.ui /\ you.change = me.change /\ you.latest = me.latest
        /\ you.cfgMine = FALSE /\ you.uiMine = me.uiMine
    BY <2>1 DEF SessionFields
  <2>3. prefs'[t] = you
    BY <1>1
  <2> HIDE DEF you
  <2> QED BY <1>1, <2>1, <2>2, <2>3, HoldsByFields
<1> QED BY <1>2, <1>3

\* Every step of every session, and every edit by hand.
LEMMA SessionInvStep == SessionInv /\ [PrefNext]_prefVars => SessionInv'
<1> SUFFICES ASSUME SessionInv, [PrefNext]_prefVars PROVE SessionInv'
  OBVIOUS
<1>1. PrefInv'
  BY PrefInvStep DEF SessionInv
<1>2. cfgLock' \in PrefSession \cup {Free}
  <2>1. cfgLock \in PrefSession \cup {Free}
    BY DEF SessionInv
  <2> QED BY <2>1 DEF PrefNext, prefVars, EditConfigByHand, StartSession, LoadUi, LoadConfig, LockToGenerate,
                      Recheck, Generate, UnlockFor, ActivateRow, LockToUpdate, ReadToUpdate, WriteUpdate,
                      SaveUi, EndSession, Release
<1>3. FileOK(cfgFile') /\ \A t \in PrefSession : Holds(cfgFile', uiFile', prefs'[t])
  <2>1. CASE UNCHANGED prefVars
    BY <2>1 DEF prefVars, SessionInv
  <2>2. CASE PrefNext
    BY <2>2, EditHolds, StartHolds, GenerateHolds, AskHolds, WriteHolds, SaveUiHolds DEF PrefNext
  <2> QED BY <2>1, <2>2
<1> QED BY <1>1, <1>2, <1>3 DEF SessionInv

(***************************************************************************)
(* What a session shows.  It is what the same launch would show with the   *)
(* configuration in memory (Shows), as long as the session has adopted     *)
(* nobody else's change and no theme was picked over --theme.              *)
(***************************************************************************)

Shows(me) ==
    me.pc \in Ready /\ ~me.strayed /\ (me.picked => me.args.value["--theme"] = Unset)
        => OnScreen(me) = AfterRestart(me, me.conf)

Showing == \A s \in PrefSession : Shows(prefs[s])

\* The parts of a session that decide what it shows are as before.
SameScreen(me, you) ==
    you.pc \in Ready =>
        /\ me.pc \in Ready
        /\ you.args = me.args /\ you.env = me.env /\ you.conf = me.conf /\ you.effect = me.effect
        /\ you.theme = me.theme /\ you.light = me.light /\ you.keys = me.keys
        /\ you.picked = me.picked /\ you.strayed = me.strayed

LEMMA SameScreenShows == ASSUME NEW me, NEW you, Shows(me), SameScreen(me, you) PROVE Shows(you)
BY DEF Shows, SameScreen, OnScreen, AfterRestart, Effective

LEMMA OffShows == Shows(OffSession) /\ OffSession.pc \notin Ready
BY DEF Shows, OffSession, Ready

\* A session that gets its configuration shows what it says.
LEMMA InstalledShows ==
    ASSUME NEW s, NEW conf, DOMAIN prefs[s] = SessionFields
    PROVE  Shows(Installed(s, conf))
<1> DEFINE me == prefs[s]
           eff == Effective(me.args, conf)
           new == [me EXCEPT !.pc = "running", !.conf = conf, !.effect = eff,
                     !.theme = ResolveTheme(me.env, conf, eff.theme),
                     !.light = ActiveLight(me.env, conf.mode), !.keys = conf.keymap]
<1>1. /\ new.conf = conf /\ new.args = me.args /\ new.env = me.env /\ new.effect = eff
      /\ new.theme = ResolveTheme(me.env, conf, eff.theme)
      /\ new.light = ActiveLight(me.env, conf.mode) /\ new.keys = conf.keymap
  BY DEF SessionFields
<1>2. Installed(s, conf) = OffSession \/ Installed(s, conf) = new
  BY DEF Installed
<1> HIDE DEF new
<1>3. Shows(new)
  BY <1>1 DEF Shows, OnScreen, AfterRestart
<1> QED BY <1>2, <1>3, OffShows

\* A refused change shows nothing else.
LEMMA NotChangedShows ==
    ASSUME NEW me, DOMAIN me = SessionFields, me.pc \in Ready
    PROVE  SameScreen(me, NotChanged(me)) /\ DOMAIN NotChanged(me) = SessionFields
BY DEF SameScreen, NotChanged, SessionFields

\* A Settings row alters nothing that App installs at the start, but a theme.
LEMMA ChangedScreen ==
    ASSUME NEW c, ConfOK(c), NEW change, change.field \in {"sort", "dark", "light", "unlock", "leave"}
    PROVE  LET d == Changed(c, change) IN
           /\ d.mouse = c.mouse /\ d.mode = c.mode /\ d.keymap = c.keymap
           /\ change.field \notin {"dark", "light"} => d.dark = c.dark /\ d.light = c.light
<1>1. DOMAIN c = ConfFields
  BY DEF ConfOK
<1> QED BY <1>1 DEF Changed, ConfFields

LEMMA AdoptedShows ==
    ASSUME NEW me, Shows(me), DOMAIN me = SessionFields, me.pc \in Ready, ConfOK(me.conf),
           me.change.field \in {"sort", "dark", "light", "unlock", "leave"}
    PROVE  Shows(Adopted(me)) /\ DOMAIN Adopted(me) = SessionFields
<1> DEFINE themed == me.change.field \in {"dark", "light"}
           all == Adopted(me)
           flag == me.args.value["--theme"]
           new == me.latest
           old == me.conf
<1>1. /\ DOMAIN all = SessionFields
      /\ all.pc = "running" /\ all.args = me.args /\ all.env = me.env /\ all.conf = new
      /\ all.effect = me.effect /\ all.keys = me.keys
      /\ all.picked = (me.picked \/ themed)
      /\ all.strayed = (me.strayed \/ new # Changed(old, me.change))
      /\ all.theme = (IF themed THEN ResolveTheme(me.env, new, Unset) ELSE me.theme)
      /\ all.light = (IF themed THEN ActiveLight(me.env, new.mode) ELSE me.light)
  BY DEF Adopted, NotChanged, SessionFields
<1> HIDE DEF all
<1>2. SUFFICES ASSUME ~all.strayed, all.picked => flag = Unset
               PROVE  OnScreen(all) = AfterRestart(all, new)
  BY <1>1 DEF Shows, all
<1>3. new = Changed(old, me.change) /\ ~me.strayed /\ (me.picked => flag = Unset) /\ (themed => flag = Unset)
  BY <1>1, <1>2
<1>4. OnScreen(me) = AfterRestart(me, old)
  BY <1>3 DEF Shows
<1>5. /\ me.theme = ResolveTheme(me.env, old, flag) /\ me.light = ActiveLight(me.env, old.mode)
      /\ me.effect.mouse = (old.mouse /\ ~me.args.noMouse) /\ me.keys = old.keymap
  BY <1>4 DEF OnScreen, AfterRestart, Effective
<1>6. /\ new.mouse = old.mouse /\ new.mode = old.mode /\ new.keymap = old.keymap
      /\ ~themed => new.dark = old.dark /\ new.light = old.light
  BY <1>3, ChangedScreen
<1>7. all.theme = ResolveTheme(me.env, new, flag)
  <2>1. CASE themed
    BY <1>1, <1>3, <2>1
  <2>2. CASE ~themed
    <3>1. ResolveTheme(me.env, new, flag) = ResolveTheme(me.env, old, flag)
      <4> HIDE DEF new, old, flag, themed
      <4> QED BY <1>6, <2>2 DEF ResolveTheme, ChosenName
    <3> QED BY <1>1, <1>5, <2>2, <3>1
  <2> QED BY <2>1, <2>2
<1>8. all.light = ActiveLight(me.env, new.mode)
  BY <1>1, <1>5, <1>6
<1>9. all.effect.mouse = (new.mouse /\ ~me.args.noMouse) /\ all.keys = new.keymap
  BY <1>1, <1>5, <1>6
<1> HIDE DEF new, old
<1> QED BY <1>1, <1>7, <1>8, <1>9 DEF OnScreen, AfterRestart, Effective

LEMMA ShowingInit == PrefInit => Showing
BY OffShows DEF PrefInit, Showing

\* The marks of who wrote a file last decide nothing on the screen.
LEMMA MarksShow ==
    ASSUME NEW me, DOMAIN me = SessionFields, NEW c
    PROVE  SameScreen(me, [me EXCEPT !.cfgMine = c]) /\ SameScreen(me, [me EXCEPT !.uiMine = c])
BY DEF SameScreen, SessionFields

LEMMA OneShows ==
    ASSUME Showing, DOMAIN prefs = PrefSession, NEW s \in PrefSession, NEW me, Shows(me),
           prefs' = [prefs EXCEPT ![s] = me]
    PROVE  Showing'
<1>1. \A t \in PrefSession : prefs'[t] = IF t = s THEN me ELSE prefs[t]
  OBVIOUS
<1> QED BY <1>1 DEF Showing

\* One session moves, and the marks of config.toml are set anew for all.
LEMMA MarkedShow ==
    ASSUME Showing, DOMAIN prefs = PrefSession, \A t \in PrefSession : DOMAIN prefs[t] = SessionFields,
           NEW s \in PrefSession, NEW me, Shows(me), DOMAIN me = SessionFields,
           \A t \in PrefSession :
             \E c \in BOOLEAN : prefs'[t] = [[prefs EXCEPT ![s] = me][t] EXCEPT !.cfgMine = c]
    PROVE  Showing'
<1> SUFFICES ASSUME NEW t \in PrefSession PROVE Shows(prefs'[t])
  BY DEF Showing
<1>1. PICK c \in BOOLEAN : prefs'[t] = [[prefs EXCEPT ![s] = me][t] EXCEPT !.cfgMine = c]
  OBVIOUS
<1> DEFINE old == [prefs EXCEPT ![s] = me][t]
<1>2. Shows(old) /\ DOMAIN old = SessionFields
  BY DEF Showing
<1> HIDE DEF old
<1>3. SameScreen(old, [old EXCEPT !.cfgMine = c])
  BY <1>2, MarksShow
<1>4. prefs'[t] = [old EXCEPT !.cfgMine = c]
  BY <1>1 DEF old
<1> DEFINE new == [old EXCEPT !.cfgMine = c]
<1> HIDE DEF new
<1>5. Shows(new)
  BY <1>2, <1>3, SameScreenShows DEF new
<1> QED BY <1>4, <1>5 DEF new

\* Starting, up to the configuration.
LEMMA StartShows ==
    ASSUME SessionInv, Showing, NEW s \in PrefSession,
           StartSession(s) \/ LoadUi(s) \/ LoadConfig(s) \/ LockToGenerate(s) \/ Recheck(s)
    PROVE  Showing'
<1>0. DOMAIN prefs = PrefSession /\ DOMAIN prefs[s] = SessionFields
  BY DEF SessionInv, PrefInv, Knows
<1>1. ASSUME NEW conf, prefs' = [prefs EXCEPT ![s] = Installed(s, conf)] PROVE Showing'
  BY <1>0, <1>1, InstalledShows, OneShows
<1>2. ASSUME prefs'[s].pc \notin Ready, prefs' = [prefs EXCEPT ![s] = prefs'[s]] PROVE Showing'
  <2> DEFINE you == prefs'[s]
  <2>1. Shows(you)
    BY <1>2 DEF Shows
  <2>2. prefs' = [prefs EXCEPT ![s] = you]
    BY <1>2
  <2> HIDE DEF you
  <2> QED BY <1>0, <2>1, <2>2, OneShows
<1>3. CASE StartSession(s)
  <2>1. PICK launch \in Launches[s] :
           LET args == ParseArgs(launch.line) IN
           prefs' = [prefs EXCEPT ![s] =
                   IF args.outcome # "run" THEN OffSession
                   ELSE [OffSession EXCEPT !.args = args, !.env = launch.env, !.pc = FirstStep(args)]]
    BY <1>3 DEF StartSession
  <2> DEFINE args == ParseArgs(launch.line)
             on == [OffSession EXCEPT !.args = args, !.env = launch.env, !.pc = FirstStep(args)]
             me == IF args.outcome # "run" THEN OffSession ELSE on
  <2>2. on.pc \notin Ready
    BY DEF OffSession, FirstStep, Ready
  <2>3. me.pc \notin Ready
    <3> HIDE DEF on
    <3> QED BY <2>2, OffShows
  <2>4. prefs' = [prefs EXCEPT ![s] = me]
    BY <2>1
  <2> HIDE DEF me
  <2> QED BY <1>0, <1>2, <2>3, <2>4
<1>4. CASE LoadUi(s)
  <2>1. \/ prefs' = [prefs EXCEPT ![s].pc = "load", ![s].ui = ParseUi(uiFile),
                                  ![s].uiWarned = uiFile.kind = "garbage",
                                  ![s].uiKeys = uiFile.kind = "toml" /\ uiFile.extra]
        \/ prefs' = [prefs EXCEPT ![s].pc = "load", ![s].ui = EmptyUi, ![s].uiWarned = TRUE]
    BY <1>4 DEF LoadUi
  <2>2. prefs'[s].pc = "load" /\ prefs' = [prefs EXCEPT ![s] = prefs'[s]]
    BY <1>0, <2>1 DEF SessionFields
  <2> QED BY <1>2, <2>2 DEF Ready
<1>5. ASSUME NEW p \in {"generateLock", "recheck", "generate"}, NEW b,
             \/ prefs' = [prefs EXCEPT ![s] = [prefs[s] EXCEPT !.pc = p]]
             \/ prefs' = [prefs EXCEPT ![s] = [prefs[s] EXCEPT !.pc = p, !.touched = b]]
      PROVE  Showing'
  <2>1. prefs'[s].pc = p /\ prefs' = [prefs EXCEPT ![s] = prefs'[s]]
    BY <1>0, <1>5 DEF SessionFields
  <2> QED BY <1>2, <2>1 DEF Ready
<1>6. CASE LoadConfig(s)
  <2>1. \/ prefs' = [prefs EXCEPT ![s] = [prefs[s] EXCEPT !.pc = "generateLock"]]
        \/ prefs' = [prefs EXCEPT ![s] = Installed(s, ParseAndClamp(cfgFile))]
        \/ prefs' = [prefs EXCEPT ![s] = Installed(s, DefaultConf)]
    BY <1>6 DEF LoadConfig
  <2> QED BY <1>1, <1>5, <2>1
<1>7. CASE LockToGenerate(s)
  <2>1. \/ prefs' = [prefs EXCEPT ![s] = [prefs[s] EXCEPT !.pc = "recheck"]]
        \/ prefs' = [prefs EXCEPT ![s] = Installed(s, DefaultConf)]
    BY <1>0, <1>7 DEF LockToGenerate
  <2> QED BY <1>1, <1>5, <2>1
<1>8. CASE Recheck(s)
  <2>1. \/ prefs' = [prefs EXCEPT ![s] = [prefs[s] EXCEPT !.pc = "generate", !.touched = FALSE]]
        \/ prefs' = [prefs EXCEPT ![s] = Installed(s, ParseAndClamp(cfgFile))]
        \/ prefs' = [prefs EXCEPT ![s] = Installed(s, DefaultConf)]
    BY <1>8 DEF Recheck
  <2> QED BY <1>1, <1>5, <2>1
<1> QED BY <1>3, <1>4, <1>6, <1>7, <1>8

\* The steps of a running session that alter nothing it shows.
LEMMA AskShows ==
    ASSUME SessionInv, Showing, NEW s \in PrefSession,
           UnlockFor(s) \/ ActivateRow(s) \/ LockToUpdate(s) \/ ReadToUpdate(s) \/ SaveUi(s) \/ EndSession(s)
    PROVE  Showing'
<1> DEFINE me == prefs[s]
<1>0. DOMAIN prefs = PrefSession /\ \A t \in PrefSession : DOMAIN prefs[t] = SessionFields
  BY DEF SessionInv, PrefInv, Knows
<1>1. ASSUME NEW you, SameScreen(me, you), prefs' = [prefs EXCEPT ![s] = you] PROVE Showing'
  <2>1. Shows(you)
    BY <1>1, SameScreenShows DEF Showing
  <2> QED BY <1>0, <1>1, <2>1, OneShows
<1>2. CASE prefs' = [prefs EXCEPT ![s] = NotChanged(me)] /\ me.pc \in Ready
  BY <1>0, <1>1, <1>2, NotChangedShows
<1>3. CASE UnlockFor(s)
  <2>1. PICK v \in RegisteredVaults : prefs' = [prefs EXCEPT ![s].vault = v]
    BY <1>3 DEF UnlockFor
  <2> DEFINE you == [me EXCEPT !.vault = v]
  <2>2. SameScreen(me, you)
    BY <1>0 DEF SameScreen, SessionFields
  <2>3. prefs' = [prefs EXCEPT ![s] = you]
    BY <1>0, <2>1
  <2> HIDE DEF you
  <2> QED BY <1>1, <2>2, <2>3
<1>4. CASE ActivateRow(s)
  <2>1. PICK row \in {0, 1, 3, 4} :
           prefs' = [prefs EXCEPT ![s].pc = "updateLock", ![s].change = ChangeOf(prefs[s], row)]
    BY <1>4 DEF ActivateRow
  <2> DEFINE change == ChangeOf(me, row)
             you == [me EXCEPT !.pc = "updateLock", !.change = change]
  <2>2. me.pc \in Ready
    BY <1>4 DEF ActivateRow, PrefAt, Ready
  <2>3. prefs' = [prefs EXCEPT ![s] = you]
    BY <1>0, <2>1
  <2> HIDE DEF change
  <2>4. SameScreen(me, you)
    BY <1>0, <2>2 DEF SameScreen, SessionFields
  <2> HIDE DEF you
  <2> QED BY <1>1, <2>3, <2>4
<1>5. CASE LockToUpdate(s)
  <2>1. me.pc \in Ready
    BY <1>5 DEF LockToUpdate, PrefAt, Ready
  <2>2. CASE prefs' = [prefs EXCEPT ![s].pc = "updateRead"]
    <3> DEFINE you == [me EXCEPT !.pc = "updateRead"]
    <3>1. SameScreen(me, you)
      BY <1>0, <2>1 DEF SameScreen, SessionFields
    <3>2. prefs' = [prefs EXCEPT ![s] = you]
      BY <1>0, <2>2
    <3> HIDE DEF you
    <3> QED BY <1>1, <3>1, <3>2
  <2> QED BY <1>0, <1>2, <1>5, <2>1, <2>2 DEF LockToUpdate
<1>6. CASE ReadToUpdate(s)
  <2>1. me.pc \in Ready
    BY <1>6 DEF ReadToUpdate, PrefAt, Ready
  <2>2. CASE prefs' = [prefs EXCEPT ![s] = [prefs[s] EXCEPT !.pc = "updateWrite", !.touched = FALSE,
                             !.latest = Changed(Latest(s), prefs[s].change)]]
    <3> DEFINE new == Changed(Latest(s), me.change)
               you == [me EXCEPT !.pc = "updateWrite", !.touched = FALSE, !.latest = new]
    <3>1. prefs' = [prefs EXCEPT ![s] = you]
      BY <2>2
    <3> HIDE DEF new
    <3>2. SameScreen(me, you)
      BY <1>0, <2>1 DEF SameScreen, SessionFields
    <3> HIDE DEF you
    <3> QED BY <1>1, <3>1, <3>2
  <2> QED BY <1>2, <1>6, <2>1, <2>2 DEF ReadToUpdate
<1>7. CASE SaveUi(s)
  <2>1. PICK pins \in {"one", "two"} :
           LET ui == [prefs[s].ui EXCEPT !.pins[prefs[s].vault] = pins]
               mine == [prefs EXCEPT ![s].ui = ui]
           IN \/ prefs' = Wrote(mine, s, "uiMine")
              \/ prefs' = [mine EXCEPT ![s].uiMine = FALSE]
    BY <1>7 DEF SaveUi
  <2> DEFINE ui == [me.ui EXCEPT !.pins[me.vault] = pins]
             you == [me EXCEPT !.ui = ui]
  <2>2. \/ prefs' = Wrote([prefs EXCEPT ![s] = you], s, "uiMine")
        \/ prefs' = [[prefs EXCEPT ![s] = you] EXCEPT ![s].uiMine = FALSE]
    BY <1>0, <2>1
  <2> HIDE DEF ui
  <2>3. SameScreen(me, you) /\ DOMAIN you = SessionFields
    BY <1>0 DEF SameScreen, SessionFields
  <2> HIDE DEF you
  <2>4. \A t \in PrefSession :
          \E c \in BOOLEAN :
            \/ t # s /\ (prefs'[t] = prefs[t] \/ prefs'[t] = [prefs[t] EXCEPT !.uiMine = c])
            \/ t = s /\ prefs'[t] = [you EXCEPT !.uiMine = c]
    BY <1>0, <2>2 DEF Wrote
  <2>5. Shows(you)
    BY <2>3, SameScreenShows DEF Showing
  <2>6. ASSUME NEW t \in PrefSession PROVE Shows(prefs'[t])
    <3>1. ASSUME NEW old, Shows(old), DOMAIN old = SessionFields, NEW c, prefs'[t] = [old EXCEPT !.uiMine = c]
          PROVE  Shows(prefs'[t])
      <4> DEFINE new == [old EXCEPT !.uiMine = c]
      <4>1. SameScreen(old, new)
        BY <3>1, MarksShow
      <4>2. prefs'[t] = new
        BY <3>1
      <4> HIDE DEF new
      <4> QED BY <3>1, <4>1, <4>2, SameScreenShows
    <3>2. Shows(prefs[t]) /\ DOMAIN prefs[t] = SessionFields
      BY <1>0 DEF Showing
    <3> QED BY <2>3, <2>4, <2>5, <3>1, <3>2
  <2> QED BY <2>6 DEF Showing
<1>8. CASE EndSession(s)
  BY <1>0, <1>8, OffShows, OneShows DEF EndSession
<1> QED BY <1>3, <1>4, <1>5, <1>6, <1>7, <1>8

\* The steps that may write config.toml.
LEMMA WriteShows ==
    ASSUME SessionInv, Showing, NEW s \in PrefSession, Generate(s) \/ WriteUpdate(s)
    PROVE  Showing'
<1> DEFINE me == prefs[s]
<1>0. /\ DOMAIN prefs = PrefSession /\ Holds(cfgFile, uiFile, me)
      /\ \A t \in PrefSession : DOMAIN prefs[t] = SessionFields
  BY DEF SessionInv, PrefInv, Knows
<1>1. ASSUME NEW you, Shows(you), DOMAIN you = SessionFields,
             \/ prefs' = [prefs EXCEPT ![s] = you]
             \/ prefs' = [t \in PrefSession |-> [[prefs EXCEPT ![s] = you][t] EXCEPT !.cfgMine = FALSE]]
             \/ prefs' = Wrote([prefs EXCEPT ![s] = you], s, "cfgMine")
      PROVE  Showing'
  <2>1. CASE prefs' = [prefs EXCEPT ![s] = you]
    BY <1>0, <1>1, <2>1, OneShows
  <2>2. CASE \/ prefs' = [t \in PrefSession |-> [[prefs EXCEPT ![s] = you][t] EXCEPT !.cfgMine = FALSE]]
             \/ prefs' = Wrote([prefs EXCEPT ![s] = you], s, "cfgMine")
    <3>1. \A t \in PrefSession :
            \E c \in BOOLEAN : prefs'[t] = [[prefs EXCEPT ![s] = you][t] EXCEPT !.cfgMine = c]
      BY <2>2 DEF Wrote
    <3> QED BY <1>0, <1>1, <3>1, MarkedShow
  <2> QED BY <1>1, <2>1, <2>2
<1>2. CASE Generate(s)
  <2> DEFINE you == Installed(s, DefaultConf)
  <2>1. Shows(you)
    BY <1>0, InstalledShows
  <2>2. DOMAIN you = SessionFields
    <3>1. DOMAIN OffSession = SessionFields
      BY DEF OffSession, SessionFields
    <3> QED BY <1>0, <3>1 DEF Installed
  <2>3. \/ prefs' = [prefs EXCEPT ![s] = you]
        \/ prefs' = [t \in PrefSession |-> [[prefs EXCEPT ![s] = you][t] EXCEPT !.cfgMine = FALSE]]
    BY <1>2 DEF Generate
  <2> HIDE DEF you
  <2> QED BY <1>1, <2>1, <2>2, <2>3
<1>3. CASE WriteUpdate(s)
  <2>1. me.pc \in Ready /\ me.pc = "updateWrite"
    BY <1>3 DEF WriteUpdate, PrefAt, Ready
  <2>2. ConfOK(me.conf) /\ me.change.field \in {"sort", "dark", "light", "unlock", "leave"}
    BY <1>0, <2>1 DEF Holds, Ready
  <2>3. Shows(Adopted(me)) /\ DOMAIN Adopted(me) = SessionFields
    BY <1>0, <2>1, <2>2, AdoptedShows DEF Showing
  <2>4. Shows(NotChanged(me)) /\ DOMAIN NotChanged(me) = SessionFields
    BY <1>0, <2>1, NotChangedShows, SameScreenShows DEF Showing
  <2>5. \/ prefs' = Wrote([prefs EXCEPT ![s] = Adopted(me)], s, "cfgMine")
        \/ prefs' = [prefs EXCEPT ![s] = NotChanged(me)]
        \/ prefs' = [t \in PrefSession |-> [[prefs EXCEPT ![s] = NotChanged(me)][t] EXCEPT !.cfgMine = FALSE]]
    BY <1>3 DEF WriteUpdate
  <2> QED BY <1>1, <2>3, <2>4, <2>5
<1> QED BY <1>2, <1>3

LEMMA EditShows == ASSUME SessionInv, Showing, EditConfigByHand PROVE Showing'
<1> SUFFICES ASSUME NEW t \in PrefSession PROVE Shows(prefs'[t])
  BY DEF Showing
<1> DEFINE me == prefs[t]
           you == [me EXCEPT !.touched = TRUE, !.cfgMine = FALSE]
<1>1. DOMAIN me = SessionFields /\ Shows(me)
  BY DEF SessionInv, PrefInv, Knows, Showing
<1>2. prefs'[t] = you
  BY DEF EditConfigByHand
<1>3. SameScreen(me, you)
  BY <1>1 DEF SameScreen, SessionFields
<1> HIDE DEF you
<1> QED BY <1>1, <1>2, <1>3, SameScreenShows

\* Every step keeps what a session shows what its configuration says.
LEMMA ShowingStep == SessionInv /\ Showing /\ [PrefNext]_prefVars => Showing'
<1> SUFFICES ASSUME SessionInv, Showing, [PrefNext]_prefVars PROVE Showing'
  OBVIOUS
<1>1. CASE UNCHANGED prefVars
  BY <1>1 DEF prefVars, Showing
<1>2. CASE PrefNext
  BY <1>2, EditShows, StartShows, AskShows, WriteShows DEF PrefNext
<1> QED BY <1>1, <1>2

\* Every session runs with the theme, the mouse and the protection that its flags
\* and its environment ask for, within the ranges that the screen relies on, under
\* every interleaving of sessions, edits by hand and kills.  A session that was the
\* last to write config.toml reads back from it what it has in memory, and the same
\* launch would show the theme, the mouse and the keys that it shows, unless it has
\* adopted a change that was not its own (App::update_user_config does not install
\* it) or its user has picked a theme over --theme.  A session that was the last to
\* write tui.toml reads back what it has in memory.
THEOREM SessionsAreAsConfigured == PrefSpec => []SessionIsAsConfigured
<1>1. SessionInv /\ Showing => SessionIsAsConfigured
  <2> SUFFICES ASSUME SessionInv, Showing PROVE SessionIsAsConfigured
    OBVIOUS
  <2>1. \A s \in PrefSession : Holds(cfgFile, uiFile, prefs[s]) /\ (prefs[s].pc \in Locked => cfgLock = s)
    BY DEF SessionInv, PrefInv
  <2>2. PrefTypeOK
    BY <2>1 DEF SessionInv, PrefTypeOK, Holds, ConfOK, Locked
  <2>3. \A s \in RunningSessions : s \in PrefSession /\ prefs[s].pc \in Ready
    BY DEF RunningSessions, PrefAt, Ready
  <2>4. \A s \in RunningSessions : FlagsOK(prefs[s])
    BY <2>1, <2>3 DEF Holds
  <2>5. FlagsAreHonoured
    BY <2>4 DEF FlagsOK, ThemeOK, FlagsAreHonoured
  <2>6. RestartIsFaithful
    <3>1. \A s \in RunningSessions : Shows(prefs[s])
      BY <2>3 DEF Showing
    <3>2. \A s \in RunningSessions :
            prefs[s].cfgMine => cfgFile.kind = "toml" /\ ParseAndClamp(cfgFile) = prefs[s].conf
      BY <2>1, <2>3 DEF Holds
    <3>3. \A s \in RunningSessions : prefs[s].uiMine => ParseUi(uiFile) = prefs[s].ui
      BY <2>1, <2>3 DEF Holds
    <3> QED BY <2>3, <3>1, <3>2, <3>3 DEF Shows, RestartIsFaithful
  <2>7. AccessibilityWins /\ TierIsKept
    BY <2>4 DEF FlagsOK, ThemeOK, AccessibilityWins, TierIsKept
  <2>8. SignalsDiffer
    BY SignalsAlwaysCarried DEF SignalsDiffer
  <2> QED BY <2>2, <2>5, <2>6, <2>7, <2>8 DEF SessionIsAsConfigured
<1>2. PrefSpec => [](SessionInv /\ Showing)
  BY SessionInvInit, SessionInvStep, ShowingInit, ShowingStep, PTL DEF PrefSpec
<1> QED BY <1>1, <1>2, PTL

(***************************************************************************)
(* Terminal.                                                               *)
(*                                                                         *)
(* The invariant says for each place of the job what state the terminal is *)
(* in and what a handler would make of it, and, for a new password, how many *)
(* lines its attempts have cost.                                           *)
(***************************************************************************)

JobFields == {"prog", "pc", "i", "echoOff", "original", "failed", "first", "line", "attempt",
              "lines", "result", "exit", "at"}

\* The terminal in a mode, on the main screen and without mouse capture.
IsTty(mode) == tty = [mode |-> mode, alt |-> FALSE, mouse |-> FALSE]

TtyOK == tty \in [mode : {"cooked", "noecho", "raw"}, alt : BOOLEAN, mouse : BOOLEAN]

PromptPc == {"agent", "label", "disable", "arm", "install", "read", "restore", "disarm", "returned"}
TuiPc == {"hooks", "raw", "alt", "capture", "loop", "dropMouse", "dropAlt", "dropRaw"}

Covered == {"INT", "TERM", "QUIT"}

\* What holds while a prompt is asked and after it.
PromptHolds ==
  /\ worker = "none"
  /\ termJob.pc \in PromptPc \cup {"ended"}
  /\ saved \in {NoLine, "cooked"}
  /\ termJob.pc \in {"agent", "label", "disable", "disarm", "returned"} => IsTty("cooked")
  /\ termJob.pc \in {"arm", "install"} => IsTty("noecho") /\ termJob.echoOff /\ termJob.original = "cooked"
  /\ termJob.pc = "install" =>
        /\ saved = "cooked" /\ termJob.i \in 1..3
        /\ \A k \in 1..3 : k < termJob.i => PromptSignals[k] \in handled
  /\ termJob.pc \in {"read", "restore"} =>
        \/ /\ termJob.echoOff /\ IsTty("noecho") /\ termJob.original = "cooked"
           /\ saved = "cooked" /\ Covered \subseteq handled
        \/ termJob.pc = "read" /\ ~termJob.echoOff /\ IsTty("cooked")
  /\ termJob.pc \in {"restore", "disarm"} => termJob.i \in 1..3
  /\ termJob.pc = "ended" /\ termJob.exit # "HUP" /\ termJob.at \notin {"arm", "install"} => IsTty("cooked")

\* What holds while the TUI has the terminal and after it.
TuiHolds ==
  /\ termJob.pc \in TuiPc \cup {"ended"}
  /\ worker \in {"none", "running", "lost"}
  /\ termJob.pc \in {"hooks", "raw", "alt"} => worker = "none"
  /\ termJob.pc \in {"hooks", "raw"} => IsTty("cooked")
  /\ termJob.pc \in {"hooks", "raw"} => saved \in {NoLine, "cooked"}
  /\ termJob.pc = "raw" => saved \in {NoLine, "cooked"} /\ (isTty => saved = "cooked")
  /\ termJob.pc \in TuiPc \ {"hooks"} => {"HUP", "TERM"} \subseteq handled
  /\ termJob.pc \in TuiPc \ {"hooks", "raw"} => saved = "cooked"
  /\ termJob.pc \in {"alt", "capture"} => tty.mouse = FALSE
  /\ termJob.pc \in {"alt", "dropRaw"} => tty.alt = FALSE /\ tty.mouse = FALSE
  /\ termJob.pc = "dropAlt" => tty.mouse = FALSE
  /\ termJob.pc = "ended" /\ termJob.exit \notin {"INT", "QUIT"} => IsTty("cooked")

\* The lines a new password has cost: two for each attempt that failed, and
\* one when the first line of this one has been read.
Spent == 2 * (termJob.attempt - 1) + IF termJob.first = NoLine THEN 0 ELSE 1

\* An attempt that is allowed.
Tries(attempt) == attempt \in Nat /\ 1 <= attempt /\ attempt <= MaxAttempts

\* What holds while a new password is asked for.
Confirming ==
  /\ termJob.lines \in Seq(Typed \cup {EndOfInput})
  /\ Tries(termJob.attempt)
  /\ termJob.pc \in {"label", "disable", "arm", "install", "read"} =>
        /\ Len(termJob.lines) = Spent
        /\ termJob.first # NoLine => termJob.lines[Len(termJob.lines)] = termJob.first
  /\ termJob.pc \in {"restore", "disarm", "returned"} =>
        /\ Len(termJob.lines) = Spent + 1 /\ termJob.lines[Len(termJob.lines)] = termJob.line
        /\ termJob.first # NoLine => termJob.lines[Len(termJob.lines) - 1] = termJob.first
  /\ termJob.pc # "ended" => termJob.exit = "none"
  /\ termJob.exit = "ok" => ConfirmedTwice

TermInv ==
  /\ DOMAIN termJob = JobFields
  /\ TtyOK /\ isTty \in BOOLEAN
  /\ termJob.prog \in {"unlock", "create", "tui"}
  /\ termJob.prog # "tui" => PromptHolds
  /\ termJob.prog = "create" => Confirming /\ termJob.pc # "agent"
  /\ termJob.prog = "tui" => TuiHolds

\* There is a first attempt.
LEMMA Attempts == MaxAttempts \in Nat /\ 1 <= MaxAttempts
<1>1. MaxAttempts \in Nat \ {0}
  BY TerminalAssumption DEF TerminalAssumption
<1> QED BY ONLY <1>1

\* How many lines the attempts so far have cost, by cases.
LEMMA SpentIs ==
  ASSUME Tries(termJob.attempt)
  PROVE  /\ termJob.first = NoLine => Spent = 2 * (termJob.attempt - 1)
         /\ termJob.first # NoLine => Spent = 2 * (termJob.attempt - 1) + 1
         /\ Spent \in Nat
<1>0. termJob.attempt \in Nat /\ 1 <= termJob.attempt
  BY DEF Tries
<1> DEFINE twice == 2 * (termJob.attempt - 1)
<1>1. twice \in Nat
  BY <1>0
<1>2. CASE termJob.first = NoLine
  <2>1. Spent = twice + 0
    BY <1>2 DEF Spent
  <2> QED BY <1>1, <1>2, <2>1
<1>3. CASE termJob.first # NoLine
  <2>1. Spent = twice + 1
    BY <1>3 DEF Spent
  <2> QED BY <1>1, <1>3, <2>1
<1> QED BY <1>2, <1>3

\* What a line adds to those that were typed.
LEMMA Appending ==
  ASSUME NEW S, NEW s \in Seq(S), NEW x \in S
  PROVE  /\ Append(s, x) \in Seq(S) /\ Len(s) \in Nat /\ Len(Append(s, x)) = Len(s) + 1
         /\ Append(s, x)[Len(s) + 1] = x
         /\ Len(s) # 0 => Append(s, x)[Len(s)] = s[Len(s)]
<1>1. Append(s, x) \in Seq(S) /\ Len(s) \in Nat /\ Len(Append(s, x)) = Len(s) + 1
  OBVIOUS
<1>2. Append(s, x)[Len(s) + 1] = x
  OBVIOUS
<1>3. Len(s) # 0 => Append(s, x)[Len(s)] = s[Len(s)]
  OBVIOUS
<1> QED BY <1>1, <1>2, <1>3

\* The last line typed is one of those that can be.
LEMMA Lasting ==
  ASSUME NEW S, NEW s \in Seq(S), NEW n \in Nat, Len(s) = n + 1
  PROVE  s[Len(s)] \in S
OBVIOUS

\* The invariant is as strong as the property it is for.
LEMMA TermInvGivesBack == TermInv => TerminalIsGivenBack
<1> SUFFICES ASSUME TermInv PROVE TerminalIsGivenBack
  OBVIOUS
<1>1. IsTty("cooked") => tty = PlainTty
  BY DEF IsTty, PlainTty
<1>2. EchoComesBack
  BY <1>1 DEF TermInv, PromptHolds, EchoComesBack, TermAt
<1>3. TerminalIsRestored
  BY <1>1 DEF TermInv, TuiHolds, TerminalIsRestored, TermAt
<1>4. ConfirmedTwice
  BY DEF TermInv, Confirming, ConfirmedTwice
<1> QED BY <1>2, <1>3, <1>4 DEF TerminalIsGivenBack

\* Every job starts on a terminal that echoes.
LEMMA TermInvInit == TermInit => TermInv
<1> SUFFICES ASSUME TermInit PROVE TermInv
  OBVIOUS
<1>0. TtyOK
  BY DEF TermInit, PlainTty, TtyOK
<1>1. IsTty("cooked")
  BY DEF TermInit, PlainTty, IsTty
<1>2. ASSUME NEW p, NEW q, termJob = Job(p, q)
      PROVE  /\ DOMAIN termJob = JobFields /\ termJob.prog = p /\ termJob.pc = q
             /\ termJob.exit = "none" /\ termJob.lines = <<>> /\ termJob.attempt = 1
             /\ termJob.first = NoLine
  BY <1>2 DEF Job, JobFields
<1>3. CASE termJob = Job("unlock", "agent")
  BY <1>0, <1>1, <1>2, <1>3 DEF TermInit, TermInv, PromptHolds, PromptPc
<1>4. CASE termJob = Job("create", "label")
  <2>1. Confirming
    <3>1. <<>> \in Seq(Typed \cup {EndOfInput}) /\ Len(<<>>) = 0
      OBVIOUS
    <3>2. Tries(1)
      BY Attempts DEF Tries
    <3>3. Len(termJob.lines) = Spent
      BY <1>2, <1>4, <3>1 DEF Spent
    <3>4. termJob.pc = "label" /\ termJob.first = NoLine /\ termJob.exit = "none"
      BY <1>2, <1>4
    <3>5. termJob.lines \in Seq(Typed \cup {EndOfInput}) /\ Tries(termJob.attempt)
      BY <1>2, <1>4, <3>1, <3>2
    <3> QED BY <3>3, <3>4, <3>5 DEF Confirming
  <2> QED BY <1>0, <1>1, <1>2, <1>4, <2>1 DEF TermInit, TermInv, PromptHolds, PromptPc
<1>5. CASE termJob = Job("tui", "hooks")
  BY <1>0, <1>1, <1>2, <1>5 DEF TermInit, TermInv, TuiHolds, TuiPc, IsTty
<1> QED BY <1>3, <1>4, <1>5 DEF TermInit

\* Every step of a prompt and of the TUI, and every signal at every place of them,
\* keeps the invariant.
LEMMA TermInvStep == TermInv /\ [TermNext]_termVars => TermInv'
<1> SUFFICES ASSUME TermInv, [TermNext]_termVars PROVE TermInv'
  OBVIOUS
<1> USE DEF TermAt
<1>0. /\ DOMAIN termJob = JobFields /\ TtyOK /\ isTty \in BOOLEAN
      /\ termJob.prog \in {"unlock", "create", "tui"}
  BY DEF TermInv
<1>00. NoLine # "cooked" /\ NoLine \notin Typed \cup {EndOfInput}
  BY TerminalAssumption DEF TerminalAssumption
<1>a. ASSUME termJob.prog # "tui", termJob' = termJob \/ termJob'.prog = termJob.prog,
             DOMAIN termJob' = JobFields, PromptHolds', (termJob.prog = "create" => Confirming' /\ termJob'.pc # "agent"),
             TtyOK', isTty' = isTty
      PROVE  TermInv'
  BY <1>0, <1>a DEF TermInv
<1>b. ASSUME termJob.prog = "tui", termJob'.prog = termJob.prog,
             DOMAIN termJob' = JobFields, TuiHolds', TtyOK', isTty' = isTty
      PROVE  TermInv'
  BY <1>0, <1>b DEF TermInv
<1>1. CASE UNCHANGED termVars
  <2>1. TtyOK' /\ PromptHolds' = PromptHolds /\ TuiHolds' = TuiHolds
    BY <1>0, <1>1 DEF termVars, TtyOK, PromptHolds, TuiHolds, IsTty
  <2>2. Confirming' = Confirming
    BY <1>1 DEF termVars, Confirming, Spent, ConfirmedTwice
  <2> QED BY <1>1, <2>1, <2>2 DEF termVars, TermInv
<1>2. CASE termJob.prog # "tui" /\ TermNext
  <2>0. PromptHolds /\ (termJob.prog = "create" => Confirming /\ termJob.pc # "agent")
    BY <1>2 DEF TermInv
  <2>1. CASE AskAgent
    <3>1. DOMAIN termJob' = JobFields /\ termJob'.prog = termJob.prog /\ termJob'.pc \in {"label", "ended"}
      BY <2>1, <1>0 DEF AskAgent, Go, Exit, Ended, JobFields
    <3>2. PromptHolds'
      BY <2>0, <2>1, <3>1 DEF AskAgent, PromptHolds, PromptPc, IsTty
    <3>3. termJob.prog # "create"
      BY <2>0, <2>1 DEF AskAgent
    <3>4. TtyOK' /\ isTty' = isTty
      BY <1>0, <2>1 DEF AskAgent, TtyOK
    <3> QED BY <1>a, <1>2, <3>1, <3>2, <3>3, <3>4
  <2>2. CASE WriteLabel
    <3>1. DOMAIN termJob' = JobFields /\ termJob'.prog = termJob.prog
      BY <2>2, <1>0 DEF WriteLabel, Go, Exit, Ended, Again, JobFields
    <3>2. PromptHolds'
      BY <1>0, <2>0, <2>2, <3>1 DEF WriteLabel, Go, Exit, Ended, JobFields, PromptHolds, PromptPc, IsTty
    <3>3. TtyOK' /\ isTty' = isTty
      BY <1>0, <2>0, <2>2, <3>1 DEF WriteLabel, TtyOK, IsTty, PromptHolds, PromptPc
    <3>4. termJob.prog = "create" => Confirming' /\ termJob'.pc # "agent"
      <4> SUFFICES ASSUME Confirming, termJob.prog = "create" PROVE Confirming' /\ termJob'.pc # "agent"
        BY <2>0
      <4> QED BY <1>0, <2>2, <3>1 DEF WriteLabel, Go, Exit, Ended, JobFields, Confirming, Spent, ConfirmedTwice
    <3> QED BY <1>a, <1>2, <3>1, <3>2, <3>3, <3>4
  <2>3. CASE DisableEcho
    <3>1. DOMAIN termJob' = JobFields /\ termJob'.prog = termJob.prog
      BY <2>3, <1>0 DEF DisableEcho, Go, Exit, Ended, Again, JobFields
    <3>2. PromptHolds'
      <4>1. worker = "none" /\ saved \in {NoLine, "cooked"} /\ IsTty("cooked")
        BY <2>0, <2>3 DEF DisableEcho, PromptHolds
      <4>2. worker' = worker /\ saved' = saved
        BY <2>3 DEF DisableEcho
      <4>3. CASE /\ tty' = [tty EXCEPT !.mode = "noecho"]
                 /\ termJob' = [termJob EXCEPT !.pc = "arm", !.echoOff = TRUE, !.original = tty.mode]
        <5>1. IsTty("noecho")'
          BY <4>1, <4>3 DEF IsTty
        <5>2. termJob'.pc = "arm" /\ termJob'.echoOff /\ termJob'.original = "cooked"
          BY <1>0, <4>1, <4>3 DEF JobFields, IsTty
        <5> QED BY <4>1, <4>2, <5>1, <5>2 DEF PromptHolds, PromptPc
      <4>4. CASE UNCHANGED tty /\ termJob' = [termJob EXCEPT !.pc = "read", !.echoOff = FALSE]
        <5>1. IsTty("cooked")'
          BY <4>1, <4>4 DEF IsTty
        <5>2. termJob'.pc = "read" /\ ~termJob'.echoOff
          BY <1>0, <4>4 DEF JobFields
        <5> QED BY <4>1, <4>2, <5>1, <5>2 DEF PromptHolds, PromptPc
      <4> QED BY <2>3, <4>3, <4>4 DEF DisableEcho
    <3>3. TtyOK' /\ isTty' = isTty
      BY <1>0, <2>0, <2>3, <3>1 DEF DisableEcho, TtyOK, IsTty, PromptHolds, PromptPc
    <3>4. termJob.prog = "create" => Confirming' /\ termJob'.pc # "agent"
      <4> SUFFICES ASSUME Confirming, termJob.prog = "create" PROVE Confirming' /\ termJob'.pc # "agent"
        BY <2>0
      <4> QED BY <1>0, <2>3, <3>1 DEF DisableEcho, Go, Exit, Ended, JobFields, Confirming, Spent, ConfirmedTwice
    <3> QED BY <1>a, <1>2, <3>1, <3>2, <3>3, <3>4
  <2>4. CASE ArmSaved
    <3>1. DOMAIN termJob' = JobFields /\ termJob'.prog = termJob.prog
      BY <2>4, <1>0 DEF ArmSaved, Go, Exit, Ended, Again, JobFields
    <3>2. PromptHolds'
      BY <1>0, <2>0, <2>4, <3>1 DEF ArmSaved, Go, Exit, Ended, JobFields, PromptHolds, PromptPc, IsTty
    <3>3. TtyOK' /\ isTty' = isTty
      BY <1>0, <2>0, <2>4, <3>1 DEF ArmSaved, TtyOK, IsTty, PromptHolds, PromptPc
    <3>4. termJob.prog = "create" => Confirming' /\ termJob'.pc # "agent"
      <4> SUFFICES ASSUME Confirming, termJob.prog = "create" PROVE Confirming' /\ termJob'.pc # "agent"
        BY <2>0
      <4> QED BY <1>0, <2>4, <3>1 DEF ArmSaved, Go, Exit, Ended, JobFields, Confirming, Spent, ConfirmedTwice
    <3> QED BY <1>a, <1>2, <3>1, <3>2, <3>3, <3>4
  <2>5. CASE InstallHandler
    <3>1. DOMAIN termJob' = JobFields /\ termJob'.prog = termJob.prog
      BY <2>5, <1>0 DEF InstallHandler, Go, Exit, Ended, Again, JobFields
    <3>2. PromptHolds'
      BY <1>0, <2>0, <2>5, <3>1 DEF InstallHandler, Go, Exit, Ended, JobFields, PromptHolds, PromptPc, IsTty, PromptSignals, Covered
    <3>3. TtyOK' /\ isTty' = isTty
      BY <1>0, <2>0, <2>5, <3>1 DEF InstallHandler, TtyOK, IsTty, PromptHolds, PromptPc
    <3>4. termJob.prog = "create" => Confirming' /\ termJob'.pc # "agent"
      <4> SUFFICES ASSUME Confirming, termJob.prog = "create" PROVE Confirming' /\ termJob'.pc # "agent"
        BY <2>0
      <4> QED BY <1>0, <2>5, <3>1 DEF InstallHandler, Go, Exit, Ended, JobFields, Confirming, Spent, ConfirmedTwice, PromptSignals
    <3> QED BY <1>a, <1>2, <3>1, <3>2, <3>3, <3>4
  <2>6. CASE ReadLine
    <3>1. DOMAIN termJob' = JobFields /\ termJob'.prog = termJob.prog
      BY <2>6, <1>0 DEF ReadLine, Go, Exit, Ended, Again, JobFields
    <3>2. PromptHolds'
      <4>1. worker' = worker /\ saved' = saved /\ tty' = tty /\ handled' = handled
        BY <2>6 DEF ReadLine
      <4>2. /\ termJob'.pc = IF termJob.echoOff THEN "restore" ELSE "returned"
            /\ termJob'.echoOff = termJob.echoOff /\ termJob'.original = termJob.original
            /\ termJob'.i = 1
        BY <1>0, <2>6 DEF ReadLine, JobFields, Cleanup
      <4>3. TermAt("read")
        BY <2>6 DEF ReadLine
      <4> QED BY <2>0, <4>1, <4>2, <4>3 DEF PromptHolds, PromptPc, IsTty
    <3>3. TtyOK' /\ isTty' = isTty
      BY <1>0, <2>0, <2>6, <3>1 DEF ReadLine, TtyOK, IsTty, PromptHolds, PromptPc
    <3>4. termJob.prog = "create" => Confirming' /\ termJob'.pc # "agent"
      <4> SUFFICES ASSUME Confirming, termJob.prog = "create" PROVE Confirming' /\ termJob'.pc # "agent"
        BY <2>0
      <4>1. PICK line \in Typed \cup {EndOfInput}, ok \in BOOLEAN :
               termJob' = [termJob EXCEPT !.pc = IF termJob.echoOff THEN Cleanup[1] ELSE "returned",
                             !.line = line, !.failed = ~ok, !.lines = Append(@, line), !.i = 1]
        BY <2>6 DEF ReadLine
      <4>2. /\ termJob'.pc \in {"restore", "returned"} /\ termJob'.line = line
            /\ termJob'.lines = Append(termJob.lines, line)
            /\ termJob'.attempt = termJob.attempt /\ termJob'.first = termJob.first
            /\ termJob'.exit = termJob.exit
        BY <1>0, <4>1 DEF JobFields, Cleanup
      <4>3. /\ termJob.lines \in Seq(Typed \cup {EndOfInput}) /\ Tries(termJob.attempt)
            /\ Len(termJob.lines) = Spent
            /\ termJob.first # NoLine => termJob.lines[Len(termJob.lines)] = termJob.first
            /\ termJob.exit = "none"
        BY <2>6 DEF ReadLine, Confirming
      <4>4. Spent' = Spent /\ Spent \in Nat /\ (termJob.first # NoLine => Spent # 0)
        <5>1. Spent' = Spent
          BY <4>2 DEF Spent
        <5>2. termJob.first # NoLine => Spent # 0
          <6>1. 2 * (termJob.attempt - 1) \in Nat
            BY <4>3 DEF Tries
          <6> QED BY <4>3, <6>1, SpentIs
        <5> QED BY <4>3, <5>1, <5>2, SpentIs
      <4>5. /\ termJob'.lines \in Seq(Typed \cup {EndOfInput}) /\ Len(termJob'.lines) = Spent' + 1
            /\ termJob'.lines[Len(termJob'.lines)] = termJob'.line
            /\ termJob'.first # NoLine => termJob'.lines[Len(termJob'.lines) - 1] = termJob'.first
        <5> DEFINE t == Append(termJob.lines, line)
        <5>1. /\ t \in Seq(Typed \cup {EndOfInput}) /\ Len(t) = Spent + 1 /\ t[Spent + 1] = line
              /\ Spent # 0 => t[Spent] = termJob.lines[Spent]
          BY <4>3, Appending
        <5> HIDE DEF t
        <5>2. Spent + 1 - 1 = Spent
          BY <4>4
        <5>3. termJob'.lines = t
          BY <4>2 DEF t
        <5> QED BY <4>2, <4>3, <4>4, <5>1, <5>2, <5>3
      <4> QED BY <4>2, <4>3, <4>5 DEF Confirming
    <3> QED BY <1>a, <1>2, <3>1, <3>2, <3>3, <3>4
  <2>7. CASE RestoreEcho
    <3>1. DOMAIN termJob' = JobFields /\ termJob'.prog = termJob.prog
      BY <2>7, <1>0 DEF RestoreEcho, Go, Exit, Ended, Again, JobFields
    <3>2. PromptHolds'
      <4>1. worker' = worker /\ saved' = saved /\ tty' = [tty EXCEPT !.mode = termJob.original]
        BY <2>7 DEF RestoreEcho
      <4>2. AfterCleanup("restore") = "disarm"
        BY DEF AfterCleanup, Cleanup
      <4>3. termJob'.pc = "disarm" /\ termJob'.i = termJob.i
        BY <1>0, <2>7, <4>2 DEF RestoreEcho, Go, JobFields
      <4>4. /\ IsTty("noecho") /\ termJob.original = "cooked" /\ worker = "none" /\ saved = "cooked"
            /\ termJob.i \in 1..3
        BY <2>0, <2>7 DEF RestoreEcho, PromptHolds
      <4>5. IsTty("cooked")'
        BY <4>1, <4>4 DEF IsTty
      <4> QED BY <4>1, <4>3, <4>4, <4>5 DEF PromptHolds, PromptPc
    <3>3. TtyOK' /\ isTty' = isTty
      BY <1>0, <2>0, <2>7, <3>1 DEF RestoreEcho, TtyOK, IsTty, PromptHolds, PromptPc
    <3>4. termJob.prog = "create" => Confirming' /\ termJob'.pc # "agent"
      <4> SUFFICES ASSUME Confirming, termJob.prog = "create" PROVE Confirming' /\ termJob'.pc # "agent"
        BY <2>0
      <4> QED BY <1>0, <2>7, <3>1 DEF RestoreEcho, Go, Exit, Ended, JobFields, Confirming, Spent, ConfirmedTwice, Cleanup, AfterCleanup
    <3> QED BY <1>a, <1>2, <3>1, <3>2, <3>3, <3>4
  <2>8. CASE Disarm
    <3>1. DOMAIN termJob' = JobFields /\ termJob'.prog = termJob.prog
      BY <2>8, <1>0 DEF Disarm, Go, Exit, Ended, Again, JobFields
    <3>2. PromptHolds'
      BY <1>0, <2>0, <2>8, <3>1 DEF Disarm, Go, Exit, Ended, JobFields, PromptHolds, PromptPc, IsTty, Cleanup, AfterCleanup, PromptSignals
    <3>3. TtyOK' /\ isTty' = isTty
      BY <1>0, <2>0, <2>8, <3>1 DEF Disarm, TtyOK, IsTty, PromptHolds, PromptPc
    <3>4. termJob.prog = "create" => Confirming' /\ termJob'.pc # "agent"
      <4> SUFFICES ASSUME Confirming, termJob.prog = "create" PROVE Confirming' /\ termJob'.pc # "agent"
        BY <2>0
      <4> QED BY <1>0, <2>8, <3>1 DEF Disarm, Go, Exit, Ended, JobFields, Confirming, Spent, ConfirmedTwice, Cleanup, AfterCleanup, PromptSignals
    <3> QED BY <1>a, <1>2, <3>1, <3>2, <3>3, <3>4
  <2>9. CASE PromptAnswered
    <3>1. DOMAIN termJob' = JobFields /\ termJob'.prog = termJob.prog
      BY <2>9, <1>0 DEF PromptAnswered, Go, Exit, Ended, Again, JobFields
    <3>2. PromptHolds'
      BY <1>0, <2>0, <2>9, <3>1 DEF PromptAnswered, Go, Exit, Ended, JobFields, PromptHolds, PromptPc, IsTty, Again
    <3>3. TtyOK' /\ isTty' = isTty
      BY <1>0, <2>0, <2>9, <3>1 DEF PromptAnswered, TtyOK, IsTty, PromptHolds, PromptPc
    <3>4. termJob.prog = "create" => Confirming' /\ termJob'.pc # "agent"
      <4> SUFFICES ASSUME Confirming, termJob.prog = "create" PROVE Confirming' /\ termJob'.pc # "agent"
        BY <2>0
      <4>1. /\ termJob.lines \in Seq(Typed \cup {EndOfInput}) /\ Tries(termJob.attempt)
            /\ Len(termJob.lines) = Spent + 1
            /\ termJob.lines[Len(termJob.lines)] = termJob.line
            /\ termJob.first # NoLine => termJob.lines[Len(termJob.lines) - 1] = termJob.first
            /\ termJob.exit = "none" /\ termJob.pc = "returned"
        BY <2>9 DEF PromptAnswered, Confirming
      <4>2. MaxAttempts \in Nat /\ termJob.attempt \in Nat /\ 1 <= termJob.attempt /\ termJob.attempt <= MaxAttempts
        BY Attempts, <4>1 DEF Tries
      <4>3. termJob.line \in Typed \cup {EndOfInput}
        BY <4>1, SpentIs, Lasting
      <4>4. CASE termJob.failed
        <5>1. /\ termJob'.pc = "ended" /\ termJob'.exit = "error" /\ termJob'.lines = termJob.lines
              /\ termJob'.attempt = termJob.attempt
          BY <1>0, <2>9, <4>4 DEF PromptAnswered, Ended, JobFields
        <5> QED BY <4>1, <5>1 DEF Confirming
      <4>5. CASE ~termJob.failed /\ termJob.line = termJob.first
        <5>1. /\ termJob'.pc = "ended" /\ termJob'.exit = "ok" /\ termJob'.lines = termJob.lines
              /\ termJob'.attempt = termJob.attempt /\ termJob'.result = termJob.line
          BY <1>0, <2>9, <4>5 DEF PromptAnswered, Ended, JobFields
        <5>2. termJob.first # NoLine
          BY <1>00, <4>3, <4>5
        <5>3. Len(termJob.lines) = 2 * termJob.attempt
          BY <4>1, <4>2, <5>2, SpentIs
        <5>4. 2 * termJob.attempt >= 2 /\ 2 * termJob.attempt <= 2 * MaxAttempts /\ (2 * termJob.attempt) % 2 = 0
          BY <4>2
        <5>5. ConfirmedTwice'
          BY <4>1, <4>5, <5>1, <5>2, <5>3, <5>4 DEF ConfirmedTwice
        <5> QED BY <4>1, <5>1, <5>5 DEF Confirming
      <4>6. CASE ~termJob.failed /\ termJob.line # termJob.first /\ termJob.first = NoLine
        <5>1. /\ termJob'.pc = "label" /\ termJob'.exit = "none" /\ termJob'.lines = termJob.lines
              /\ termJob'.attempt = termJob.attempt /\ termJob'.first = termJob.line
          BY <1>0, <2>9, <4>1, <4>6 DEF PromptAnswered, JobFields
        <5>2. termJob.line # NoLine
          BY <1>00, <4>3
        <5>3. Len(termJob'.lines) = Spent'
          <6>1. Spent' = 2 * (termJob.attempt - 1) + 1
            BY <5>1, <5>2 DEF Spent
          <6> QED BY <4>1, <4>6, <5>1, <6>1, SpentIs
        <5> QED BY <4>1, <5>1, <5>3 DEF Confirming
      <4>7. CASE ~termJob.failed /\ termJob.line # termJob.first /\ termJob.first # NoLine /\ termJob.attempt = MaxAttempts
        <5>1. /\ termJob'.pc = "ended" /\ termJob'.exit = "error" /\ termJob'.lines = termJob.lines
              /\ termJob'.attempt = termJob.attempt
          BY <1>0, <2>9, <4>7 DEF PromptAnswered, Ended, JobFields
        <5> QED BY <4>1, <5>1 DEF Confirming
      <4>8. CASE ~termJob.failed /\ termJob.line # termJob.first /\ termJob.first # NoLine /\ termJob.attempt # MaxAttempts
        <5>1. /\ termJob'.pc = "label" /\ termJob'.exit = "none" /\ termJob'.lines = termJob.lines
              /\ termJob'.attempt = termJob.attempt + 1 /\ termJob'.first = NoLine
          BY <1>0, <2>9, <4>1, <4>8 DEF PromptAnswered, Again, JobFields
        <5>2. Len(termJob'.lines) = Spent'
          <6>1. Spent' = 2 * (termJob'.attempt - 1) + 0
            BY <5>1 DEF Spent
          <6>2. Len(termJob.lines) = 2 * (termJob.attempt - 1) + 1 + 1
            BY <4>1, <4>8, SpentIs
          <6>3. 2 * (termJob.attempt - 1) + 1 + 1 = 2 * (termJob.attempt + 1 - 1) + 0
            BY <4>2
          <6>4. Spent' = 2 * (termJob.attempt + 1 - 1) + 0
            BY <4>2, <5>1, <6>1
          <6> QED BY <5>1, <6>2, <6>3, <6>4
        <5>3. Tries(termJob'.attempt)
          BY <4>2, <4>8, <5>1 DEF Tries
        <5> QED BY <4>1, <5>1, <5>2, <5>3 DEF Confirming
      <4> QED BY <4>4, <4>5, <4>6, <4>7, <4>8
    <3> QED BY <1>a, <1>2, <3>1, <3>2, <3>3, <3>4
  <2>10. ASSUME NEW sig \in Signals, Signal(sig) PROVE TermInv'
    <3>1. DOMAIN termJob' = JobFields /\ termJob'.prog = termJob.prog
      BY <2>10, <1>0 DEF Signal, Ended, JobFields
    <3>2. PromptHolds'
      <4>1. worker' = worker /\ saved' = saved /\ tty' = IF sig \in handled THEN AfterHandler ELSE tty
        BY <2>10 DEF Signal
      <4>2. termJob'.pc = "ended" /\ termJob'.exit = sig /\ termJob'.at = termJob.pc /\ termJob.pc # "ended"
        BY <1>0, <2>10 DEF Signal, Ended, JobFields
      <4>3. AfterHandler = [mode |-> IF saved # NoLine THEN saved ELSE tty.mode, alt |-> tty.alt, mouse |-> tty.mouse]
        BY <1>0, <1>2 DEF AfterHandler, TtyOK
      <4>4. CASE IsTty("cooked")
        BY <2>0, <4>1, <4>2, <4>3, <4>4 DEF PromptHolds, PromptPc, IsTty
      <4>5. CASE termJob.pc \in {"read", "restore"} /\ ~IsTty("cooked")
        <5>1. IsTty("noecho") /\ saved = "cooked" /\ Covered \subseteq handled
          BY <2>0, <4>5 DEF PromptHolds
        <5>2. sig = "HUP" \/ sig \in handled
          BY <5>1 DEF Covered, Signals
        <5>3. sig \in handled => IsTty("cooked")'
          BY <1>00, <4>1, <4>3, <5>1 DEF IsTty
        <5> QED BY <2>0, <4>1, <4>2, <5>2, <5>3 DEF PromptHolds
      <4>6. CASE termJob.pc \in {"arm", "install"}
        BY <2>0, <4>1, <4>2, <4>6 DEF PromptHolds
      <4> QED BY <2>0, <4>2, <4>4, <4>5, <4>6 DEF PromptHolds, PromptPc
    <3>3. TtyOK' /\ isTty' = isTty
      BY <1>0, <2>0, <2>10, <3>1 DEF Signal, AfterHandler, TtyOK, IsTty, PromptHolds, PromptPc
    <3>4. termJob.prog = "create" => Confirming' /\ termJob'.pc # "agent"
      BY <1>0, <2>0, <2>10, <3>1 DEF Signal, Ended, JobFields, Confirming, Spent, ConfirmedTwice, Signals
    <3> QED BY <1>a, <1>2, <3>1, <3>2, <3>3, <3>4
  <2>11. CASE \/ InstallGuard \/ EnableRawMode \/ EnterAltScreen \/ CaptureMouse \/ LeaveLoop
              \/ StartWorker \/ WorkerDone \/ MainPanics \/ WorkerPanics \/ DropMouse \/ DropAlt \/ DropRaw
    BY <2>0, <2>11 DEF PromptHolds, PromptPc, InstallGuard, EnableRawMode, EnterAltScreen, CaptureMouse,
       LeaveLoop, StartWorker, WorkerDone, MainPanics, WorkerPanics, DropMouse, DropAlt, DropRaw
  <2> QED BY <1>2, <2>1, <2>2, <2>3, <2>4, <2>5, <2>6, <2>7, <2>8, <2>9, <2>10, <2>11 DEF TermNext
<1>3. CASE termJob.prog = "tui" /\ TermNext
  <2>0. TuiHolds
    BY <1>3 DEF TermInv
  <2>1. CASE \/ AskAgent \/ WriteLabel \/ DisableEcho \/ ArmSaved \/ InstallHandler \/ ReadLine
             \/ RestoreEcho \/ Disarm \/ PromptAnswered
    BY <2>0, <2>1 DEF TuiHolds, TuiPc, AskAgent, WriteLabel, DisableEcho, ArmSaved, InstallHandler, ReadLine,
       RestoreEcho, Disarm, PromptAnswered
  <2>2. CASE InstallGuard
    <3>1. DOMAIN termJob' = JobFields /\ termJob'.prog = termJob.prog
      BY <2>2, <1>0 DEF InstallGuard, Go, Exit, Ended, JobFields
    <3>2. TtyOK' /\ isTty' = isTty
      BY <1>0, <2>0, <2>2, <3>1 DEF InstallGuard, TtyOK, IsTty, TuiHolds, TuiPc
    <3>3. TuiHolds'
      BY <1>0, <1>3, <2>0, <2>2, <3>1, <3>2 DEF InstallGuard, Go, Exit, Ended, JobFields, TuiHolds, TuiPc, IsTty, TtyOK
    <3> QED BY <1>b, <1>3, <3>1, <3>2, <3>3
  <2>3. CASE EnableRawMode
    <3>1. DOMAIN termJob' = JobFields /\ termJob'.prog = termJob.prog
      BY <2>3, <1>0 DEF EnableRawMode, Go, Exit, Ended, JobFields
    <3>2. TtyOK' /\ isTty' = isTty
      BY <1>0, <2>0, <2>3, <3>1 DEF EnableRawMode, TtyOK, IsTty, TuiHolds, TuiPc
    <3>3. TuiHolds'
      <4>1. /\ termJob.pc = "raw" /\ worker' = worker /\ saved' = saved /\ handled' = handled
            /\ worker = "none" /\ IsTty("cooked") /\ {"HUP", "TERM"} \subseteq handled
            /\ saved \in {NoLine, "cooked"} /\ (isTty => saved = "cooked")
        BY <2>0, <2>3 DEF EnableRawMode, TuiHolds, TuiPc
      <4>2. CASE isTty /\ tty' = [tty EXCEPT !.mode = "raw"] /\ Go("alt")
        <5>1. termJob'.pc = "alt" /\ tty'.alt = FALSE /\ tty'.mouse = FALSE
          BY <1>0, <4>1, <4>2 DEF Go, JobFields, IsTty
        <5> QED BY <4>1, <4>2, <5>1 DEF TuiHolds, TuiPc
      <4>3. CASE Exit("error") /\ UNCHANGED tty
        <5>1. termJob'.pc = "ended" /\ IsTty("cooked")'
          BY <1>0, <4>1, <4>3 DEF Exit, Ended, JobFields, IsTty
        <5> QED BY <4>1, <5>1 DEF TuiHolds, TuiPc
      <4> QED BY <2>3, <4>2, <4>3 DEF EnableRawMode
    <3> QED BY <1>b, <1>3, <3>1, <3>2, <3>3
  <2>4. CASE EnterAltScreen
    <3>1. DOMAIN termJob' = JobFields /\ termJob'.prog = termJob.prog
      BY <2>4, <1>0 DEF EnterAltScreen, AltFails, Go, Exit, Ended, JobFields
    <3>2. TtyOK' /\ isTty' = isTty
      BY <1>0, <2>0, <2>4, <3>1 DEF EnterAltScreen, AltFails, TtyOK, IsTty, TuiHolds, TuiPc
    <3>3. TuiHolds'
      BY <1>0, <1>3, <2>0, <2>4, <3>1, <3>2 DEF EnterAltScreen, AltFails, Go, Exit, Ended, JobFields, TuiHolds, TuiPc, IsTty, TtyOK
    <3> QED BY <1>b, <1>3, <3>1, <3>2, <3>3
  <2>5. CASE CaptureMouse
    <3>1. DOMAIN termJob' = JobFields /\ termJob'.prog = termJob.prog
      BY <2>5, <1>0 DEF CaptureMouse, Go, Exit, Ended, JobFields
    <3>2. TtyOK' /\ isTty' = isTty
      BY <1>0, <2>0, <2>5, <3>1 DEF CaptureMouse, TtyOK, IsTty, TuiHolds, TuiPc
    <3>3. TuiHolds'
      BY <1>0, <1>3, <2>0, <2>5, <3>1, <3>2 DEF CaptureMouse, Go, Exit, Ended, JobFields, TuiHolds, TuiPc, IsTty, TtyOK
    <3> QED BY <1>b, <1>3, <3>1, <3>2, <3>3
  <2>6. CASE LeaveLoop
    <3>1. DOMAIN termJob' = JobFields /\ termJob'.prog = termJob.prog
      BY <2>6, <1>0 DEF LeaveLoop, Go, Exit, Ended, JobFields
    <3>2. TtyOK' /\ isTty' = isTty
      BY <1>0, <2>0, <2>6, <3>1 DEF LeaveLoop, TtyOK, IsTty, TuiHolds, TuiPc
    <3>3. TuiHolds'
      BY <1>0, <1>3, <2>0, <2>6, <3>1, <3>2 DEF LeaveLoop, Go, Exit, Ended, JobFields, TuiHolds, TuiPc, IsTty, TtyOK
    <3> QED BY <1>b, <1>3, <3>1, <3>2, <3>3
  <2>7. CASE StartWorker \/ WorkerDone
    <3>1. DOMAIN termJob' = JobFields /\ termJob'.prog = termJob.prog
      BY <2>7, <1>0 DEF StartWorker, WorkerDone, Go, Exit, Ended, JobFields
    <3>2. TtyOK' /\ isTty' = isTty
      BY <1>0, <2>0, <2>7, <3>1 DEF StartWorker, WorkerDone, TtyOK, IsTty, TuiHolds, TuiPc
    <3>3. TuiHolds'
      BY <1>0, <1>3, <2>0, <2>7, <3>1, <3>2 DEF StartWorker, WorkerDone, Go, Exit, Ended, JobFields, TuiHolds, TuiPc, IsTty, TtyOK
    <3> QED BY <1>b, <1>3, <3>1, <3>2, <3>3
  <2>8. CASE MainPanics
    <3>1. DOMAIN termJob' = JobFields /\ termJob'.prog = termJob.prog
      BY <2>8, <1>0 DEF MainPanics, Restored, PlainTty, Go, Exit, Ended, JobFields
    <3>2. TtyOK' /\ isTty' = isTty
      BY <1>0, <2>0, <2>8, <3>1 DEF MainPanics, Restored, PlainTty, TtyOK, IsTty, TuiHolds, TuiPc
    <3>3. TuiHolds'
      BY <1>0, <1>3, <2>0, <2>8, <3>1, <3>2 DEF MainPanics, Restored, PlainTty, Go, Exit, Ended, JobFields, TuiHolds, TuiPc, IsTty, TtyOK
    <3> QED BY <1>b, <1>3, <3>1, <3>2, <3>3
  <2>9. CASE WorkerPanics
    <3>1. DOMAIN termJob' = JobFields /\ termJob'.prog = termJob.prog
      BY <2>9, <1>0 DEF WorkerPanics, Restored, PlainTty, Go, Exit, Ended, JobFields
    <3>2. TtyOK' /\ isTty' = isTty
      BY <1>0, <2>0, <2>9, <3>1 DEF WorkerPanics, Restored, PlainTty, TtyOK, IsTty, TuiHolds, TuiPc
    <3>3. TuiHolds'
      BY <1>0, <1>3, <2>0, <2>9, <3>1, <3>2 DEF WorkerPanics, Restored, PlainTty, Go, Exit, Ended, JobFields, TuiHolds, TuiPc, IsTty, TtyOK
    <3> QED BY <1>b, <1>3, <3>1, <3>2, <3>3
  <2>10. CASE DropMouse
    <3>1. DOMAIN termJob' = JobFields /\ termJob'.prog = termJob.prog
      BY <2>10, <1>0 DEF DropMouse, Go, Exit, Ended, JobFields
    <3>2. TtyOK' /\ isTty' = isTty
      BY <1>0, <2>0, <2>10, <3>1 DEF DropMouse, TtyOK, IsTty, TuiHolds, TuiPc
    <3>3. TuiHolds'
      BY <1>0, <1>3, <2>0, <2>10, <3>1, <3>2 DEF DropMouse, Go, Exit, Ended, JobFields, TuiHolds, TuiPc, IsTty, TtyOK
    <3> QED BY <1>b, <1>3, <3>1, <3>2, <3>3
  <2>11. CASE DropAlt
    <3>1. DOMAIN termJob' = JobFields /\ termJob'.prog = termJob.prog
      BY <2>11, <1>0 DEF DropAlt, Go, Exit, Ended, JobFields
    <3>2. TtyOK' /\ isTty' = isTty
      BY <1>0, <2>0, <2>11, <3>1 DEF DropAlt, TtyOK, IsTty, TuiHolds, TuiPc
    <3>3. TuiHolds'
      BY <1>0, <1>3, <2>0, <2>11, <3>1, <3>2 DEF DropAlt, Go, Exit, Ended, JobFields, TuiHolds, TuiPc, IsTty, TtyOK
    <3> QED BY <1>b, <1>3, <3>1, <3>2, <3>3
  <2>12. CASE DropRaw
    <3>1. DOMAIN termJob' = JobFields /\ termJob'.prog = termJob.prog
      BY <2>12, <1>0 DEF DropRaw, Go, Exit, Ended, JobFields
    <3>2. TtyOK' /\ isTty' = isTty
      BY <1>0, <2>0, <2>12, <3>1 DEF DropRaw, TtyOK, IsTty, TuiHolds, TuiPc
    <3>3. TuiHolds'
      BY <1>0, <1>3, <2>0, <2>12, <3>1, <3>2 DEF DropRaw, Go, Exit, Ended, JobFields, TuiHolds, TuiPc, IsTty, TtyOK
    <3> QED BY <1>b, <1>3, <3>1, <3>2, <3>3
  <2>13. ASSUME NEW sig \in Signals, Signal(sig) PROVE TermInv'
    <3>1. DOMAIN termJob' = JobFields /\ termJob'.prog = termJob.prog
      BY <2>13, <1>0 DEF Signal, AfterHandler, Signals, Go, Exit, Ended, JobFields
    <3>2. TtyOK' /\ isTty' = isTty
      BY <1>0, <2>0, <2>13, <3>1 DEF Signal, AfterHandler, Signals, TtyOK, IsTty, TuiHolds, TuiPc
    <3>3. TuiHolds'
      <4>1. worker' = worker /\ saved' = saved /\ tty' = IF sig \in handled THEN AfterHandler ELSE tty
        BY <2>13 DEF Signal
      <4>2. termJob'.pc = "ended" /\ termJob'.exit = sig /\ termJob.pc # "ended"
        BY <1>0, <2>13 DEF Signal, Ended, JobFields
      <4>3. AfterHandler = [mode |-> IF saved # NoLine THEN saved ELSE tty.mode, alt |-> FALSE, mouse |-> FALSE]
        BY <1>0, <1>3 DEF AfterHandler, TtyOK
      <4>4. sig \in {"HUP", "TERM"} => IsTty("cooked")'
        <5>1. CASE termJob.pc \in {"hooks", "raw"}
          <6>1. IsTty("cooked") /\ saved \in {NoLine, "cooked"}
            BY <2>0, <5>1 DEF TuiHolds
          <6>2. AfterHandler = [mode |-> "cooked", alt |-> FALSE, mouse |-> FALSE]
            BY <4>3, <6>1 DEF IsTty
          <6> QED BY <4>1, <6>1, <6>2 DEF IsTty
        <5>2. CASE termJob.pc \notin {"hooks", "raw"}
          <6>1. saved = "cooked" /\ {"HUP", "TERM"} \subseteq handled
            BY <2>0, <4>2, <5>2 DEF TuiHolds
          <6> QED BY <1>00, <4>1, <4>3, <6>1 DEF IsTty
        <5> QED BY <5>1, <5>2
      <4> QED BY <2>0, <4>1, <4>2, <4>4 DEF TuiHolds, TuiPc, Signals
    <3> QED BY <1>b, <1>3, <3>1, <3>2, <3>3
  <2> QED BY <1>3, <2>1, <2>2, <2>3, <2>4, <2>5, <2>6, <2>7, <2>8, <2>9, <2>10, <2>11, <2>12, <2>13 DEF TermNext
<1> QED BY <1>1, <1>2, <1>3

\* However a prompt or the TUI ends - an answer, an error, a signal, a panic - the
\* terminal echoes again and is on its main screen, but for the endings that the
\* code leaves to the system; and a new password was typed twice.
THEOREM TerminalGivenBack == TermSpec => []TerminalIsGivenBack
<1>1. TermSpec => []TermInv
  BY TermInvInit, TermInvStep, PTL DEF TermSpec
<1> QED BY <1>1, TermInvGivesBack, PTL

(***************************************************************************)
(* Cli.                                                                    *)
(*                                                                         *)
(* A command is a program of steps, and what holds of it depends on the    *)
(* steps it has passed.  OrderAt says what every program of the model puts *)
(* before a step (ProgramOrder checks it verb by verb); the invariant then *)
(* speaks of passed steps only: with the vault open the command holds the  *)
(* lock, so the file is still what was read; an applied change is exactly  *)
(* Effect on that file; it is marked saved once the file holds it.         *)
(***************************************************************************)
\* A step of the program of a command line comes before its i-th.
Before(a, i, step) == \E k \in 1 .. i - 1 : Program(a)[k] = step

Steps == {"record", "master", "password", "open", "tags", "apply", "save", "view", "read", "resolve",
          "arm", "wait", "uuid", "list", "scope", "search", "generate", "name", "sync", "spawn", "shell", "stub",
          "totp"}

\* What comes before a step, and what may still come after it.
OrderAt(a, i) ==
    LET s == Program(a)[i] IN
    /\ s \in Steps
    /\ s \in {"open", "read", "master", "password"} => ~Before(a, i, "open") /\ ~Before(a, i, "read")
    /\ s \in {"apply", "save", "sync"} => Before(a, i, "open")
    /\ s \in {"apply", "save"} => a.verb \in {"add", "edit", "rm"}
    /\ s = "sync" => a.verb = "sync"
    /\ s = "resolve" => a.verb = "get"
    /\ s = "list" => a.verb = "list"
    /\ s = "save" => Before(a, i, "apply")
    /\ Before(a, i, "apply") => Before(a, i, "open") /\ s \in {"save", "view"}
    /\ Before(a, i, "apply") /\ ~Before(a, i, "save") => s = "save"
    /\ Before(a, i, "sync") \/ Before(a, i, "save") => s = "view" /\ i = Len(Program(a))
    /\ s # "wait" => ~Before(a, i, "view")
    /\ s \notin {"view", "wait"} => ~Before(a, i, "arm")
    /\ Before(a, i, "resolve") \/ Before(a, i, "list") => s \in {"totp", "arm", "view", "wait"}
    /\ s = "view" => (i = Len(Program(a)) <=> ~Before(a, i, "arm"))
    /\ s = "arm" => i # Len(Program(a))
    /\ s = "wait" => i = Len(Program(a)) /\ Before(a, i, "view")
    /\ i = Len(Program(a)) => s \in {"view", "wait", "stub"}

\* What a whole program has done.
Whole(a) ==
    LET n == Len(Program(a)) + 1 IN
    /\ n \in Nat /\ n > 1
    /\ a.verb # "ssh" => Before(a, n, "view")
    /\ a.verb \in {"add", "edit", "rm"} => Before(a, n, "save")
    /\ a.verb = "get" => Before(a, n, "resolve")
    /\ a.verb = "list" => Before(a, n, "list")

LEMMA ProgramOrder ==
    ASSUME NEW a, a.verb \in Verbs, NEW i \in 1 .. Len(Program(a))
    PROVE  OrderAt(a, i)
<1> USE DEF Program, ProgramOf, OrderAt, Before, Steps
<1>1. CASE a.verb = "add"
  BY <1>1 DEF AddProgram
<1>2. CASE a.verb = "get"
  BY <1>2 DEF GetProgram
<1>3. CASE a.verb = "edit"
  BY <1>3 DEF EditProgram
<1>4. CASE a.verb = "rm"
  BY <1>4 DEF RmProgram
<1>5. CASE a.verb = "list"
  BY <1>5 DEF ListProgram
<1>6. CASE a.verb = "search"
  BY <1>6 DEF SearchProgram
<1>7. CASE a.verb = "gen"
  BY <1>7 DEF GenProgram
<1>8. CASE a.verb = "sync"
  BY <1>8 DEF SyncProgram
<1>9. CASE a.verb = "keys"
  BY <1>9
<1>10. CASE a.verb = "completions"
  BY <1>10
<1>11. CASE a.verb = "ssh"
  BY <1>11
<1> QED BY <1>1, <1>2, <1>3, <1>4, <1>5, <1>6, <1>7, <1>8, <1>9, <1>10, <1>11 DEF Verbs

LEMMA ProgramWhole ==
    ASSUME NEW a, a.verb \in Verbs
    PROVE  Whole(a)
<1>1. CASE a.verb = "add"
  <2>1. Len(Program(a)) = 8 /\ Program(a)[7] = "save" /\ Program(a)[8] = "view"
    BY <1>1 DEF Program, ProgramOf, AddProgram
  <2> QED BY <1>1, <2>1 DEF Whole, Before
<1>2. CASE a.verb = "get"
  <2>1. CASE a.copy
    <3>1. Len(Program(a)) = 8 /\ Program(a)[4] = "resolve" /\ Program(a)[7] = "view"
      BY <1>2, <2>1 DEF Program, ProgramOf, GetProgram
    <3> QED BY <1>2, <3>1 DEF Whole, Before
  <2>2. CASE ~a.copy
    <3>1. Len(Program(a)) = 6 /\ Program(a)[4] = "resolve" /\ Program(a)[6] = "view"
      BY <1>2, <2>2 DEF Program, ProgramOf, GetProgram
    <3> QED BY <1>2, <3>1 DEF Whole, Before
  <2> QED BY <2>1, <2>2
<1>3. CASE a.verb = "edit"
  <2>1. Len(Program(a)) = 9 /\ Program(a)[8] = "save" /\ Program(a)[9] = "view"
    BY <1>3 DEF Program, ProgramOf, EditProgram
  <2> QED BY <1>3, <2>1 DEF Whole, Before
<1>4. CASE a.verb = "rm"
  <2>1. Len(Program(a)) = 7 /\ Program(a)[6] = "save" /\ Program(a)[7] = "view"
    BY <1>4 DEF Program, ProgramOf, RmProgram
  <2> QED BY <1>4, <2>1 DEF Whole, Before
<1>5. CASE a.verb = "list"
  <2>1. Len(Program(a)) = 6 /\ Program(a)[5] = "list" /\ Program(a)[6] = "view"
    BY <1>5 DEF Program, ProgramOf, ListProgram
  <2> QED BY <1>5, <2>1 DEF Whole, Before
<1>6. CASE a.verb \in {"search", "sync"}
  <2>1. Len(Program(a)) = 6 /\ Program(a)[6] = "view"
    BY <1>6 DEF Program, ProgramOf, SearchProgram, SyncProgram
  <2> QED BY <1>6, <2>1 DEF Whole, Before
<1>7. CASE a.verb = "gen"
  <2>1. CASE a.copy
    <3>1. Len(Program(a)) = 4 /\ Program(a)[3] = "view"
      BY <1>7, <2>1 DEF Program, ProgramOf, GenProgram
    <3> QED BY <1>7, <3>1 DEF Whole, Before
  <2>2. CASE ~a.copy
    <3>1. Len(Program(a)) = 2 /\ Program(a)[2] = "view"
      BY <1>7, <2>2 DEF Program, ProgramOf, GenProgram
    <3> QED BY <1>7, <3>1 DEF Whole, Before
  <2> QED BY <2>1, <2>2
<1>8. CASE a.verb \in {"keys", "completions"}
  <2>1. Len(Program(a)) = 2 /\ Program(a)[2] = "view"
    BY <1>8 DEF Program, ProgramOf
  <2> QED BY <1>8, <2>1 DEF Whole, Before
<1>9. CASE a.verb = "ssh"
  <2>1. Len(Program(a)) = 1
    BY <1>9 DEF Program, ProgramOf
  <2> QED BY <1>9, <2>1 DEF Whole, Before
<1> QED BY <1>1, <1>2, <1>3, <1>4, <1>5, <1>6, <1>7, <1>8, <1>9 DEF Verbs

-----------------------------------------------------------------------------
CliJobFields == {"ask", "at", "rows", "answer", "out", "pipe", "saved", "error", "code"}
OutWords == {"view", "error"}
Codes == {Running, Killed, 0, 1, 2, 3, 10, 11}

\* A command in the course of its program.
JobType(j) ==
    /\ DOMAIN j = CliJobFields
    /\ j.ask \in Invocation
    /\ j.at \in 1 .. Len(Program(j.ask)) + 1
    /\ j.pipe \in BOOLEAN /\ j.saved \in BOOLEAN
    /\ j.out \in Seq(OutWords)
    /\ j.code \in Codes
    /\ j.code = Running => j.at <= Len(Program(j.ask))
    /\ j.code = 0 => j.at = Len(Program(j.ask)) + 1

CliType ==
    /\ cliLock \in [CliProc -> {"none", "shared", "exclusive"}]
    /\ DOMAIN cliJob = CliProc
    /\ \A p \in CliProc : JobType(cliJob[p])

Passed(p, step) == Before(Ask(p), cliJob[p].at, step)
Alive(p) == cliJob[p].code \in {Running, 0}
SoundRows(R) ==
    /\ IsFiniteSet(R)
    /\ \A r \in R : DOMAIN r = RowFields
    /\ \A r, s \in R : r.id = s.id => r = s

\* What a step of the program adds to what is done.
LEMMA PassedNext ==
    ASSUME NEW a, NEW i \in Nat, i >= 1
    PROVE  \A t : Before(a, i + 1, t) <=> Before(a, i, t) \/ Program(a)[i] = t
BY DEF Before

LEMMA CodeOfErrors ==
    /\ \A e : ExitCode(e) \in {1, 2, 3, 10, 11}
    /\ ExitCode("Output") = 10 /\ ExitCode("Io") = 10 /\ ExitCode("WriteFailed") = 10
BY DEF ExitCode, CodeOf, FromVaultError, FromGenError, FromSecurityError, FromSyncError, OwnError,
       VaultErrors, SyncErrors, GenErrors, SecurityErrors

\* The lock is held from the opening of the vault to the end.
LockPart(p) ==
    /\ cliJob[p].code = Running /\ Passed(p, "open") => cliLock[p] = "exclusive"
    /\ ~Passed(p, "open") /\ ~Passed(p, "read") => cliLock[p] = "none"
    /\ cliJob[p].code # Running => cliLock[p] = "none"

\* What a command with the vault open holds of the file.
VaultPart(p) ==
    /\ SoundRows(cliJob[p].rows)
    /\ cliJob[p].code = Running /\ Passed(p, "open") /\ ~Passed(p, "apply") /\ ~Passed(p, "sync") =>
           cliJob[p].rows = cliFile
    /\ cliJob[p].code = Running /\ Passed(p, "apply") /\ ~Passed(p, "save") =>
           cliJob[p].rows = Effect(p, cliFile)

SavedPart(p) ==
    /\ cliJob[p].code = Running /\ cliJob[p].saved => Passed(p, "save") \/ Passed(p, "sync")
    /\ Writes(p) /\ Alive(p) /\ Passed(p, "save") => cliJob[p].saved
    /\ Writes(p) /\ cliJob[p].code \in {1, 2} => ~cliJob[p].saved

OutPart(p) ==
    /\ cliJob[p].code = Running /\ ~Passed(p, "view") => cliJob[p].out = <<>> /\ cliJob[p].pipe
    /\ Ask(p).json /\ cliJob[p].pipe /\ Alive(p) /\ Passed(p, "view") => Len(cliJob[p].out) = 1
    /\ Ask(p).json /\ cliJob[p].pipe /\ cliJob[p].code \notin {Running, Killed} => Len(cliJob[p].out) = 1

BoardPart(p) ==
    cliBoard = p =>
        /\ cliJob[p].code = Running => Passed(p, "arm")
        /\ cliJob[p].code \notin {Running, Killed} => cliJob[p].error = "TimerStart"

GetIsRight(j) ==
    \A r \in j.rows : (IF j.ask.uuid # Nobody THEN r.id = j.ask.uuid ELSE r.title = j.ask.title)
                          => j.answer = <<r.id>>
ListIsRight(j) ==
    LET listed == Listed(j.rows, j.ask)
        left == IF j.ask.offset < Cardinality(listed)
                THEN Cardinality(listed) - j.ask.offset ELSE 0 IN
    /\ \A i \in DOMAIN j.answer : \E r \in listed : r.id = j.answer[i]
    /\ IsInjective(j.answer)
    /\ Len(j.answer) = IF j.ask.limit < left THEN j.ask.limit ELSE left
AnswerPart(p) ==
    Alive(p) => /\ Passed(p, "resolve") => GetIsRight(cliJob[p])
                /\ Passed(p, "list") => ListIsRight(cliJob[p])

JobInv(p) == LockPart(p) /\ VaultPart(p) /\ SavedPart(p) /\ OutPart(p) /\ BoardPart(p) /\ AnswerPart(p)

\* An entry that a process has added is in the file only once it was saved.
FileSound ==
    /\ SoundRows(cliFile)
    /\ \A r \in cliFile : r.id \in CliProc => cliJob[r.id].saved

OneWriter == \A p, q \in CliProc : p # q /\ cliLock[p] = "exclusive" => cliLock[q] = "none"

CliInv == CliType /\ OneWriter /\ FileSound /\ \A p \in CliProc : JobInv(p)

-----------------------------------------------------------------------------
\* What a step that goes on, one that returns an error and a kill do to the
\* record of a command.
Kept(p) ==
    /\ DOMAIN cliJob' = CliProc
    /\ \A q \in CliProc : q # p => cliJob'[q] = cliJob[q]
    /\ JobType(cliJob'[p])
    /\ cliJob'[p].ask = Ask(p)
MayFollow(p, j) ==
    /\ DOMAIN j = CliJobFields /\ j.ask = Ask(p) /\ j.at = cliJob[p].at
    /\ j.pipe \in BOOLEAN /\ j.saved \in BOOLEAN /\ j.out \in Seq(OutWords)

LEMMA RunningStep ==
    ASSUME CliType, NEW p \in CliProc, cliJob[p].code = Running
    PROVE  /\ Ask(p) \in Invocation /\ cliJob[p].at \in 1 .. Len(Program(Ask(p)))
           /\ OrderAt(Ask(p), cliJob[p].at) /\ Whole(Ask(p))
           /\ cliJob[p].at \in Nat /\ Len(Program(Ask(p))) \in Nat
<1>1. JobType(cliJob[p]) /\ Ask(p) \in Invocation /\ Ask(p).verb \in Verbs
  BY CliAssumption DEF CliType, JobType, Ask
<1>2. Whole(Ask(p))
  BY <1>1, ProgramWhole
<1>3. Len(Program(Ask(p))) \in Nat
  BY <1>1 DEF Program, ProgramOf, AddProgram, GetProgram, EditProgram, RmProgram, ListProgram, SearchProgram,
              GenProgram, SyncProgram, Verbs
<1>4. cliJob[p].at \in 1 .. Len(Program(Ask(p)))
  BY <1>1, <1>3 DEF JobType, Ask
<1> QED BY <1>1, <1>2, <1>3, <1>4, ProgramOrder

LEMMA GoesOn ==
    ASSUME CliType, NEW p \in CliProc, cliJob[p].code = Running, NEW j, MayFollow(p, j), Goes(p, j)
    PROVE  /\ Kept(p)
           /\ cliJob'[p].rows = j.rows /\ cliJob'[p].answer = j.answer /\ cliJob'[p].out = j.out
           /\ cliJob'[p].pipe = j.pipe /\ cliJob'[p].saved = j.saved /\ cliJob'[p].error = j.error
           /\ cliJob'[p].code = IF IsLastStep(p) THEN 0 ELSE Running
           /\ \A t : Passed(p, t)' <=> Passed(p, t) \/ At(p, t)
<1>1. /\ cliJob[p].at \in 1 .. Len(Program(Ask(p)))
      /\ cliJob[p].at \in Nat /\ Len(Program(Ask(p))) \in Nat /\ Ask(p) \in Invocation
  BY RunningStep
<1> DEFINE k == [j EXCEPT !.at = @ + 1, !.code = IF IsLastStep(p) THEN 0 ELSE Running]
<1>2. /\ DOMAIN k = CliJobFields /\ k.ask = Ask(p) /\ k.at = cliJob[p].at + 1
      /\ k.rows = j.rows /\ k.answer = j.answer /\ k.out = j.out /\ k.pipe = j.pipe
      /\ k.saved = j.saved /\ k.error = j.error /\ k.code = IF IsLastStep(p) THEN 0 ELSE Running
  BY DEF MayFollow, CliJobFields
<1> HIDE DEF k
<1>3. cliJob' = [cliJob EXCEPT ![p] = k]
  BY DEF Goes, k
<1>4. DOMAIN cliJob' = CliProc /\ cliJob'[p] = k /\ \A q \in CliProc : q # p => cliJob'[q] = cliJob[q]
  BY <1>3 DEF CliType
<1>5. JobType(k)
  BY <1>1, <1>2 DEF MayFollow, JobType, IsLastStep, Codes, Running
<1>6. \A t : Passed(p, t)' <=> Passed(p, t) \/ At(p, t)
  <2>1. \A t : Passed(p, t)' <=> Before(Ask(p), cliJob[p].at + 1, t)
    BY <1>2, <1>4 DEF Passed, Ask
  <2>2. \A t : At(p, t) <=> Program(Ask(p))[cliJob[p].at] = t
    BY DEF At
  <2>3. \A t : Before(Ask(p), cliJob[p].at + 1, t)
                  <=> Before(Ask(p), cliJob[p].at, t) \/ Program(Ask(p))[cliJob[p].at] = t
    <3> DEFINE a == Ask(p)
               i == cliJob[p].at
    <3>1. i \in Nat /\ i >= 1
      BY <1>1
    <3> HIDE DEF a, i
    <3>2. \A t : Before(a, i + 1, t) <=> Before(a, i, t) \/ Program(a)[i] = t
      BY <3>1, PassedNext
    <3> QED BY <3>2 DEF a, i
  <2> QED BY <2>1, <2>2, <2>3 DEF Passed
<1> QED BY <1>2, <1>4, <1>5, <1>6 DEF Kept

LEMMA GivesUp ==
    ASSUME CliType, NEW p \in CliProc, cliJob[p].code = Running, NEW j, MayFollow(p, j), NEW e, Returns(p, j, e)
    PROVE  /\ Kept(p)
           /\ cliJob'[p].rows = j.rows /\ cliJob'[p].pipe = j.pipe /\ cliJob'[p].saved = j.saved
           /\ cliJob'[p].error = e /\ cliJob'[p].code = ExitCode(e)
           /\ cliJob'[p].out = IF Ask(p).json /\ j.pipe THEN Append(j.out, "error") ELSE j.out
           /\ \A t : Passed(p, t)' <=> Passed(p, t)
           /\ cliLock' = [cliLock EXCEPT ![p] = "none"]
<1>1. /\ cliJob[p].at \in 1 .. Len(Program(Ask(p)))
      /\ cliJob[p].at \in Nat /\ Len(Program(Ask(p))) \in Nat /\ Ask(p) \in Invocation
  BY RunningStep
<1> DEFINE k == [j EXCEPT !.error = e, !.code = ExitCode(e),
                          !.out = IF j.ask.json /\ j.pipe THEN Append(@, "error") ELSE @]
<1> DEFINE code == ExitCode(e)
           out == IF j.ask.json /\ j.pipe THEN Append(j.out, "error") ELSE j.out
<1>0. k = [j EXCEPT !.error = e, !.code = code, !.out = out] /\ code = ExitCode(e)
      /\ out = IF Ask(p).json /\ j.pipe THEN Append(j.out, "error") ELSE j.out
  BY DEF MayFollow
<1> HIDE DEF k, code, out
<1>2. /\ DOMAIN k = CliJobFields /\ k.ask = Ask(p) /\ k.at = cliJob[p].at
      /\ k.rows = j.rows /\ k.pipe = j.pipe /\ k.saved = j.saved /\ k.error = e /\ k.code = code
      /\ k.out = out
  BY <1>0 DEF MayFollow, CliJobFields
<1> HIDE DEF k
<1>3. cliJob' = [cliJob EXCEPT ![p] = k] /\ cliLock' = [cliLock EXCEPT ![p] = "none"]
  BY DEF Returns, k, DropVault
<1>4. DOMAIN cliJob' = CliProc /\ cliJob'[p] = k /\ \A q \in CliProc : q # p => cliJob'[q] = cliJob[q]
  BY <1>3 DEF CliType
<1>5. k.out \in Seq(OutWords)
  <2> DEFINE word == "error"
             said == j.out
  <2>0. word \in OutWords
    BY DEF OutWords
  <2>1. said \in Seq(OutWords)
    BY DEF MayFollow
  <2> HIDE DEF word, said
  <2>2. Append(said, word) \in Seq(OutWords)
    BY <2>0, <2>1, AppendProperties
  <2> QED BY <1>0, <1>2, <2>1, <2>2 DEF word, said
<1>6. JobType(k)
  BY <1>0, <1>1, <1>2, <1>5, CodeOfErrors DEF MayFollow, JobType, Codes, Running
<1>7. \A t : Passed(p, t)' <=> Passed(p, t)
  BY <1>2, <1>4 DEF Passed, Ask
<1> QED BY <1>0, <1>2, <1>3, <1>4, <1>6, <1>7 DEF Kept

-----------------------------------------------------------------------------
\* What is done before a step that is to be taken, and what is left.
Place(p, s) ==
    /\ s \in Steps
    /\ s \in {"open", "read", "master", "password"} => ~Passed(p, "open") /\ ~Passed(p, "read")
    /\ s \in {"apply", "save", "sync"} => Passed(p, "open")
    /\ s \in {"apply", "save"} => Writes(p)
    /\ s = "sync" => Ask(p).verb = "sync"
    /\ s = "resolve" => Ask(p).verb = "get"
    /\ s = "list" => Ask(p).verb = "list"
    /\ s = "save" => Passed(p, "apply")
    /\ Passed(p, "apply") => Passed(p, "open") /\ s \in {"save", "view"}
    /\ Passed(p, "apply") /\ ~Passed(p, "save") => s = "save"
    /\ Passed(p, "sync") \/ Passed(p, "save") => s = "view" /\ IsLastStep(p)
    /\ s # "wait" => ~Passed(p, "view")
    /\ s \notin {"view", "wait"} => ~Passed(p, "arm")
    /\ Passed(p, "resolve") \/ Passed(p, "list") => s \in {"totp", "arm", "view", "wait"}
    /\ s = "view" => (IsLastStep(p) <=> ~Passed(p, "arm"))
    /\ s = "arm" => ~IsLastStep(p)
    /\ s = "wait" => IsLastStep(p) /\ Passed(p, "view")
    /\ IsLastStep(p) => s \in {"view", "wait", "stub"}

LEMMA StepPlace ==
    ASSUME CliType, NEW p \in CliProc, NEW s, At(p, s)
    PROVE  Place(p, s) /\ cliJob[p].code = Running
<1>1. cliJob[p].code = Running /\ Program(Ask(p))[cliJob[p].at] = s
  BY DEF At
<1>2. OrderAt(Ask(p), cliJob[p].at)
  BY <1>1, RunningStep
<1> QED BY <1>1, <1>2 DEF OrderAt, Place, Passed, IsLastStep, Writes

LEMMA OneStep ==
    ASSUME NEW p, NEW s, At(p, s), NEW t
    PROVE  At(p, t) <=> t = s
BY DEF At

\* A command that stands between two steps has passed the one to apply its
\* change only with the vault open.
LEMMA AppliedIsOpen ==
    ASSUME CliType, NEW p \in CliProc, cliJob[p].code = Running, Passed(p, "apply")
    PROVE  Passed(p, "open")
<1>1. At(p, Program(Ask(p))[cliJob[p].at])
  BY DEF At
<1> QED BY <1>1, StepPlace DEF Place

-----------------------------------------------------------------------------
\* A step of another command leaves what holds of a command alone.
LEMMA OthersKeep ==
    ASSUME CliInv, NEW p \in CliProc, NEW q \in CliProc, q # p,
           cliJob'[q] = cliJob[q], cliLock'[q] = cliLock[q],
           cliFile' = cliFile \/ cliLock[p] = "exclusive",
           cliBoard' = q => cliBoard = q
    PROVE  JobInv(q)'
<1>1. CliType /\ JobInv(q)
  BY DEF CliInv
<1>2. /\ Ask(q)' = Ask(q) /\ (Writes(q)' <=> Writes(q)) /\ (Alive(q)' <=> Alive(q))
      /\ \A t : Passed(q, t)' <=> Passed(q, t)
  BY DEF Ask, Writes, Alive, Passed
<1>3. cliFile' = cliFile \/ ~(cliJob[q].code = Running /\ Passed(q, "open"))
  BY <1>1 DEF CliInv, OneWriter, JobInv, LockPart
<1>4. LockPart(q)' /\ SavedPart(q)' /\ OutPart(q)' /\ BoardPart(q)' /\ AnswerPart(q)'
  BY <1>1, <1>2 DEF JobInv, LockPart, SavedPart, OutPart, BoardPart, AnswerPart
<1>5. VaultPart(q)'
  <2>1. CASE cliFile' = cliFile
    <3>1. Effect(q, cliFile)' = Effect(q, cliFile)
      BY <2>1, <1>2 DEF Effect, RowOf
    <3> QED BY <2>1, <3>1, <1>1, <1>2 DEF JobInv, VaultPart
  <2>2. CASE ~(cliJob[q].code = Running /\ Passed(q, "open"))
    <3>1. ~(cliJob[q].code = Running /\ Passed(q, "apply"))
      BY <2>2, <1>1, AppliedIsOpen
    <3> QED BY <2>2, <3>1, <1>1, <1>2 DEF JobInv, VaultPart
  <2> QED BY <2>1, <2>2, <1>3
<1> QED BY <1>4, <1>5 DEF JobInv

LEMMA OthersAgree ==
    ASSUME CliInv, NEW p \in CliProc, NEW l \in {"none", "shared", "exclusive"}, Kept(p),
           cliLock' = [cliLock EXCEPT ![p] = l],
           \/ l \in {cliLock[p], "none"}
           \/ \A q \in CliProc \ {p} : cliLock[q] = "none" \/ (l = "shared" /\ cliLock[q] = "shared"),
           cliFile' = cliFile \/ cliLock[p] = "exclusive",
           cliBoard' \in {cliBoard, p, Nobody}, FileSound', JobInv(p)'
    PROVE  CliInv'
<1>1. /\ cliLock \in [CliProc -> {"none", "shared", "exclusive"}] /\ DOMAIN cliJob = CliProc
      /\ \A q \in CliProc : JobType(cliJob[q])
  BY DEF CliInv, CliType
<1>2. CliType'
  BY <1>1 DEF CliType, Kept
<1>3. OneWriter'
  BY <1>1 DEF CliInv, OneWriter
<1>4. ASSUME NEW q \in CliProc, q # p PROVE JobInv(q)'
  <2>1. cliJob'[q] = cliJob[q] /\ cliLock'[q] = cliLock[q] /\ (cliBoard' = q => cliBoard = q)
    BY <1>1, <1>4, NobodyAssumption DEF Kept
  <2> QED BY <2>1, <1>4, OthersKeep
<1> QED BY <1>2, <1>3, <1>4 DEF CliInv

LEMMA ImageIsFinite ==
    ASSUME NEW S, IsFiniteSet(S), NEW f, DOMAIN f = S
    PROVE  IsFiniteSet({f[r] : r \in S})
<1> DEFINE h == [r \in S |-> f[r]]
           T == {f[r] : r \in S}
<1>1. h \in Surjection(S, T)
  BY DEF Surjection
<1> HIDE DEF h, T
<1>2. IsFiniteSet(T)
  BY <1>1, FS_Surjection
<1> QED BY <1>2 DEF T

\* What a command does to a sound vault is sound, and adds at most one entry.
LEMMA EffectIsSound ==
    ASSUME NEW p \in CliProc, NEW F, SoundRows(F), \A r \in F : r.id # p,
           Ask(p).verb \in {"add", "edit", "rm", "sync"}
    PROVE  /\ SoundRows(Effect(p, F))
           /\ \A r \in Effect(p, F) : r.id \in {p, "remote"} \/ \E x \in F : x.id = r.id
           /\ \A r \in Effect(p, F) : r.id = p => Ask(p).verb = "add"
<1>1. CASE Ask(p).verb = "add"
  <2> DEFINE new == [id |-> p, title |-> Ask(p).title, tags |-> Ask(p).tags,
                     expired |-> FALSE, group |-> CliRoot, by |-> p]
  <2>1. DOMAIN new = RowFields /\ new.id = p
    BY DEF RowFields
  <2> HIDE DEF new
  <2>2. Effect(p, F) = F \cup {new}
    BY <1>1 DEF Effect, new
  <2>3. IsFiniteSet(F \cup {new})
    BY FS_AddElement DEF SoundRows
  <2> QED BY <2>1, <2>2, <2>3, <1>1 DEF SoundRows
<1>2. CASE Ask(p).verb = "edit"
  <2> DEFINE g(r) == IF r.id = Ask(p).uuid THEN [r EXCEPT !.tags = @ \cup Ask(p).tags, !.by = p] ELSE r
  <2>1. Effect(p, F) = {g(r) : r \in F}
    BY <1>2 DEF Effect
  <2>2. \A r \in F : DOMAIN g(r) = RowFields /\ g(r).id = r.id
    BY DEF SoundRows, RowFields
  <2>3. IsFiniteSet({g(r) : r \in F})
    <3> DEFINE f == [r \in F |-> g(r)]
    <3> HIDE DEF g
    <3>1. {g(r) : r \in F} = {f[r] : r \in F} /\ DOMAIN f = F
      OBVIOUS
    <3> HIDE DEF f
    <3>2. IsFiniteSet({f[r] : r \in F})
      BY <3>1, ImageIsFinite DEF SoundRows
    <3> QED BY <3>1, <3>2
  <2> HIDE DEF g
  <2> QED BY <2>1, <2>2, <2>3, <1>2, CliAssumption DEF SoundRows
<1>3. CASE Ask(p).verb = "rm" /\ Ask(p).permanent
  <2>1. Effect(p, F) = F \ RowOf(F, Ask(p).uuid)
    BY <1>3 DEF Effect
  <2>2. IsFiniteSet(F \ RowOf(F, Ask(p).uuid))
    BY FS_Subset DEF SoundRows
  <2> QED BY <2>1, <2>2, <1>3 DEF SoundRows
<1>4. CASE Ask(p).verb = "rm" /\ ~Ask(p).permanent
  <2> DEFINE g(r) == IF r.id = Ask(p).uuid THEN [r EXCEPT !.group = CliBin] ELSE r
  <2>1. Effect(p, F) = {g(r) : r \in F}
    BY <1>4 DEF Effect
  <2>2. \A r \in F : DOMAIN g(r) = RowFields /\ g(r).id = r.id
    BY DEF SoundRows, RowFields
  <2>3. IsFiniteSet({g(r) : r \in F})
    <3> DEFINE f == [r \in F |-> g(r)]
    <3> HIDE DEF g
    <3>1. {g(r) : r \in F} = {f[r] : r \in F} /\ DOMAIN f = F
      OBVIOUS
    <3> HIDE DEF f
    <3>2. IsFiniteSet({f[r] : r \in F})
      BY <3>1, ImageIsFinite DEF SoundRows
    <3> QED BY <3>1, <3>2
  <2> HIDE DEF g
  <2> QED BY <2>1, <2>2, <2>3, <1>4, CliAssumption DEF SoundRows
<1>5. CASE Ask(p).verb = "sync" /\ RowOf(F, "remote") # {}
  <2>1. Effect(p, F) = F
    BY <1>5 DEF Effect
  <2> QED BY <2>1
<1>6. CASE Ask(p).verb = "sync" /\ RowOf(F, "remote") = {}
  <2> DEFINE new == [id |-> "remote", title |-> "a", tags |-> {},
                     expired |-> FALSE, group |-> CliRoot, by |-> Nobody]
  <2>1. DOMAIN new = RowFields /\ new.id = "remote" /\ "remote" # p
    BY CliAssumption DEF RowFields
  <2> HIDE DEF new
  <2>2. Effect(p, F) = F \cup {new}
    BY <1>6 DEF Effect, new
  <2>3. IsFiniteSet(F \cup {new})
    BY FS_AddElement DEF SoundRows
  <2>4. \A r \in F : r.id # "remote"
    BY <1>6 DEF RowOf
  <2> QED BY <2>1, <2>2, <2>3, <2>4, <1>6 DEF SoundRows
<1> QED BY <1>1, <1>2, <1>3, <1>4, <1>5, <1>6

-----------------------------------------------------------------------------
\* The steps that change nothing but the command's own state.
Quiet == {"uuid", "record", "name", "master", "password", "tags", "scope", "search", "generate",
          "spawn", "shell", "totp"}

LEMMA SameLock ==
    ASSUME CliType, NEW p \in CliProc, cliLock' = cliLock
    PROVE  /\ cliLock[p] \in {"none", "shared", "exclusive"}
           /\ cliLock' = [cliLock EXCEPT ![p] = cliLock[p]]
BY DEF CliType

LEMMA FileStaysSound ==
    ASSUME CliInv, NEW p \in CliProc, Kept(p), cliFile' = cliFile, cliJob[p].saved => cliJob'[p].saved
    PROVE  FileSound'
BY DEF CliInv, CliType, FileSound, SoundRows, Kept

LEMMA QuietGoes ==
    ASSUME CliInv, NEW p \in CliProc, NEW s \in Quiet, At(p, s), NEW j, MayFollow(p, j), Goes(p, j),
           j.rows = cliJob[p].rows, j.out = cliJob[p].out, j.pipe = cliJob[p].pipe,
           j.saved = cliJob[p].saved, s = "search" \/ j.answer = cliJob[p].answer,
           LockAfter(p) \/ UNCHANGED cliLock, UNCHANGED <<cliFile, cliBoard>>
    PROVE  CliInv'
<1>1. CliType /\ JobInv(p) /\ cliJob[p].code = Running
  BY DEF CliInv, At
<1>2. Place(p, s)
  BY <1>1, StepPlace
<1>3. ~IsLastStep(p) /\ cliLock' = cliLock
  BY <1>2 DEF Place, Quiet, LockAfter
<1>4. /\ Kept(p)
      /\ cliJob'[p].rows = cliJob[p].rows /\ cliJob'[p].out = cliJob[p].out
      /\ cliJob'[p].pipe = cliJob[p].pipe /\ cliJob'[p].saved = cliJob[p].saved
      /\ cliJob'[p].code = Running /\ (s = "search" \/ cliJob'[p].answer = cliJob[p].answer)
      /\ \A t : Passed(p, t)' <=> Passed(p, t) \/ At(p, t)
  BY <1>1, <1>3, GoesOn
<1>5. \A t : t \notin Quiet => (Passed(p, t)' <=> Passed(p, t))
  BY <1>4 DEF At
<1>6. Ask(p)' = Ask(p) /\ (Writes(p)' <=> Writes(p)) /\ Alive(p)' /\ Alive(p)
  BY <1>1, <1>4 DEF Ask, Writes, Alive, Kept
<1>7. Effect(p, cliFile)' = Effect(p, cliFile)
  BY <1>6 DEF Effect, RowOf
<1>8. /\ Passed(p, "open")' <=> Passed(p, "open")
      /\ Passed(p, "read")' <=> Passed(p, "read")
      /\ Passed(p, "apply")' <=> Passed(p, "apply")
      /\ Passed(p, "save")' <=> Passed(p, "save")
      /\ Passed(p, "sync")' <=> Passed(p, "sync")
      /\ Passed(p, "view")' <=> Passed(p, "view")
      /\ Passed(p, "arm")' <=> Passed(p, "arm")
      /\ Passed(p, "resolve")' <=> Passed(p, "resolve")
      /\ Passed(p, "list")' <=> Passed(p, "list")
  BY <1>5 DEF Quiet
<1>9. LockPart(p)' /\ SavedPart(p)' /\ OutPart(p)' /\ BoardPart(p)'
  BY <1>1, <1>3, <1>4, <1>6, <1>8 DEF JobInv, LockPart, SavedPart, OutPart, BoardPart, Running, Killed
<1>10. VaultPart(p)'
  BY <1>1, <1>4, <1>7, <1>8 DEF JobInv, VaultPart, SoundRows
<1>11. AnswerPart(p)'
  <2>1. CASE s = "search"
    BY <2>1, <1>2, <1>8 DEF AnswerPart, Place
  <2>2. CASE s # "search"
    BY <2>2, <1>1, <1>4, <1>6, <1>8 DEF JobInv, AnswerPart, GetIsRight, ListIsRight, Listed, Kept, Ask
  <2> QED BY <2>1, <2>2
<1>12. FileSound'
  BY <1>4, FileStaysSound
<1>13. /\ cliLock[p] \in {"none", "shared", "exclusive"}
       /\ cliLock' = [cliLock EXCEPT ![p] = cliLock[p]]
  BY <1>1, <1>3, SameLock
<1> DEFINE l == cliLock[p]
<1> HIDE DEF l
<1>14. l \in {"none", "shared", "exclusive"} /\ cliLock' = [cliLock EXCEPT ![p] = l] /\ l = cliLock[p]
  BY <1>13 DEF l
<1>15. JobInv(p)'
  BY <1>9, <1>10, <1>11 DEF JobInv
<1> QED BY <1>4, <1>12, <1>14, <1>15, OthersAgree

LEMMA LockKeptOrDropped ==
    ASSUME CliInv, NEW p \in CliProc, Kept(p), cliLock' = cliLock \/ DropVault(p),
           cliFile' = cliFile \/ cliLock[p] = "exclusive",
           cliBoard' \in {cliBoard, p, Nobody}, FileSound', JobInv(p)'
    PROVE  CliInv'
<1>1. CliType
  BY DEF CliInv
<1>2. CASE cliLock' = cliLock
  <2> DEFINE l == cliLock[p]
  <2>1. l \in {"none", "shared", "exclusive"} /\ cliLock' = [cliLock EXCEPT ![p] = l] /\ l = cliLock[p]
    BY <1>1, <1>2, SameLock
  <2> HIDE DEF l
  <2> QED BY <2>1, OthersAgree
<1>3. CASE DropVault(p)
  <2> DEFINE l == "none"
  <2>1. l \in {"none", "shared", "exclusive"} /\ cliLock' = [cliLock EXCEPT ![p] = l] /\ l \in {cliLock[p], "none"}
    BY <1>3 DEF DropVault
  <2> HIDE DEF l
  <2> QED BY <2>1, OthersAgree
<1> QED BY <1>2, <1>3


\* A command that stops with an error at any step.
LEMMA StopKeeps ==
    ASSUME CliInv, NEW p \in CliProc, cliJob[p].code = Running, NEW j, MayFollow(p, j), NEW e,
           Returns(p, j, e), SoundRows(j.rows), j.pipe => j.out = <<>>,
           Writes(p) /\ j.saved => ExitCode(e) = 10,
           cliBoard' # p \/ e = "TimerStart", cliBoard' \in {cliBoard, p, Nobody},
           cliFile' = cliFile \/ cliLock[p] = "exclusive", FileSound'
    PROVE  CliInv'
<1>1. CliType /\ JobInv(p)
  BY DEF CliInv
<1>4. /\ Kept(p)
      /\ cliJob'[p].rows = j.rows /\ cliJob'[p].pipe = j.pipe /\ cliJob'[p].saved = j.saved
      /\ cliJob'[p].error = e /\ cliJob'[p].code = ExitCode(e)
      /\ cliJob'[p].out = IF Ask(p).json /\ j.pipe THEN Append(j.out, "error") ELSE j.out
      /\ \A t : Passed(p, t)' <=> Passed(p, t)
      /\ cliLock' = [cliLock EXCEPT ![p] = "none"]
  BY <1>1, GivesUp
<1>5. Ask(p)' = Ask(p) /\ (Writes(p)' <=> Writes(p))
  BY <1>4 DEF Ask, Writes, Kept
<1>6. ExitCode(e) \in {1, 2, 3, 10, 11}
  BY CodeOfErrors
<1>7. cliLock'[p] = "none" /\ ~Alive(p)' /\ cliJob'[p].code \notin {Running, Killed, 0}
  BY <1>1, <1>4, <1>6 DEF CliType, Alive, Running, Killed
<1>9. Len(Append(<<>>, "error")) = 1
  OBVIOUS
<1>11. LockPart(p)' /\ SavedPart(p)' /\ BoardPart(p)' /\ AnswerPart(p)'
  BY <1>1, <1>4, <1>5, <1>7 DEF LockPart, SavedPart, BoardPart, AnswerPart
<1>12. OutPart(p)'
  BY <1>4, <1>5, <1>7, <1>9 DEF OutPart
<1>13. VaultPart(p)'
  BY <1>1, <1>4, <1>7 DEF VaultPart, SoundRows
<1>16. JobInv(p)'
  BY <1>11, <1>12, <1>13 DEF JobInv
<1> QED BY <1>4, <1>16, LockKeptOrDropped DEF DropVault

LEMMA QuietFails ==
    ASSUME CliInv, NEW p \in CliProc, NEW s, At(p, s), s \notin {"view", "wait", "save", "sync"},
           NEW e, Returns(p, cliJob[p], e), cliFile' = cliFile,
           cliBoard' = cliBoard \/ (cliBoard' = p /\ e = "TimerStart")
    PROVE  CliInv'
<1>1. CliType /\ JobInv(p) /\ cliJob[p].code = Running
  BY DEF CliInv, At
<1>2. Place(p, s)
  BY <1>1, StepPlace
<1> DEFINE j == cliJob[p]
<1>3. MayFollow(p, j) /\ Returns(p, j, e) /\ j.out = <<>> /\ j.pipe /\ SoundRows(j.rows)
      /\ j.saved = cliJob[p].saved
  BY <1>1, <1>2 DEF MayFollow, CliType, JobType, Ask, JobInv, OutPart, VaultPart, Place
<1> HIDE DEF j
<1>4. Kept(p) /\ cliJob'[p].saved = j.saved
  BY <1>1, <1>3, GivesUp
<1>5. j.saved = FALSE
  BY <1>1, <1>2, <1>3 DEF JobInv, SavedPart, Place, CliType, JobType
<1>6. cliBoard # p
  BY <1>1, <1>2 DEF JobInv, BoardPart, Place
<1>7. FileSound'
  BY <1>3, <1>4, FileStaysSound
<1> QED BY <1>1, <1>3, <1>5, <1>6, <1>7, StopKeeps

-----------------------------------------------------------------------------
\* The other steps: what they leave behind is sound.
\* The state after a step that goes on.
Went(p, s, j) ==
    /\ Kept(p) /\ Place(p, s)
    /\ cliJob'[p].rows = j.rows /\ cliJob'[p].answer = j.answer /\ cliJob'[p].out = j.out
    /\ cliJob'[p].pipe = j.pipe /\ cliJob'[p].saved = j.saved
    /\ cliJob'[p].code = IF IsLastStep(p) THEN 0 ELSE Running
    /\ Ask(p)' = Ask(p) /\ (Writes(p)' <=> Writes(p)) /\ Alive(p)' /\ Alive(p)
    /\ \A t : Passed(p, t)' <=> Passed(p, t) \/ t = s

LEMMA StepWent ==
    ASSUME CliInv, NEW p \in CliProc, NEW s, At(p, s), NEW j, MayFollow(p, j), Goes(p, j)
    PROVE  Went(p, s, j)
<1>1. CliType /\ cliJob[p].code = Running
  BY DEF CliInv, At
<1>2. Place(p, s)
  BY <1>1, StepPlace
<1>3. /\ Kept(p)
      /\ cliJob'[p].rows = j.rows /\ cliJob'[p].answer = j.answer /\ cliJob'[p].out = j.out
      /\ cliJob'[p].pipe = j.pipe /\ cliJob'[p].saved = j.saved
      /\ cliJob'[p].code = IF IsLastStep(p) THEN 0 ELSE Running
      /\ \A t : Passed(p, t)' <=> Passed(p, t) \/ At(p, t)
  BY <1>1, GoesOn
<1>4. \A t : At(p, t) <=> t = s
  BY DEF At
<1> QED BY <1>1, <1>2, <1>3, <1>4 DEF Went, Kept, Ask, Writes, Alive

LEMMA JobItself ==
    ASSUME CliInv, NEW p \in CliProc
    PROVE  MayFollow(p, cliJob[p])
BY DEF CliInv, CliType, JobType, MayFollow, Ask

LEMMA SuccessKeeps ==
    ASSUME CliInv, NEW p \in CliProc, NEW s \in Quiet, At(p, s), Succeeds(p)
    PROVE  CliInv'
BY QuietGoes, JobItself DEF Succeeds

LEMMA FailureKeeps ==
    ASSUME CliInv, NEW p \in CliProc, NEW s, At(p, s), s \notin {"view", "wait", "save", "sync"},
           NEW E, Fails(p, E)
    PROVE  CliInv'
<1>1. PICK e \in E : Returns(p, cliJob[p], e)
  BY DEF Fails
<1> QED BY <1>1, QuietFails DEF Fails

LEMMA DecisionKeeps ==
    ASSUME CliInv, NEW p \in CliProc, NEW s \in Quiet, At(p, s), NEW e, Decides(p, e)
    PROVE  CliInv'
<1>1. CASE e = Nobody
  BY <1>1, SuccessKeeps DEF Decides, Succeeds
<1>2. CASE e # Nobody
  <2>1. s \notin {"view", "wait", "save", "sync"}
    BY DEF Quiet
  <2> QED BY <1>2, <2>1, QuietFails DEF Decides
<1> QED BY <1>1, <1>2

LEMMA OpenKeeps ==
    ASSUME CliInv, NEW p \in CliProc, OpenVault(p)
    PROVE  CliInv'
<1>1. PICK kind \in {"exclusive", "shared"} :
        /\ At(p, IF kind = "exclusive" THEN "open" ELSE "read")
        /\ \/ /\ Compatible(p, kind)
              /\ Goes(p, [cliJob[p] EXCEPT !.rows = cliFile])
              /\ cliLock' = [cliLock EXCEPT ![p] = kind]
              /\ UNCHANGED <<cliFile, cliBoard, cliFaults>>
           \/ ~Compatible(p, kind) /\ Decides(p, "Contended")
           \/ Fails(p, {"FileNotFound", "AuthenticationFailed", "InvalidFormat", "Io"})
  BY DEF OpenVault
<1> DEFINE s == IF kind = "exclusive" THEN "open" ELSE "read"
<1>2. At(p, s) /\ s \notin {"view", "wait", "save", "sync"} /\ s \in {"open", "read"}
      /\ (s = "open" => kind = "exclusive")
  BY <1>1
<1> HIDE DEF s
<1>3. CASE /\ Compatible(p, kind)
           /\ Goes(p, [cliJob[p] EXCEPT !.rows = cliFile])
           /\ cliLock' = [cliLock EXCEPT ![p] = kind]
           /\ UNCHANGED <<cliFile, cliBoard, cliFaults>>
  <2> DEFINE j == [cliJob[p] EXCEPT !.rows = cliFile]
  <2>1. /\ MayFollow(p, j) /\ j.rows = cliFile /\ j.out = cliJob[p].out /\ j.pipe = cliJob[p].pipe
        /\ j.saved = cliJob[p].saved /\ j.answer = cliJob[p].answer
    BY JobItself DEF MayFollow, CliJobFields
  <2>2. Goes(p, j)
    BY <1>3
  <2> HIDE DEF j
  <2>3. Went(p, s, j)
    BY <1>2, <2>1, <2>2, StepWent
  <2>4. CliType /\ JobInv(p) /\ SoundRows(cliFile) /\ cliJob[p].code = Running /\ cliFile' = cliFile
    BY <1>2, <1>3 DEF CliInv, FileSound, At
  <2>5. cliLock'[p] = kind /\ ~IsLastStep(p)
    BY <1>2, <1>3, <2>3, <2>4 DEF CliType, Went, Place
  <2>6. LockPart(p)'
    BY <1>2, <2>3, <2>4, <2>5 DEF Went, Place, LockPart
  <2>7. VaultPart(p)'
    BY <1>2, <2>1, <2>3, <2>4 DEF Went, Place, VaultPart, SoundRows
  <2>8. SavedPart(p)' /\ OutPart(p)' /\ BoardPart(p)'
    BY <1>2, <1>3, <2>1, <2>3, <2>4, <2>5 DEF Went, Place, JobInv, SavedPart, OutPart, BoardPart, Running, Killed
  <2>9. AnswerPart(p)'
    BY <1>2, <2>3 DEF Went, Place, AnswerPart
  <2>10. FileSound'
    BY <2>1, <2>3, <2>4, FileStaysSound DEF Went
  <2>11. JobInv(p)'
    BY <2>6, <2>7, <2>8, <2>9 DEF JobInv
  <2>12. \A q \in CliProc \ {p} : cliLock[q] = "none" \/ (kind = "shared" /\ cliLock[q] = "shared")
    BY <1>3 DEF Compatible
  <2>13. kind \in {"none", "shared", "exclusive"}
    OBVIOUS
  <2> QED BY <1>3, <2>3, <2>10, <2>11, <2>12, <2>13, OthersAgree DEF Went
<1>4. CASE Decides(p, "Contended")
  <2> DEFINE e == "Contended"
  <2>1. e # Nobody /\ Decides(p, e)
    BY <1>4, NobodyAssumption DEF Errors, VaultErrors
  <2> HIDE DEF e
  <2> QED BY <1>2, <2>1, QuietFails DEF Decides
<1>5. CASE Fails(p, {"FileNotFound", "AuthenticationFailed", "InvalidFormat", "Io"})
  BY <1>2, <1>5, FailureKeeps
<1> QED BY <1>1, <1>3, <1>4, <1>5

\* A vault to which a command has saved its change is sound.
LEMMA SavedIsSound ==
    ASSUME CliInv, NEW p \in CliProc, Kept(p), ~cliJob[p].saved, cliJob'[p].saved,
           Ask(p).verb \in {"add", "edit", "rm", "sync"}, cliFile' = Effect(p, cliFile)
    PROVE  FileSound'
<1>1. SoundRows(cliFile) /\ (\A r \in cliFile : r.id \in CliProc => cliJob[r.id].saved)
  BY DEF CliInv, FileSound
<1>2. \A r \in cliFile : r.id # p
  BY <1>1
<1>3. /\ SoundRows(Effect(p, cliFile))
      /\ \A r \in Effect(p, cliFile) : r.id \in {p, "remote"} \/ \E x \in cliFile : x.id = r.id
  BY <1>1, <1>2, EffectIsSound
<1>4. \A r \in cliFile' : r.id \in CliProc => cliJob'[r.id].saved
  BY <1>1, <1>3, CliAssumption DEF Kept
<1> QED BY <1>3, <1>4 DEF FileSound, SoundRows

LEMMA EffectKeeps ==
    ASSUME CliInv, NEW p \in CliProc, Apply(p)
    PROVE  CliInv'
<1> DEFINE s == "apply"
<1>1. At(p, s) /\ s \notin {"view", "wait", "save", "sync"}
  BY DEF Apply
<1>2. CliType /\ JobInv(p) /\ FileSound /\ cliJob[p].code = Running /\ Place(p, s)
  BY <1>1, StepPlace DEF CliInv, At
<1>3. CASE Decides(p, "EntryNotFound")
  <2> DEFINE e == "EntryNotFound"
  <2>1. e # Nobody /\ Decides(p, e)
    BY <1>3, NobodyAssumption DEF Errors, VaultErrors
  <2> HIDE DEF e, s
  <2> QED BY <1>1, <2>1, QuietFails DEF Decides
<1>4. CASE /\ Goes(p, [cliJob[p] EXCEPT !.rows = Effect(p, @)])
           /\ UNCHANGED <<cliFile, cliLock, cliBoard, cliFaults>>
  <2> DEFINE j == [cliJob[p] EXCEPT !.rows = Effect(p, @)]
  <2>1. /\ MayFollow(p, j) /\ j.rows = Effect(p, cliJob[p].rows) /\ j.out = cliJob[p].out
        /\ j.pipe = cliJob[p].pipe /\ j.saved = cliJob[p].saved /\ j.answer = cliJob[p].answer
    BY JobItself DEF MayFollow, CliJobFields
  <2>2. Goes(p, j)
    BY <1>4
  <2> HIDE DEF j
  <2>3. Went(p, s, j)
    BY <1>1, <2>1, <2>2, StepWent
  <2>4. /\ cliJob[p].rows = cliFile /\ ~cliJob[p].saved /\ Writes(p) /\ Passed(p, "open")
        /\ ~IsLastStep(p) /\ cliFile' = cliFile /\ cliLock' = cliLock /\ cliBoard' = cliBoard
    BY <1>2, <1>4 DEF Place, JobInv, VaultPart, SavedPart
  <2>5. SoundRows(Effect(p, cliFile))
    <3>1. SoundRows(cliFile) /\ (\A r \in cliFile : r.id # p)
      BY <1>2, <2>4 DEF FileSound
    <3> QED BY <3>1, <2>4, EffectIsSound DEF Writes
  <2>6. LockPart(p)'
    BY <1>2, <2>3, <2>4 DEF Went, Place, JobInv, LockPart, Running
  <2>7. VaultPart(p)'
    <3>1. Effect(p, cliFile)' = Effect(p, cliFile)
      BY <2>3, <2>4 DEF Went, Effect, RowOf
    <3> QED BY <2>1, <2>3, <2>4, <2>5, <3>1 DEF Went, VaultPart, SoundRows
  <2>8. SavedPart(p)' /\ OutPart(p)' /\ BoardPart(p)'
    BY <1>2, <2>1, <2>3, <2>4 DEF Went, Place, JobInv, SavedPart, OutPart, BoardPart, Running, Killed
  <2>9. AnswerPart(p)'
    BY <2>3 DEF Went, Place, AnswerPart
  <2>10. FileSound'
    BY <2>1, <2>3, <2>4, FileStaysSound DEF Went
  <2>11. JobInv(p)'
    BY <2>6, <2>7, <2>8, <2>9 DEF JobInv
  <2> QED BY <2>3, <2>4, <2>10, <2>11, LockKeptOrDropped DEF Went
<1> QED BY <1>3, <1>4 DEF Apply

LEMMA SaveKeeps ==
    ASSUME CliInv, NEW p \in CliProc, SaveVault(p)
    PROVE  CliInv' /\ SavesOwnChange
<1> DEFINE s == "save"
<1>1. At(p, s)
  BY DEF SaveVault
<1>2. CliType /\ JobInv(p) /\ FileSound /\ cliJob[p].code = Running /\ Place(p, s)
  BY <1>1, StepPlace DEF CliInv, At
<1>3. PICK done \in BOOLEAN, ok \in BOOLEAN :
        /\ IF ok THEN done /\ Goes(p, [cliJob[p] EXCEPT !.saved = done]) /\ UNCHANGED <<cliLock, cliFaults>>
           ELSE CliFault /\ \E e \in {"Io", "WriteFailed"} : Returns(p, [cliJob[p] EXCEPT !.saved = done], e)
        /\ cliFile' = IF done THEN cliJob[p].rows ELSE cliFile
        /\ UNCHANGED cliBoard
  BY DEF SaveVault
<1> DEFINE j == [cliJob[p] EXCEPT !.saved = done]
<1>4. /\ MayFollow(p, j) /\ j.rows = cliJob[p].rows /\ j.out = cliJob[p].out
      /\ j.pipe = cliJob[p].pipe /\ j.saved = done /\ j.answer = cliJob[p].answer
  BY JobItself DEF MayFollow, CliJobFields
<1>5. /\ ok => done /\ Goes(p, j) /\ cliLock' = cliLock
      /\ ~ok => \E e \in {"Io", "WriteFailed"} : Returns(p, j, e)
  BY <1>3
<1> HIDE DEF j
<1>6. /\ cliJob[p].rows = Effect(p, cliFile) /\ ~cliJob[p].saved /\ Writes(p) /\ Passed(p, "open")
      /\ cliLock[p] = "exclusive" /\ SoundRows(cliJob[p].rows) /\ Passed(p, "apply")
      /\ ~IsLastStep(p) /\ cliBoard' = cliBoard /\ cliBoard # p /\ j.out = <<>> /\ j.pipe
  BY <1>2, <1>3, <1>4 DEF Place, JobInv, LockPart, VaultPart, SavedPart, OutPart, BoardPart
<1>7. cliFile' = (IF done THEN Effect(p, cliFile) ELSE cliFile)
      /\ Ask(p).verb \in {"add", "edit", "rm", "sync"}
  BY <1>3, <1>6 DEF Writes
<1>8. SavesOwnChange
  BY <1>7 DEF SavesOwnChange
<1>9. ASSUME Kept(p), cliJob'[p].saved = done PROVE FileSound'
  <2>1. CASE done
    BY <1>6, <1>7, <1>9, <2>1, SavedIsSound
  <2>2. CASE ~done
    BY <1>6, <1>7, <1>9, <2>2, FileStaysSound
  <2> QED BY <2>1, <2>2
<1>10. CASE ok
  <2>3. Went(p, s, j)
    BY <1>1, <1>4, <1>5, <1>10, StepWent
  <2>4. done /\ cliLock' = cliLock /\ FileSound'
    BY <1>4, <1>5, <1>9, <1>10, <2>3 DEF Went
  <2>6. LockPart(p)'
    BY <1>6, <2>3, <2>4 DEF Went, Place, LockPart, Running
  <2>7. VaultPart(p)'
    BY <1>4, <1>6, <2>3 DEF Went, VaultPart, SoundRows
  <2>8. SavedPart(p)' /\ OutPart(p)' /\ BoardPart(p)'
    BY <1>2, <1>4, <1>6, <2>3, <2>4 DEF Went, Place, JobInv, SavedPart, OutPart, BoardPart, Running, Killed
  <2>9. AnswerPart(p)'
    BY <2>3 DEF Went, Place, AnswerPart
  <2>11. JobInv(p)'
    BY <2>6, <2>7, <2>8, <2>9 DEF JobInv
  <2>12. CliInv'
    BY <1>6, <2>3, <2>4, <2>11, LockKeptOrDropped DEF Went
  <2> QED BY <2>12, <1>8
<1>11. CASE ~ok
  <2>1. PICK e \in {"Io", "WriteFailed"} : Returns(p, j, e)
    BY <1>5, <1>11
  <2>2. ExitCode(e) = 10
    BY CodeOfErrors
  <2>3. Kept(p) /\ cliJob'[p].saved = done
    BY <1>2, <1>4, <2>1, GivesUp
  <2>4. FileSound'
    BY <1>9, <2>3
  <2>5. CliInv'
    BY <1>2, <1>4, <1>6, <2>1, <2>2, <2>4, StopKeeps
  <2> QED BY <2>5, <1>8
<1> QED BY <1>10, <1>11

LEMMA SyncKeeps ==
    ASSUME CliInv, NEW p \in CliProc, SyncNow(p)
    PROVE  CliInv' /\ SavesOwnChange
<1> DEFINE s == "sync"
<1>1. At(p, s)
  BY DEF SyncNow
<1>2. CliType /\ JobInv(p) /\ FileSound /\ cliJob[p].code = Running /\ Place(p, s)
  BY <1>1, StepPlace DEF CliInv, At
<1>3. PICK done \in BOOLEAN :
        LET j == [cliJob[p] EXCEPT !.saved = done, !.rows = IF done THEN Effect(p, @) ELSE @] IN
        /\ \/ Goes(p, j) /\ UNCHANGED <<cliLock, cliFaults>>
           \/ CliFault /\ \E e \in SyncErrors : Returns(p, j, e)
        /\ cliFile' = IF done THEN j.rows ELSE cliFile
        /\ UNCHANGED cliBoard
  BY DEF SyncNow
<1> DEFINE rows == IF done THEN Effect(p, cliJob[p].rows) ELSE cliJob[p].rows
           j == [cliJob[p] EXCEPT !.saved = done, !.rows = rows]
<1>4. /\ MayFollow(p, j) /\ j.rows = rows /\ j.out = cliJob[p].out
      /\ j.pipe = cliJob[p].pipe /\ j.saved = done /\ j.answer = cliJob[p].answer
  <2> HIDE DEF rows
  <2> QED BY JobItself DEF MayFollow, CliJobFields
<1>5. /\ (Goes(p, j) /\ cliLock' = cliLock) \/ (\E e \in SyncErrors : Returns(p, j, e))
      /\ cliFile' = (IF done THEN j.rows ELSE cliFile) /\ cliBoard' = cliBoard
  BY <1>3
<1> HIDE DEF j
<1>6. /\ cliJob[p].rows = cliFile /\ ~cliJob[p].saved /\ ~Writes(p) /\ Ask(p).verb = "sync"
      /\ Passed(p, "open") /\ cliLock[p] = "exclusive" /\ ~Passed(p, "apply")
      /\ ~IsLastStep(p) /\ cliBoard # p /\ j.out = <<>> /\ j.pipe
  BY <1>2, <1>4 DEF Place, JobInv, LockPart, VaultPart, SavedPart, OutPart, BoardPart, Writes
<1>7. cliFile' = IF done THEN Effect(p, cliFile) ELSE cliFile
  BY <1>4, <1>5, <1>6 DEF rows
<1>8. SavesOwnChange
  BY <1>6, <1>7 DEF SavesOwnChange
<1>9. ASSUME Kept(p), cliJob'[p].saved = done PROVE FileSound'
  <2>1. CASE done
    BY <1>6, <1>7, <1>9, <2>1, SavedIsSound
  <2>2. CASE ~done
    BY <1>6, <1>7, <1>9, <2>2, FileStaysSound
  <2> QED BY <2>1, <2>2
<1>12. SoundRows(j.rows)
  <2>1. SoundRows(cliFile) /\ \A r \in cliFile : r.id # p
    BY <1>2, <1>6 DEF FileSound
  <2>2. SoundRows(Effect(p, cliFile))
    BY <2>1, <1>6, EffectIsSound
  <2>3. j.rows = IF done THEN Effect(p, cliFile) ELSE cliFile
    BY <1>4, <1>6 DEF rows
  <2> QED BY <2>1, <2>2, <2>3
<1>10. CASE Goes(p, j) /\ cliLock' = cliLock
  <2>3. Went(p, s, j)
    BY <1>1, <1>4, <1>10, StepWent
  <2>4. cliLock' = cliLock /\ FileSound'
    BY <1>4, <1>9, <1>10, <2>3 DEF Went
  <2>6. LockPart(p)'
    BY <1>6, <2>3, <2>4 DEF Went, Place, LockPart, Running
  <2>7. VaultPart(p)'
    BY <1>4, <1>6, <1>12, <2>3 DEF Went, VaultPart, SoundRows
  <2>8. SavedPart(p)' /\ OutPart(p)' /\ BoardPart(p)'
    BY <1>2, <1>4, <1>5, <1>6, <2>3, <2>4 DEF Went, Place, JobInv, SavedPart, OutPart, BoardPart, Running, Killed
  <2>9. AnswerPart(p)'
    BY <2>3 DEF Went, Place, AnswerPart
  <2>11. JobInv(p)'
    BY <2>6, <2>7, <2>8, <2>9 DEF JobInv
  <2>12. CliInv'
    BY <1>5, <1>6, <2>3, <2>4, <2>11, LockKeptOrDropped DEF Went
  <2> QED BY <2>12, <1>8
<1>11. CASE \E e \in SyncErrors : Returns(p, j, e)
  <2>1. PICK e \in SyncErrors : Returns(p, j, e)
    BY <1>11
  <2>3. Kept(p) /\ cliJob'[p].saved = done
    BY <1>2, <1>4, <2>1, GivesUp
  <2>4. FileSound'
    BY <1>9, <2>3
  <2>5. CliInv'
    BY <1>2, <1>4, <1>5, <1>6, <1>12, <2>1, <2>4, StopKeeps
  <2> QED BY <2>5, <1>8
<1> QED BY <1>5, <1>10, <1>11

\* A step that changes the answer, the board or the output and goes on.
LEMMA AnswerGoes ==
    ASSUME CliInv, NEW p \in CliProc, NEW s \in {"resolve", "list", "arm", "view", "wait"}, At(p, s),
           NEW j, MayFollow(p, j), Goes(p, j), j.rows = cliJob[p].rows, j.saved = cliJob[p].saved,
           s \in {"arm", "view", "wait"} => j.answer = cliJob[p].answer,
           s = "resolve" => GetIsRight(cliJob'[p]), s = "list" => ListIsRight(cliJob'[p]),
           s \in {"resolve", "list", "arm"} => j.out = cliJob[p].out /\ j.pipe = cliJob[p].pipe,
           s \in {"view", "wait"} => (Ask(p).json /\ j.pipe => Len(j.out) = 1),
           LockAfter(p), cliFile' = cliFile,
           cliBoard' \in {cliBoard, p, Nobody}, s = "wait" => cliBoard' # p,
           s \in {"resolve", "list", "view"} => cliBoard' = cliBoard
    PROVE  CliInv'
<1>1. CliType /\ JobInv(p) /\ cliJob[p].code = Running
  BY DEF CliInv, At
<1>2. Went(p, s, j)
  BY StepWent
<1>3. IF IsLastStep(p) THEN cliLock'[p] = "none" ELSE cliLock' = cliLock
  BY <1>1 DEF LockAfter, DropVault, CliType
<1>4. LockPart(p)'
  BY <1>1, <1>2, <1>3 DEF Went, Place, JobInv, LockPart, Running
<1>5. Effect(p, cliFile)' = Effect(p, cliFile)
  BY <1>2 DEF Went, Effect, RowOf
<1>6. VaultPart(p)'
  BY <1>1, <1>2, <1>5 DEF Went, Place, JobInv, VaultPart, SoundRows
<1>7. SavedPart(p)'
  BY <1>1, <1>2 DEF Went, Place, JobInv, SavedPart, Running
<1>8. BoardPart(p)'
  BY <1>1, <1>2 DEF Went, Place, JobInv, BoardPart, Running, Killed
<1>9. OutPart(p)'
  BY <1>1, <1>2 DEF Went, Place, JobInv, OutPart, Running, Killed
<1>10. AnswerPart(p)'
  <2>1. CASE s \in {"resolve", "list"}
    BY <2>1, <1>2 DEF Went, Place, AnswerPart
  <2>2. CASE s \in {"arm", "view", "wait"}
    <3>1. /\ GetIsRight(cliJob[p]) => GetIsRight(cliJob'[p])
          /\ ListIsRight(cliJob[p]) => ListIsRight(cliJob'[p])
      BY <2>2, <1>2 DEF Went, Kept, Ask, GetIsRight, ListIsRight, Listed
    <3>2. /\ Passed(p, "resolve")' <=> Passed(p, "resolve")
          /\ Passed(p, "list")' <=> Passed(p, "list")
      BY <2>2, <1>2 DEF Went
    <3> QED BY <1>1, <1>2, <3>1, <3>2 DEF Went, JobInv, AnswerPart
  <2> QED BY <2>1, <2>2
<1>11. FileSound'
  BY <1>2, FileStaysSound DEF Went
<1>12. JobInv(p)'
  BY <1>4, <1>6, <1>7, <1>8, <1>9, <1>10 DEF JobInv
<1>13. cliLock' = cliLock \/ DropVault(p)
  BY DEF LockAfter
<1> QED BY <1>2, <1>11, <1>12, <1>13, LockKeptOrDropped DEF Went

\* An entry named by a title is the only one of that title.
LEMMA ResolvesRightly ==
    ASSUME NEW R, SoundRows(R), NEW a, ResolveEntryUuid(R, a).error = Nobody
    PROVE  \A r \in R : (IF a.uuid # Nobody THEN r.id = a.uuid ELSE r.title = a.title)
                            => r.id = ResolveEntryUuid(R, a).id
<1> DEFINE named == {r \in R : r.title = a.title}
<1>1. "BadUuid" # Nobody /\ "NoTitle" # Nobody /\ "NoEntryNamed" # Nobody /\ "SharedTitle" # Nobody
  BY NobodyAssumption DEF Errors, OwnErrors
<1>2. CASE a.uuid # Nobody
  <2>1. ResolveEntryUuid(R, a).id = a.uuid
    BY <1>1, <1>2 DEF ResolveEntryUuid
  <2> QED BY <1>2, <2>1
<1>3. CASE a.uuid = Nobody
  <2>1. Cardinality(named) = 1 /\ ResolveEntryUuid(R, a).id = (CHOOSE r \in named : TRUE).id
    <3> DEFINE pick == (CHOOSE r \in named : TRUE).id
               one == Cardinality(named) = 1
    <3> HIDE DEF named
    <3>1. ResolveEntryUuid(R, a) =
              IF a.uuid = "bad" THEN [error |-> "BadUuid", id |-> Nobody]
              ELSE IF a.uuid # Nobody THEN [error |-> Nobody, id |-> a.uuid]
              ELSE IF a.title = NotGiven THEN [error |-> "NoTitle", id |-> Nobody]
              ELSE IF named = {} THEN [error |-> "NoEntryNamed", id |-> Nobody]
              ELSE IF one THEN [error |-> Nobody, id |-> pick]
              ELSE [error |-> "SharedTitle", id |-> Nobody]
      BY DEF ResolveEntryUuid, named
    <3> HIDE DEF pick, one
    <3>2. one /\ ResolveEntryUuid(R, a).id = pick
      BY <3>1, <1>1, <1>3
    <3> QED BY <3>2 DEF one, pick
  <2>2. IsFiniteSet(named)
    BY FS_Subset DEF SoundRows
  <2>3. PICK x : named = {x}
    BY <2>1, <2>2, FS_Singleton
  <2>4. (CHOOSE r \in named : TRUE) = x
    BY <2>3
  <2> QED BY <1>3, <2>1, <2>3, <2>4
<1> QED BY <1>2, <1>3

LEMMA ResolveKeeps ==
    ASSUME CliInv, NEW p \in CliProc, ResolveEntry(p)
    PROVE  CliInv'
<1> DEFINE s == "resolve"
           found == ResolveEntryUuid(cliJob[p].rows, Ask(p))
<1>1. At(p, s) /\ s \notin {"view", "wait", "save", "sync"}
  BY DEF ResolveEntry
<1>2. CliType /\ JobInv(p) /\ cliJob[p].code = Running /\ Place(p, s)
  BY <1>1, StepPlace DEF CliInv, At
<1>3. CASE found.error # Nobody /\ Decides(p, found.error)
  <2> DEFINE e == found.error
  <2>1. e # Nobody /\ Decides(p, e)
    BY <1>3
  <2> HIDE DEF e, s
  <2> QED BY <1>1, <2>1, QuietFails DEF Decides
<1>4. CASE Decides(p, "EntryNotFound")
  <2> DEFINE e == "EntryNotFound"
  <2>1. e # Nobody /\ Decides(p, e)
    BY <1>4, NobodyAssumption DEF Errors, VaultErrors
  <2> HIDE DEF e, s
  <2> QED BY <1>1, <2>1, QuietFails DEF Decides
<1>5. CASE /\ found.error = Nobody
           /\ Goes(p, [cliJob[p] EXCEPT !.answer = <<found.id>>])
           /\ UNCHANGED <<cliFile, cliLock, cliBoard, cliFaults>>
  <2> DEFINE answer == <<found.id>>
             j == [cliJob[p] EXCEPT !.answer = answer]
  <2>1. /\ MayFollow(p, j) /\ j.rows = cliJob[p].rows /\ j.out = cliJob[p].out
        /\ j.pipe = cliJob[p].pipe /\ j.saved = cliJob[p].saved /\ j.answer = answer
    <3> HIDE DEF answer
    <3> QED BY JobItself DEF MayFollow, CliJobFields
  <2>2. Goes(p, j)
    BY <1>5
  <2> HIDE DEF j
  <2>3. Went(p, s, j)
    BY <1>1, <2>1, <2>2, StepWent
  <2>4. GetIsRight(cliJob'[p])
    <3>1. SoundRows(cliJob[p].rows)
      BY <1>2 DEF JobInv, VaultPart
    <3>2. \A r \in cliJob[p].rows :
              (IF Ask(p).uuid # Nobody THEN r.id = Ask(p).uuid ELSE r.title = Ask(p).title) => r.id = found.id
      <4> DEFINE R == cliJob[p].rows
                 a == Ask(p)
      <4>1. SoundRows(R) /\ ResolveEntryUuid(R, a).error = Nobody
        BY <3>1, <1>5
      <4> HIDE DEF R, a
      <4>2. \A r \in R : (IF a.uuid # Nobody THEN r.id = a.uuid ELSE r.title = a.title)
                            => r.id = ResolveEntryUuid(R, a).id
        BY <4>1, ResolvesRightly
      <4> QED BY <4>2 DEF R, a
    <3>3. cliJob'[p].rows = cliJob[p].rows /\ cliJob'[p].ask = Ask(p) /\ cliJob'[p].answer = <<found.id>>
      BY <2>1, <2>3 DEF Went, Kept
    <3> HIDE DEF found
    <3> QED BY <3>2, <3>3 DEF GetIsRight
  <2>5. ~IsLastStep(p)
    BY <1>2 DEF Place
  <2>6. s \in {"resolve", "list", "arm", "view", "wait"} /\ LockAfter(p)
    BY <1>5, <2>5 DEF LockAfter
  <2> QED BY <1>1, <1>5, <2>1, <2>2, <2>4, <2>6, AnswerGoes
<1> QED BY <1>3, <1>4, <1>5 DEF ResolveEntry

\* The page of a list of entries: its length, and whose it is.
LEMMA PageIsRight ==
    ASSUME NEW L, IsFiniteSet(L), \A r, x \in L : r.id = x.id => r = x, NEW s \in SetToSeqs(L),
           NEW a, a.offset \in Nat, a.limit \in Nat
    PROVE  LET answer == Ids(Page(s, a))
               left == IF a.offset < Cardinality(L) THEN Cardinality(L) - a.offset ELSE 0 IN
           /\ \A i \in DOMAIN answer : \E r \in L : r.id = answer[i]
           /\ IsInjective(answer)
           /\ Len(answer) = IF a.limit < left THEN a.limit ELSE left
<1> DEFINE n == Cardinality(L)
           o == a.offset
           hi == IF a.limit < n - o THEN o + a.limit ELSE n
           m == IF o + 1 <= hi THEN hi - o ELSE 0
           t == SubSeq(s, o + 1, hi)
           answer == Ids(t)
           X == {r.id : r \in L}
<1>1. n \in Nat /\ o \in Nat /\ a.limit \in Nat
  BY FS_CardinalityType
<1>2. s \in [1 .. n -> L] /\ \A i, k \in 1 .. n : i # k => s[i] # s[k]
  BY DEF SetToSeqs
<1> HIDE DEF n
<1>3. s \in Seq(L) /\ Len(s) = n
  BY <1>1, <1>2
<1>4. hi \in Int /\ hi <= n /\ m \in Nat
  BY <1>1
<1>5. \A i \in o + 1 .. hi : s[i] \in L
  BY <1>1, <1>2, <1>4
<1> HIDE DEF hi, o
<1>6. /\ t \in Seq(L) /\ Len(t) = m
      /\ \A i \in 1 .. m : t[i] = s[o + i]
  <2> DEFINE lo == o + 1
  <2>1. lo \in Int /\ \A i \in lo .. hi : s[i] \in L
    BY <1>1, <1>5
  <2> HIDE DEF lo
  <2>2. /\ SubSeq(s, lo, hi) \in Seq(L)
        /\ Len(SubSeq(s, lo, hi)) = IF lo <= hi THEN hi - lo + 1 ELSE 0
        /\ \A i \in 1 .. hi - lo + 1 : SubSeq(s, lo, hi)[i] = s[lo + i - 1]
    BY <1>4, <2>1, SubSeqProperties
  <2> QED BY <1>1, <1>4, <2>2 DEF lo
<1> HIDE DEF t
<1>7. DOMAIN t = 1 .. m
  BY <1>6
<1>8. DOMAIN answer = 1 .. m /\ \A i \in 1 .. m : answer[i] = t[i].id /\ t[i] \in L
  BY <1>6, <1>7 DEF Ids
<1>9. answer \in [1 .. m -> X]
  BY <1>7, <1>8 DEF Ids
<1> HIDE DEF answer
<1>10. Len(answer) = m
  BY <1>4, <1>9
<1>11. \A i \in DOMAIN answer : \E r \in L : r.id = answer[i]
  BY <1>8
<1>12. IsInjective(answer)
  <2> SUFFICES ASSUME NEW i \in 1 .. m, NEW k \in 1 .. m, answer[i] = answer[k] PROVE i = k
    BY <1>8 DEF IsInjective
  <2>1. t[i] = t[k]
    BY <1>8
  <2>2. o + i \in 1 .. n /\ o + k \in 1 .. n
    BY <1>1, <1>4
  <2> HIDE DEF m
  <2>3. s[o + i] = s[o + k]
    BY <2>1, <1>6
  <2> QED BY <2>2, <2>3, <1>1, <1>2
<1>13. Page(s, a) = t
  BY <1>3 DEF Page, t, hi, o
<1>14. m = LET left == IF a.offset < n THEN n - a.offset ELSE 0 IN IF a.limit < left THEN a.limit ELSE left
  BY <1>1 DEF hi, o
<1> QED BY <1>10, <1>11, <1>12, <1>13, <1>14 DEF n, answer

LEMMA ListKeeps ==
    ASSUME CliInv, NEW p \in CliProc, List(p)
    PROVE  CliInv'
<1> DEFINE s == "list"
           L == Listed(cliJob[p].rows, Ask(p))
<1>1. At(p, s)
  BY DEF List
<1>2. CliType /\ JobInv(p) /\ cliJob[p].code = Running /\ Place(p, s) /\ Ask(p) \in Invocation
  BY <1>1, StepPlace, RunningStep DEF CliInv, At
<1>3. PICK q \in SetToSeqs(L) : Goes(p, [cliJob[p] EXCEPT !.answer = Ids(Page(q, Ask(p)))])
  BY DEF List
<1> DEFINE answer == Ids(Page(q, Ask(p)))
           j == [cliJob[p] EXCEPT !.answer = answer]
<1>4. /\ MayFollow(p, j) /\ j.rows = cliJob[p].rows /\ j.out = cliJob[p].out
      /\ j.pipe = cliJob[p].pipe /\ j.saved = cliJob[p].saved /\ j.answer = answer
  <2> HIDE DEF answer
  <2> QED BY JobItself DEF MayFollow, CliJobFields
<1>5. Goes(p, j)
  BY <1>3
<1> HIDE DEF j
<1>6. Went(p, s, j)
  BY <1>1, <1>4, <1>5, StepWent
<1>7. ListIsRight(cliJob'[p])
  <2>1. IsFiniteSet(L) /\ \A r, x \in L : r.id = x.id => r = x
    <3>1. L \subseteq cliJob[p].rows /\ SoundRows(cliJob[p].rows)
      BY <1>2 DEF JobInv, VaultPart, Listed
    <3> HIDE DEF L
    <3> QED BY <3>1, FS_Subset DEF SoundRows
  <2>2. Ask(p).offset \in Nat /\ Ask(p).limit \in Nat
    BY <1>2, CliAssumption
  <2>3. cliJob'[p].rows = cliJob[p].rows /\ cliJob'[p].ask = Ask(p) /\ cliJob'[p].answer = answer
    BY <1>4, <1>6 DEF Went, Kept
  <2> DEFINE a == Ask(p)
  <2>4. a.offset \in Nat /\ a.limit \in Nat /\ q \in SetToSeqs(L)
    BY <2>2
  <2>5. L = Listed(cliJob'[p].rows, cliJob'[p].ask)
    BY <2>3
  <2> HIDE DEF L, a
  <2>6. LET ids == Ids(Page(q, a))
            left == IF a.offset < Cardinality(L) THEN Cardinality(L) - a.offset ELSE 0 IN
        /\ \A i \in DOMAIN ids : \E r \in L : r.id = ids[i]
        /\ IsInjective(ids)
        /\ Len(ids) = IF a.limit < left THEN a.limit ELSE left
    BY <2>1, <2>4, PageIsRight
  <2>7. cliJob'[p].answer = Ids(Page(q, a)) /\ cliJob'[p].ask = a
    BY <2>3 DEF a
  <2> QED BY <2>5, <2>6, <2>7 DEF ListIsRight
<1>8. s \in {"resolve", "list", "arm", "view", "wait"} /\ LockAfter(p)
  BY <1>2 DEF LockAfter, Place, List
<1>9. cliFile' = cliFile /\ cliBoard' = cliBoard
  BY DEF List
<1> QED BY <1>1, <1>4, <1>5, <1>7, <1>8, <1>9, AnswerGoes

LEMMA ArmKeeps ==
    ASSUME CliInv, NEW p \in CliProc, ArmClipboard(p)
    PROVE  CliInv'
<1> DEFINE s == "arm"
           j == cliJob[p]
<1>1. At(p, s) /\ s \notin {"view", "wait", "save", "sync"} /\ s \in {"resolve", "list", "arm", "view", "wait"}
  BY DEF ArmClipboard
<1>2. CliType /\ Place(p, s) /\ MayFollow(p, j)
  BY <1>1, StepPlace, JobItself DEF CliInv
<1>3. CASE Goes(p, cliJob[p]) /\ cliBoard' = p /\ UNCHANGED <<cliFile, cliLock, cliFaults>>
  <2>1. LockAfter(p) /\ Goes(p, j)
    BY <1>2, <1>3 DEF LockAfter, Place
  <2>2. j.rows = cliJob[p].rows /\ j.saved = cliJob[p].saved /\ j.answer = cliJob[p].answer
        /\ j.out = cliJob[p].out /\ j.pipe = cliJob[p].pipe
    OBVIOUS
  <2> HIDE DEF j
  <2> QED BY <1>1, <1>2, <1>3, <2>1, <2>2, AnswerGoes
<1>4. CASE Fails(p, {"ClipboardUnavailable"})
  BY <1>1, <1>4, FailureKeeps
<1>5. CASE Returns(p, cliJob[p], "TimerStart") /\ cliBoard' = p /\ UNCHANGED cliFile
  <2> DEFINE e == "TimerStart"
  <2>1. Returns(p, cliJob[p], e) /\ e = "TimerStart"
    BY <1>5
  <2> HIDE DEF e, s
  <2> QED BY <1>1, <1>5, <2>1, QuietFails
<1> QED BY <1>3, <1>4, <1>5 DEF ArmClipboard

LEMMA ViewKeeps ==
    ASSUME CliInv, NEW p \in CliProc, WriteView(p)
    PROVE  CliInv'
<1> DEFINE s == "view"
<1>1. At(p, s) /\ s \in {"resolve", "list", "arm", "view", "wait"}
  BY DEF WriteView
<1>2. CliType /\ JobInv(p) /\ cliJob[p].code = Running /\ Place(p, s)
  BY <1>1, StepPlace DEF CliInv, At
<1>3. cliJob[p].out = <<>> /\ SoundRows(cliJob[p].rows)
  BY <1>2 DEF JobInv, OutPart, VaultPart, Place
<1>4. CASE /\ Goes(p, [cliJob[p] EXCEPT !.out =
                 IF Ask(p).verb = "sync" /\ ~Ask(p).json THEN @ ELSE Append(@, "view")])
           /\ LockAfter(p)
           /\ UNCHANGED <<cliFile, cliBoard, cliFaults>>
  <2> DEFINE said == cliJob[p].out
             word == "view"
             out == IF Ask(p).verb = "sync" /\ ~Ask(p).json THEN said ELSE Append(said, word)
             j == [cliJob[p] EXCEPT !.out = out]
  <2>1. out \in Seq(OutWords) /\ (Ask(p).json => Len(out) = 1)
    <3>1. word \in OutWords /\ said \in Seq(OutWords) /\ Len(said) = 0
      BY <1>2, <1>3 DEF OutWords, CliType, JobType
    <3> HIDE DEF word, said
    <3>2. Append(said, word) \in Seq(OutWords) /\ Len(Append(said, word)) = Len(said) + 1
      BY <3>1, AppendProperties
    <3> QED BY <3>1, <3>2
  <2>2. /\ MayFollow(p, j) /\ j.rows = cliJob[p].rows /\ j.out = out
        /\ j.pipe = cliJob[p].pipe /\ j.saved = cliJob[p].saved /\ j.answer = cliJob[p].answer
    <3> HIDE DEF out
    <3> QED BY <2>1, JobItself DEF MayFollow, CliJobFields
  <2>3. Goes(p, j)
    BY <1>4
  <2> HIDE DEF j, out
  <2> QED BY <1>1, <1>4, <2>1, <2>2, <2>3, AnswerGoes
<1>5. CASE LET j == [cliJob[p] EXCEPT !.pipe = FALSE] IN
           /\ IF MustWait(p) THEN Goes(p, j) /\ UNCHANGED cliLock ELSE Returns(p, j, "Output")
           /\ UNCHANGED <<cliFile, cliBoard>>
  <2> DEFINE j == [cliJob[p] EXCEPT !.pipe = FALSE]
  <2>1. /\ MayFollow(p, j) /\ j.rows = cliJob[p].rows /\ ~j.pipe
        /\ j.saved = cliJob[p].saved /\ j.answer = cliJob[p].answer
    BY JobItself DEF MayFollow, CliJobFields
  <2>2. /\ MustWait(p) => Goes(p, j) /\ cliLock' = cliLock
        /\ ~MustWait(p) => Returns(p, j, "Output")
        /\ cliFile' = cliFile /\ cliBoard' = cliBoard
    BY <1>5
  <2> HIDE DEF j
  <2>3. CASE MustWait(p)
    <3>1. LockAfter(p)
      BY <2>2, <2>3 DEF MustWait, LockAfter
    <3> QED BY <1>1, <2>1, <2>2, <2>3, <3>1, AnswerGoes
  <2>4. CASE ~MustWait(p)
    <3> DEFINE e == "Output"
    <3>1. Returns(p, j, e) /\ ExitCode(e) = 10
      BY <2>2, <2>4, CodeOfErrors
    <3> HIDE DEF e
    <3>2. cliBoard # p
      BY <1>2, <2>4 DEF MustWait, Place, JobInv, BoardPart
    <3>3. Kept(p) /\ cliJob'[p].saved = j.saved
      BY <1>2, <2>1, <3>1, GivesUp
    <3>4. FileSound'
      BY <2>1, <2>2, <3>3, FileStaysSound
    <3> QED BY <1>2, <1>3, <2>1, <2>2, <3>1, <3>2, <3>4, StopKeeps
  <2> QED BY <2>3, <2>4
<1> QED BY <1>4, <1>5 DEF WriteView

LEMMA WaitKeeps ==
    ASSUME CliInv, NEW p \in CliProc, WaitForClear(p)
    PROVE  CliInv'
<1> DEFINE s == "wait"
           j == cliJob[p]
<1>1. At(p, s) /\ s \in {"resolve", "list", "arm", "view", "wait"}
  BY DEF WaitForClear
<1>2. CliType /\ JobInv(p) /\ cliJob[p].code = Running /\ Place(p, s) /\ MayFollow(p, j)
  BY <1>1, StepPlace, JobItself DEF CliInv, At
<1>3. cliBoard' # p /\ cliBoard' \in {cliBoard, p, Nobody} /\ cliFile' = cliFile
  BY NobodyAssumption DEF WaitForClear
<1>4. CASE cliJob[p].pipe
  <2>1. Goes(p, j) /\ LockAfter(p)
    BY <1>2, <1>4 DEF WaitForClear, LockAfter, Place
  <2>2. Ask(p).json /\ j.pipe => Len(j.out) = 1
    BY <1>2 DEF JobInv, OutPart, Place, Alive
  <2>3. j.rows = cliJob[p].rows /\ j.saved = cliJob[p].saved /\ j.answer = cliJob[p].answer
    OBVIOUS
  <2> HIDE DEF j
  <2> QED BY <1>1, <1>2, <1>3, <2>1, <2>2, <2>3, AnswerGoes
<1>5. CASE ~cliJob[p].pipe
  <2> DEFINE e == "Output"
  <2>1. Returns(p, j, e) /\ ExitCode(e) = 10 /\ ~j.pipe /\ SoundRows(j.rows) /\ j.saved = cliJob[p].saved
    BY <1>2, <1>5, CodeOfErrors DEF WaitForClear, JobInv, VaultPart
  <2> HIDE DEF e, j
  <2>2. Kept(p) /\ cliJob'[p].saved = j.saved
    BY <1>2, <2>1, GivesUp
  <2>3. FileSound'
    BY <1>3, <2>1, <2>2, FileStaysSound
  <2> QED BY <1>2, <1>3, <2>1, <2>3, StopKeeps
<1> QED BY <1>4, <1>5

LEMMA KillKeeps ==
    ASSUME CliInv, NEW p \in CliProc, KillCommand(p)
    PROVE  CliInv'
<1> DEFINE k == [cliJob[p] EXCEPT !.code = Killed]
<1>1. CliType /\ JobInv(p) /\ cliJob[p].code = Running /\ JobType(cliJob[p])
  BY DEF KillCommand, CliInv, CliType
<1>2. /\ DOMAIN k = CliJobFields /\ k.ask = cliJob[p].ask /\ k.at = cliJob[p].at /\ k.rows = cliJob[p].rows
      /\ k.out = cliJob[p].out /\ k.pipe = cliJob[p].pipe /\ k.saved = cliJob[p].saved /\ k.code = Killed
  BY <1>1 DEF JobType, CliJobFields
<1> HIDE DEF k
<1>3. cliJob' = [cliJob EXCEPT ![p] = k] /\ DropVault(p) /\ cliFile' = cliFile /\ cliBoard' = cliBoard
  BY DEF KillCommand, k
<1>4. DOMAIN cliJob' = CliProc /\ cliJob'[p] = k /\ (\A q \in CliProc : q # p => cliJob'[q] = cliJob[q])
  BY <1>1, <1>3 DEF CliType
<1>5. Kept(p)
  <2>1. JobType(k)
    BY <1>1, <1>2 DEF JobType, Codes, Running, Killed
  <2> QED BY <1>2, <1>4, <2>1 DEF Kept, Ask
<1>6. cliLock'[p] = "none" /\ cliJob'[p].code = Killed /\ ~Alive(p)'
  BY <1>1, <1>2, <1>3, <1>4 DEF DropVault, CliType, Alive, Running, Killed
<1>7. JobInv(p)'
  <2>1. LockPart(p)' /\ SavedPart(p)' /\ OutPart(p)' /\ BoardPart(p)' /\ AnswerPart(p)'
    BY <1>6 DEF LockPart, SavedPart, OutPart, BoardPart, AnswerPart, Running, Killed
  <2>2. VaultPart(p)'
    BY <1>1, <1>2, <1>4, <1>6 DEF JobInv, VaultPart, SoundRows, Running, Killed
  <2> QED BY <2>1, <2>2 DEF JobInv
<1>8. FileSound'
  BY <1>2, <1>3, <1>4, <1>5, FileStaysSound
<1> QED BY <1>3, <1>5, <1>7, <1>8, LockKeptOrDropped

-----------------------------------------------------------------------------
LEMMA CliStart == CliInit => CliInv
<1> SUFFICES ASSUME CliInit PROVE CliInv
  OBVIOUS
<1>1. ASSUME NEW p \in CliProc
      PROVE \E a \in Invocation : cliJob[p] = NewJob(a)
  BY <1>1 DEF CliInit
<1>2. ASSUME NEW p \in CliProc
      PROVE JobType(cliJob[p]) /\ JobInv(p)
  <2>1. PICK a \in Invocation : cliJob[p] = NewJob(a)
    BY <1>1, <1>2
  <2>2. /\ DOMAIN cliJob[p] = CliJobFields /\ cliJob[p].ask = a /\ cliJob[p].at = 1 /\ cliJob[p].rows = {}
        /\ cliJob[p].out = <<>> /\ cliJob[p].pipe = TRUE /\ cliJob[p].saved = FALSE
        /\ cliJob[p].code = Running
    BY <2>1 DEF NewJob, CliJobFields
  <2>3. Len(Program(a)) \in Nat /\ Len(Program(a)) >= 1 /\ a.verb \in Verbs
    <3>1. a.verb \in Verbs
      BY CliAssumption
    <3> QED BY <3>1 DEF Program, ProgramOf, AddProgram, GetProgram, EditProgram, RmProgram, ListProgram,
                        SearchProgram, GenProgram, SyncProgram, Verbs
  <2>4. JobType(cliJob[p])
    <3>1. cliJob[p].out \in Seq(OutWords)
      BY <2>2
    <3>2. cliJob[p].at \in 1 .. Len(Program(a)) + 1 /\ cliJob[p].at <= Len(Program(a))
      BY <2>2, <2>3
    <3>3. cliJob[p].code = Running /\ Running \in Codes /\ Running # 0
      BY <2>2 DEF Codes, Running
    <3>4. cliJob[p].pipe \in BOOLEAN /\ cliJob[p].saved \in BOOLEAN
      BY <2>2
    <3>5. DOMAIN cliJob[p] = CliJobFields /\ cliJob[p].ask \in Invocation
      BY <2>2
    <3>6. cliJob[p].ask = a
      BY <2>2
    <3> QED BY <3>1, <3>2, <3>3, <3>4, <3>5, <3>6 DEF JobType
  <2>5. \A t : ~Passed(p, t)
    BY <2>2 DEF Passed, Before
  <2>6. cliLock[p] = "none" /\ cliBoard # p
    BY NobodyAssumption DEF CliInit
  <2>7. SoundRows({})
    BY FS_EmptySet DEF SoundRows
  <2>8. LockPart(p) /\ SavedPart(p) /\ OutPart(p) /\ BoardPart(p) /\ AnswerPart(p)
    BY <2>2, <2>5, <2>6 DEF LockPart, SavedPart, OutPart, BoardPart, AnswerPart, Running, Killed
  <2>9. VaultPart(p)
    BY <2>2, <2>5, <2>7 DEF VaultPart
  <2> QED BY <2>4, <2>8, <2>9 DEF JobInv
<1>3. CliType /\ OneWriter
  <2>1. DOMAIN cliJob = CliProc /\ cliLock \in [CliProc -> {"none", "shared", "exclusive"}]
    BY DEF CliInit
  <2> QED BY <1>2, <2>1 DEF CliInit, CliType, OneWriter
<1>4. FileSound
  BY CliAssumption DEF CliInit, FileSound, SoundRows
<1> QED BY <1>2, <1>3, <1>4 DEF CliInv

LEMMA StepKeeps ==
    ASSUME CliInv, NEW p \in CliProc, CommandStep(p) \/ KillCommand(p)
    PROVE  CliInv' /\ SavesOwnChange
<1>1. CASE ParseUuid(p)
  <2> DEFINE s == "uuid"
             e == IF Ask(p).uuid = "bad" THEN "BadUuid" ELSE Nobody
  <2>1. s \in Quiet /\ At(p, s) /\ Decides(p, e)
    BY <1>1 DEF ParseUuid, Quiet
  <2> HIDE DEF s, e
  <2> QED BY <2>1, DecisionKeeps DEF SavesOwnChange, Decides
<1>2. CASE LoadRegistryRecord(p)
  <2> DEFINE s == "record"
             e == IF Ask(p).verb # "sync" /\ Ask(p).vault \notin VaultNames THEN "NotRegistered" ELSE Nobody
             E == {"HomeUnresolvable", "RegistryMalformed", "Io"}
  <2>1. s \in Quiet /\ At(p, s) /\ s \notin {"view", "wait", "save", "sync"} /\ (Decides(p, e) \/ Fails(p, E))
    BY <1>2 DEF LoadRegistryRecord, Quiet
  <2> HIDE DEF s, e, E
  <2> QED BY <2>1, DecisionKeeps, FailureKeeps DEF SavesOwnChange, Decides, Fails
<1>3. CASE ResolveVaultName(p)
  <2> DEFINE s == "name"
             e == IF Ask(p).vault # NotGiven /\ Ask(p).vault \notin VaultNames THEN "NotRegistered"
                  ELSE IF Ask(p).vault # NotGiven \/ Cardinality(VaultNames) = 1 THEN Nobody
                  ELSE IF VaultNames = {} THEN "NoVault" ELSE "ManyVaults"
  <2>1. s \in Quiet /\ At(p, s) /\ Decides(p, e)
    BY <1>3 DEF ResolveVaultName, Quiet
  <2> HIDE DEF s, e
  <2> QED BY <2>1, DecisionKeeps DEF SavesOwnChange, Decides
<1>4. CASE PromptForVault(p)
  <2> DEFINE s == "master"
             E == {"StdinFailed"}
  <2>1. s \in Quiet /\ At(p, s) /\ s \notin {"view", "wait", "save", "sync"} /\ (Succeeds(p) \/ Fails(p, E))
    BY <1>4 DEF PromptForVault, Quiet
  <2> HIDE DEF s, E
  <2> QED BY <2>1, SuccessKeeps, FailureKeeps DEF SavesOwnChange, Succeeds, Fails
<1>5. CASE ResolvePassword(p)
  <2> DEFINE s == "password"
             E == {"StdinFailed"}
             G == {"NoClasses", "Csprng"}
  <2>1. /\ s \in Quiet /\ At(p, s) /\ s \notin {"view", "wait", "save", "sync"}
        /\ Succeeds(p) \/ Fails(p, E) \/ Fails(p, G)
    BY <1>5 DEF ResolvePassword, Quiet
  <2> HIDE DEF s, E, G
  <2> QED BY <2>1, SuccessKeeps, FailureKeeps DEF SavesOwnChange, Succeeds, Fails
<1>6. CASE CheckTags(p)
  <2> DEFINE s == "tags"
             e == IF "bad" \in Ask(p).tags THEN "InvalidTag" ELSE Nobody
  <2>1. s \in Quiet /\ At(p, s) /\ Decides(p, e)
    BY <1>6 DEF CheckTags, Quiet
  <2> HIDE DEF s, e
  <2> QED BY <2>1, DecisionKeeps DEF SavesOwnChange, Decides
<1>7. CASE OpenVault(p)
  <2>1. cliFile' = cliFile
    BY <1>7 DEF OpenVault, Decides, Fails
  <2> QED BY <1>7, <2>1, OpenKeeps DEF SavesOwnChange
<1>8. CASE Apply(p)
  <2>1. cliFile' = cliFile
    BY <1>8 DEF Apply, Decides
  <2> QED BY <1>8, <2>1, EffectKeeps DEF SavesOwnChange
<1>9. CASE SaveVault(p)
  BY <1>9, SaveKeeps
<1>10. CASE SyncNow(p)
  BY <1>10, SyncKeeps
<1>11. CASE ResolveEntry(p)
  <2>1. cliFile' = cliFile
    BY <1>11 DEF ResolveEntry, Decides
  <2> QED BY <1>11, <2>1, ResolveKeeps DEF SavesOwnChange
<1>12. CASE List(p)
  <2>1. cliFile' = cliFile
    BY <1>12 DEF List
  <2> QED BY <1>12, <2>1, ListKeeps DEF SavesOwnChange
<1>13. CASE ParseScope(p)
  <2> DEFINE s == "scope"
             named == {g \in DOMAIN GroupName : GroupName[g] = Ask(p).scope.name}
             e == IF Ask(p).scope.kind = "other" THEN "BadScope"
                  ELSE IF Ask(p).scope.kind = "group" /\ Cardinality(named) # 1 THEN "BadScope"
                  ELSE Nobody
  <2>1. s \in Quiet /\ At(p, s) /\ Decides(p, e)
    BY <1>13 DEF ParseScope, Quiet
  <2> HIDE DEF s, e
  <2> QED BY <2>1, DecisionKeeps DEF SavesOwnChange, Decides
<1>14. CASE SearchEntries(p)
  <2> DEFINE s == "search"
  <2>1. PICK q \in SetToSeqs({r \in InScope(cliJob[p].rows, Ask(p)) : r.title = Ask(p).title}) :
            Goes(p, [cliJob[p] EXCEPT !.answer =
                Ids(SubSeq(q, 1, IF Ask(p).limit < Len(q) THEN Ask(p).limit ELSE Len(q)))])
    BY <1>14 DEF SearchEntries
  <2> DEFINE answer == Ids(SubSeq(q, 1, IF Ask(p).limit < Len(q) THEN Ask(p).limit ELSE Len(q)))
             j == [cliJob[p] EXCEPT !.answer = answer]
  <2>2. /\ MayFollow(p, j) /\ j.rows = cliJob[p].rows /\ j.out = cliJob[p].out
        /\ j.pipe = cliJob[p].pipe /\ j.saved = cliJob[p].saved
    <3> HIDE DEF answer
    <3> QED BY JobItself DEF MayFollow, CliJobFields
  <2>3. Goes(p, j) /\ s \in Quiet /\ At(p, s) /\ UNCHANGED <<cliFile, cliLock, cliBoard>> /\ s = "search"
    BY <1>14, <2>1 DEF SearchEntries, Quiet
  <2> HIDE DEF j, s
  <2> QED BY <2>2, <2>3, QuietGoes DEF SavesOwnChange
<1>15. CASE GeneratePassword(p)
  <2> DEFINE s == "generate"
             E == {"NoClasses", "Csprng"}
  <2>1. s \in Quiet /\ At(p, s) /\ s \notin {"view", "wait", "save", "sync"} /\ (Succeeds(p) \/ Fails(p, E))
    BY <1>15 DEF GeneratePassword, Quiet
  <2> HIDE DEF s, E
  <2> QED BY <2>1, SuccessKeeps, FailureKeeps DEF SavesOwnChange, Succeeds, Fails
<1>16. CASE DumpKeys(p)
  <2> DEFINE s == "spawn"
             E == {"NoTui", "TuiFailed"}
  <2>1. s \in Quiet /\ At(p, s) /\ s \notin {"view", "wait", "save", "sync"} /\ (Succeeds(p) \/ Fails(p, E))
    BY <1>16 DEF DumpKeys, Quiet
  <2> HIDE DEF s, E
  <2> QED BY <2>1, SuccessKeeps, FailureKeeps DEF SavesOwnChange, Succeeds, Fails
<1>17. CASE Completions(p)
  <2> DEFINE s == "shell"
             e == IF Ask(p).shell THEN Nobody ELSE "NoShell"
  <2>1. s \in Quiet /\ At(p, s) /\ Decides(p, e)
    BY <1>17 DEF Completions, Quiet
  <2> HIDE DEF s, e
  <2> QED BY <2>1, DecisionKeeps DEF SavesOwnChange, Decides
<1>18. CASE SshStub(p)
  <2> DEFINE s == "stub"
             e == "NotImplemented"
  <2>1. At(p, s) /\ s \notin {"view", "wait", "save", "sync"} /\ Decides(p, e) /\ e # Nobody
    BY <1>18, NobodyAssumption DEF SshStub, Errors, OwnErrors
  <2> HIDE DEF s, e
  <2> QED BY <2>1, QuietFails DEF SavesOwnChange, Decides
<1>23. CASE ShowTotp(p)
  <2> DEFINE s == "totp"
             E == {"InvalidOtpUri"}
  <2>1. s \in Quiet /\ At(p, s) /\ s \notin {"view", "wait", "save", "sync"} /\ (Succeeds(p) \/ Fails(p, E))
    BY <1>23 DEF ShowTotp, Quiet
  <2> HIDE DEF s, E
  <2> QED BY <2>1, SuccessKeeps, FailureKeeps DEF SavesOwnChange, Succeeds, Fails
<1>19. CASE ArmClipboard(p)
  <2>1. cliFile' = cliFile
    BY <1>19 DEF ArmClipboard, Fails
  <2> QED BY <1>19, <2>1, ArmKeeps DEF SavesOwnChange
<1>20. CASE WriteView(p)
  <2>1. cliFile' = cliFile
    BY <1>20 DEF WriteView
  <2> QED BY <1>20, <2>1, ViewKeeps DEF SavesOwnChange
<1>21. CASE WaitForClear(p)
  <2>1. cliFile' = cliFile
    BY <1>21 DEF WaitForClear
  <2> QED BY <1>21, <2>1, WaitKeeps DEF SavesOwnChange
<1>22. CASE KillCommand(p)
  <2>1. cliFile' = cliFile
    BY <1>22 DEF KillCommand
  <2> QED BY <1>22, <2>1, KillKeeps DEF SavesOwnChange
<1> QED BY <1>1, <1>2, <1>3, <1>4, <1>5, <1>6, <1>7, <1>8, <1>9, <1>10, <1>11, <1>12, <1>13, <1>14, <1>15,
           <1>16, <1>17, <1>18, <1>19, <1>20, <1>21, <1>22, <1>23 DEF CommandStep

LEMMA InvTells ==
    CliInv => ExitTellsDisk /\ NoLockAtPrompt /\ OneDocument /\ CopyIsCleared /\ AnswerIsRight
<1> SUFFICES ASSUME CliInv
             PROVE  ExitTellsDisk /\ NoLockAtPrompt /\ OneDocument /\ CopyIsCleared /\ AnswerIsRight
  OBVIOUS
<1>1. CliType /\ \A p \in CliProc : JobInv(p)
  BY DEF CliInv
<1>2. ASSUME NEW p \in CliProc, cliJob[p].code = 0
      PROVE  /\ Writes(p) => Passed(p, "save")
             /\ Ask(p).verb = "get" => Passed(p, "resolve")
             /\ Ask(p).verb = "list" => Passed(p, "list")
  <2>1. cliJob[p].at = Len(Program(Ask(p))) + 1 /\ Ask(p).verb \in Verbs
    BY <1>1, <1>2, CliAssumption DEF CliType, JobType, Ask
  <2>2. Whole(Ask(p))
    BY <2>1, ProgramWhole
  <2> QED BY <2>1, <2>2 DEF Whole, Passed, Writes
<1>3. ExitTellsDisk
  BY <1>1, <1>2 DEF ExitTellsDisk, JobInv, SavedPart, Alive
<1>4. NoLockAtPrompt
  <2> SUFFICES ASSUME NEW p \in CliProc, NEW s \in {"master", "password"}, At(p, s)
               PROVE  cliLock[p] = "none"
    BY DEF NoLockAtPrompt
  <2>1. Place(p, s)
    BY <1>1, StepPlace
  <2> QED BY <1>1, <2>1 DEF Place, JobInv, LockPart
<1>5. OneDocument /\ CopyIsCleared
  BY <1>1 DEF OneDocument, CopyIsCleared, JobInv, OutPart, BoardPart
<1>6. AnswerIsRight
  <2> SUFFICES ASSUME NEW p \in CliProc, cliJob[p].code = 0
               PROVE  /\ Ask(p).verb = "get" => GetIsRight(cliJob[p])
                      /\ Ask(p).verb = "list" => ListIsRight(cliJob[p])
    BY DEF AnswerIsRight, GetIsRight, ListIsRight, Ask
  <2> QED BY <1>1, <1>2 DEF JobInv, AnswerPart, Alive
<1> QED BY <1>3, <1>4, <1>5, <1>6

\* Theorem: of any commands that run on one vault at the same time, each of them
\* with a failure at any step or killed, every write of the vault file adds one
\* command's change to what the file held; exit codes, output, lock, clipboard
\* and answers tell what was done.
THEOREM CommandsKeepTheirPromise == CliSpec => CommandsKeepTheirWord
<1>1. CliInv /\ [CliNext]_cliVars => CliInv' /\ (SavesOwnChange \/ UNCHANGED cliVars)
  <2> SUFFICES ASSUME CliInv, [CliNext]_cliVars PROVE CliInv' /\ (SavesOwnChange \/ UNCHANGED cliVars)
    OBVIOUS
  <2>1. CASE CliNext
    BY <2>1, StepKeeps DEF CliNext
  <2>2. CASE UNCHANGED cliVars
    <3>1. UNCHANGED <<cliFile, cliLock, cliJob, cliBoard>>
      BY <2>2 DEF cliVars
    <3>2. CliType' /\ OneWriter' /\ FileSound'
      BY <3>1 DEF CliInv, CliType, OneWriter, FileSound, SoundRows
    <3>3. ASSUME NEW p \in CliProc PROVE JobInv(p)'
      <4>1. JobInv(p)
        BY DEF CliInv
      <4>2. Ask(p)' = Ask(p) /\ (Writes(p)' <=> Writes(p)) /\ (Alive(p)' <=> Alive(p))
            /\ \A t : Passed(p, t)' <=> Passed(p, t)
        BY <3>1 DEF Ask, Writes, Alive, Passed
      <4>3. Effect(p, cliFile)' = Effect(p, cliFile)
        BY <3>1, <4>2 DEF Effect, RowOf
      <4> QED BY <3>1, <4>1, <4>2, <4>3 DEF JobInv, LockPart, VaultPart, SavedPart, OutPart, BoardPart, AnswerPart
    <3> QED BY <2>2, <3>2, <3>3 DEF CliInv
  <2> QED BY <2>1, <2>2
<1>2. CliInv' => (ExitTellsDisk /\ NoLockAtPrompt /\ OneDocument /\ CopyIsCleared /\ AnswerIsRight)'
  BY InvTells, PTL
<1> QED BY CliStart, <1>1, <1>2, PTL DEF CliSpec, CommandsKeepTheirWord

(***************************************************************************)
(* Keymap.                                                                 *)
(*                                                                         *)
(* Loading a patch ends with a keymap without conflicts, for every set of  *)
(* patches: the invariant OthersAreDefault says that only the commands     *)
(* that can still be rejected differ from the preset.                      *)
(*                                                                         *)
(* The rest of KeysTellTheTruth is of three kinds.  The text of a trigger  *)
(* is read as the trigger: the loops that split it are followed piece by   *)
(* piece, by FoldFacts.  Hints and the which-key menu follow from the      *)
(* absence of conflicts, because the commands a key could be taken for     *)
(* share a context, and from the order of the rows in the map.  The count and the palette are kept by every step, in  *)
(* KeymapInv.                                                              *)
(***************************************************************************)

\* A command that is not active has the triggers of the preset, and a keymap
\* that is in use has no active command in conflict.
OthersAreDefault ==
    /\ patch \in Patches
    /\ \A c \in Command : c \notin active => bind[c] = Preset[patch.preset][c]
    /\ DOMAIN bind = Command
    /\ stage = "ready" => NoneConflicts

\* A conflict needs both commands, so it is seen from either side.
LEMMA ClashSymmetric ==
    ASSUME NEW m, NEW c, NEW d, Clash(m, c, d)
    PROVE  Clash(m, d, c)
<1>1. PICK i \in DOMAIN m[c], j \in DOMAIN m[d] : TriggersConflict(m[c][i], m[d][j])
  BY DEF Clash
<1>2. TriggersConflict(m[d][j], m[c][i])
  BY <1>1 DEF TriggersConflict, SeqEq, KeyEq
<1> QED BY <1>1, <1>2 DEF Clash

\* Two commands with the triggers of the preset are never in conflict.
LEMMA DefaultsDoNotClash ==
    ASSUME OthersAreDefault, NEW c \in Command, NEW d \in Command, c \notin active, d \notin active
    PROVE  ~ Clash(bind, c, d)
<1>1. bind[c] = Preset[patch.preset][c] /\ bind[d] = Preset[patch.preset][d]
  BY DEF OthersAreDefault
<1>2. patch.preset \in {"vim", "plain"}
  BY PresetAssumption DEF OthersAreDefault
<1>3. ~ Clash(Preset[patch.preset], c, d)
  BY <1>2, PresetAssumption DEF Conflicting
<1> QED BY <1>1, <1>3 DEF Clash

\* Initially nothing is rebound (from_patch starts from the preset).
LEMMA InitOthersAreDefault == KeymapInit => OthersAreDefault
<1> SUFFICES ASSUME KeymapInit PROVE OthersAreDefault
  OBVIOUS
<1>1. patch.preset \in {"vim", "plain"}
  BY PresetAssumption DEF KeymapInit
<1> QED BY <1>1, PresetAssumption DEF KeymapInit, OthersAreDefault

\* Every step of loading and of use keeps the invariant.
LEMMA NextOthersAreDefault == OthersAreDefault /\ [KeymapNext]_keymapVars => OthersAreDefault'
<1> SUFFICES ASSUME OthersAreDefault, [KeymapNext]_keymapVars PROVE OthersAreDefault'
  OBVIOUS
<1>1. CASE ApplySlot
  <2>1. CASE Head(todo).slot \in Command /\ BindingIsValid(Head(todo).value)
    <3>1. bind' = [bind EXCEPT ![Head(todo).slot] = ParsedBinding(Head(todo).value)]
      BY <1>1, <2>1 DEF ApplySlot
    <3>2. active' = active \cup {Head(todo).slot}
      BY <1>1, <2>1 DEF ApplySlot
    <3> QED BY <1>1, <3>1, <3>2 DEF ApplySlot, OthersAreDefault
  <2>2. CASE ~ (Head(todo).slot \in Command /\ BindingIsValid(Head(todo).value))
    BY <1>1, <2>2 DEF ApplySlot, OthersAreDefault
  <2> QED BY <2>1, <2>2
<1>2. CASE AllApplied
  BY <1>2 DEF AllApplied, OthersAreDefault
<1>3. CASE RejectOne
  <2>1. PICK c \in Command : bind' = [bind EXCEPT ![c] = Preset[patch.preset][c]] /\ active' = active \ {c}
    BY <1>3 DEF RejectOne, StillActive
  <2> QED BY <1>3, <2>1 DEF RejectOne, OthersAreDefault
<1>4. CASE KeymapReady
  BY <1>4 DEF KeymapReady, OthersAreDefault, NoneConflicts, Conflicting, Clash
<1>5. CASE KeyPress \/ GoTo \/ RunFromPalette \/ UNCHANGED keymapVars
  <2>1. UNCHANGED <<patch, bind, active, stage>>
    BY <1>5 DEF KeyPress, GoTo, RunFromPalette, keymapVars
  <2> QED BY <2>1 DEF OthersAreDefault, NoneConflicts, Conflicting, Clash
<1> QED BY <1>1, <1>2, <1>3, <1>4, <1>5 DEF KeymapNext, Load

\* The keymap in use gives no key to two commands of one context, for every
\* patch (from_patch).
THEOREM KeysAreUnique == KeymapSpec => []UniqueKeys
<1>1. OthersAreDefault => UniqueKeys
  <2> SUFFICES ASSUME OthersAreDefault, stage = "ready", NEW c \in Command, NEW d \in Command, Clash(bind, c, d)
               PROVE  FALSE
    BY DEF UniqueKeys, Conflicting
  <2>1. NoneConflicts
    BY DEF OthersAreDefault
  <2>2. c \notin active
    BY <2>1 DEF NoneConflicts, Conflicting
  <2>3. d \notin active
    BY <2>1, ClashSymmetric DEF NoneConflicts, Conflicting
  <2> QED BY <2>2, <2>3, DefaultsDoNotClash
<1> QED BY <1>1, InitOthersAreDefault, NextOthersAreDefault, PTL DEF KeymapSpec

----------------------------------------------------------------------------
\* The positions of a text, as a loop takes them.
IsCount(unused, n) == n \in Nat

\* The least and the greatest of the numbers of an interval.
LEMMA Extremes ==
    ASSUME NEW m \in Int, NEW n \in Int, NEW s \in SUBSET (m .. n), s # {}
    PROVE  /\ Max(s) \in s /\ \A y \in s : Max(s) >= y
           /\ Min(s) \in s /\ \A y \in s : Min(s) <= y
<1> DEFINE S == m .. n
<1>1. IsFiniteSet(S) /\ S \in SUBSET Int
    BY FS_Interval
<1>2. s \in SUBSET S
    OBVIOUS
<1> HIDE DEF S
<1>3. Picking!IsFiniteSet(S) /\ Picking!PicksFrom(S)
    BY <1>1 DEF IsFiniteSet, Picking!IsFiniteSet, Picking!PicksFrom, AnyOf
<1>4. Picking!Max(s) \in s /\ (\A y \in s : Picking!Max(s) >= y)
      /\ Picking!Min(s) \in s /\ \A y \in s : Picking!Min(s) <= y
    BY <1>1, <1>2, <1>3, Picking!GreatestAndLeast
<1>5. Picking!Max(s) = Max(s) /\ Picking!Min(s) = Min(s)
    BY DEF Max, Picking!Max, Min, Picking!Min
<1> QED BY <1>4, <1>5

\* The positions of a list, as a loop takes them.
LEMMA PositionsArePicked ==
    ASSUME NEW n \in Nat, NEW S, S = 1 .. n
    PROVE  IsFiniteSet(S) /\ \A s \in SUBSET S : s # {} => Max(s) \in s
<1>1. IsFiniteSet(S)
    BY FS_Interval
<1>2. ASSUME NEW s \in SUBSET (1 .. n), s # {} PROVE Max(s) \in s
  <2> DEFINE m == 1
  <2>1. m \in Int /\ n \in Int /\ s \in SUBSET (m .. n)
    BY <1>2
  <2> HIDE DEF m
  <2> QED BY <1>2, <2>1, Extremes
<1> QED BY <1>1, <1>2

\* A set of numbers that holds 0, and with a number the next one, up to n.
LEMMA UpTo ==
    ASSUME NEW n \in Nat, NEW T, 0 \in T, \A i \in 0 .. (n - 1) : i \in T => i + 1 \in T
    PROVE  0 .. n \subseteq T
<1> SUFFICES ASSUME (0 .. n) \ T # {} PROVE FALSE
    OBVIOUS
<1> DEFINE zero == 0
           s == (zero .. n) \ T
           m == Min(s)
<1>1. zero \in Int /\ n \in Int /\ s \in SUBSET (zero .. n) /\ s # {}
    OBVIOUS
<1>2. m \in s /\ \A y \in s : m <= y
  <2> HIDE DEF zero, s
  <2> QED BY <1>1, Extremes
<1> HIDE DEF m
<1>3. m \in 1 .. n /\ m \notin T
    BY <1>2
<1>4. m - 1 \in 0 .. (n - 1) /\ m - 1 \notin s
    BY <1>2, <1>3
<1> QED BY <1>3, <1>4

\* The last position of a list up to i is taken last.
LEMMA LastPosition ==
    ASSUME NEW n \in Nat, NEW S, S = 1 .. n
    PROVE  /\ IsFiniteSet(S) /\ \A s \in SUBSET S : s # {} => Max(s) \in s
           /\ \A i \in 1 .. n : Max(1 .. i) = i
<1>1. ASSUME NEW i \in 1 .. n PROVE Max(1 .. i) = i
  <2> DEFINE one == 1
             s == one .. i
             m == Max(s)
  <2>1. one \in Int /\ i \in Int /\ s \in SUBSET (one .. i) /\ i \in s
    OBVIOUS
  <2>2. m \in s /\ \A y \in s : m >= y
    <3> HIDE DEF one, s
    <3> QED BY <2>1, Extremes
  <2>3. m = i
    <3> HIDE DEF m
    <3> QED BY <2>2
  <2> QED BY <2>3
<1> QED BY <1>1, PositionsArePicked

\* The loop of a split, piece by piece.
CutRound(s, sep, i, parts) ==
    IF s[i] = sep THEN Append(parts, <<>>) ELSE [parts EXCEPT ![Len(parts)] = Append(@, s[i])]
Cutting == INSTANCE FoldFacts WITH Op <- CutRound, Good <- IsCount, Pick <- Max

Cuts(s, sep, f) ==
    /\ f[0] = << <<>> >>
    /\ \A i \in 1 .. Len(s) : f[i] = CutRound(s, sep, i, f[i - 1])
    /\ f[Len(s)] = SplitPieces(s, sep)

LEMMA SplitUnfolds ==
    ASSUME NEW A, NEW s \in Seq(A), NEW sep
    PROVE  \E f : Cuts(s, sep, f)
<1> DEFINE D == DOMAIN s
           n == Len(s)
<1>1. SplitPieces(s, sep) = Cutting!Fold(s, sep, << <<>> >>, D)
    BY DEF SplitPieces, FoldLeft, Cutting!Fold, MapThenFoldSet, Cutting!MapThenFoldSet, CutRound
<1>2. n \in Nat /\ D = 1 .. n /\ n = Len(s)
    OBVIOUS
<1> HIDE DEF D, n
<1>3. Cutting!IsFiniteSet(D) /\ Cutting!PicksFrom(D) /\ \A i \in 1 .. n : Max(1 .. i) = i
  <2>1. IsFiniteSet(D) /\ (\A t \in SUBSET D : t # {} => Max(t) \in t) /\ \A i \in 1 .. n : Max(1 .. i) = i
    BY <1>2, LastPosition
  <2> QED BY <2>1 DEF IsFiniteSet, Cutting!IsFiniteSet, Cutting!PicksFrom
<1> DEFINE none == << <<>> >>
<1>4. PICK f : Cutting!Steps(s, sep, none, n, D, f)
  <2> HIDE DEF none
  <2> QED BY <1>2, <1>3, Cutting!FoldByPosition
<1>5. Cuts(s, sep, f)
    BY <1>1, <1>2, <1>4 DEF Cuts, Cutting!Steps
<1> QED BY <1>5

\* Parts of a text, at least one.
IsParts(A, parts) == parts \in Seq(Seq(A)) /\ Len(parts) >= 1

\* One round appends to the last part, whatever is before it.
LEMMA CutKeepsParts ==
    ASSUME NEW A, NEW parts, IsParts(A, parts), NEW s \in Seq(A), NEW sep, NEW i \in 1 .. Len(s)
    PROVE  /\ IsParts(A, CutRound(s, sep, i, parts))
           /\ \A a : a \in Seq(A) =>
                CutRound(s, sep, i, <<a>> \o parts) = <<a>> \o CutRound(s, sep, i, parts)
<1> DEFINE n == Len(parts)
           x == s[i]
           last == Append(parts[n], x)
<1>1. n \in Nat /\ n >= 1 /\ x \in A /\ last \in Seq(A) /\ parts \in Seq(Seq(A)) /\ n = Len(parts)
    BY DEF IsParts
<1> SUFFICES ASSUME NEW a \in Seq(A)
             PROVE  /\ IsParts(A, CutRound(s, sep, i, parts))
                    /\ CutRound(s, sep, i, <<a>> \o parts) = <<a>> \o CutRound(s, sep, i, parts)
  <2>1. <<>> \in Seq(A)
    OBVIOUS
  <2> QED BY <2>1
<1> DEFINE more == <<a>> \o parts
<1>2. more \in Seq(Seq(A)) /\ Len(more) = n + 1 /\ more[1] = a /\ \A j \in 1 .. n : more[j + 1] = parts[j]
    BY <1>1
<1>3. CASE x = sep
  <2>1. CutRound(s, sep, i, parts) = Append(parts, <<>>) /\ CutRound(s, sep, i, more) = Append(more, <<>>)
    BY <1>3 DEF CutRound
  <2>2. Append(more, <<>>) = <<a>> \o Append(parts, <<>>)
    BY <1>1
  <2>3. Append(parts, <<>>) \in Seq(Seq(A)) /\ Len(Append(parts, <<>>)) = n + 1
    <3>1. <<>> \in Seq(A)
        OBVIOUS
    <3> QED BY <1>1, <3>1
  <2>4. IsParts(A, Append(parts, <<>>))
    BY <1>1, <2>3 DEF IsParts
  <2> QED BY <2>1, <2>2, <2>4
<1>4. CASE x # sep
  <2> DEFINE p == [parts EXCEPT ![n] = last]
             q == [more EXCEPT ![n + 1] = last]
  <2>1. CutRound(s, sep, i, parts) = p
    BY <1>4 DEF CutRound
  <2>2. more[n + 1] = parts[n]
    BY <1>1, <1>2
  <2>3. CutRound(s, sep, i, more) = q
    <3> HIDE DEF more
    <3>1. CutRound(s, sep, i, more) = [more EXCEPT ![Len(more)] = Append(more[Len(more)], x)]
        BY <1>4 DEF CutRound
    <3> QED BY <3>1, <2>2, <1>2
  <2>4. p \in Seq(Seq(A)) /\ Len(p) = n /\ p[n] = last /\ \A j \in 1 .. n : j # n => p[j] = parts[j]
    BY <1>1
  <2>5. q \in Seq(Seq(A)) /\ Len(q) = n + 1 /\ q[n + 1] = last /\ \A j \in 1 .. (n + 1) : j # n + 1 => q[j] = more[j]
    <3> HIDE DEF more
    <3> QED BY <1>1, <1>2
  <2> HIDE DEF p, q, more, n, last
  <2> DEFINE r == <<a>> \o p
  <2>6. r \in Seq(Seq(A)) /\ Len(r) = n + 1 /\ r[1] = a /\ \A j \in 1 .. n : r[j + 1] = p[j]
    BY <1>1, <2>4
  <2> HIDE DEF r
  <2>7. ASSUME NEW j \in 1 .. (n + 1) PROVE q[j] = r[j]
    <3>1. CASE j = 1 /\ n + 1 # 1
        BY <3>1, <1>1, <1>2, <2>5, <2>6
    <3>2. CASE j # 1
      <4>1. j - 1 \in 1 .. n /\ (j - 1) + 1 = j
        BY <3>2, <1>1
      <4>2. r[j] = p[j - 1]
        BY <2>6, <4>1
      <4>3. CASE j = n + 1
        BY <4>2, <4>3, <2>4, <2>5, <1>1
      <4>4. CASE j # n + 1
        <5>1. q[j] = more[j]
            BY <4>4, <2>5
        <5>2. more[(j - 1) + 1] = parts[j - 1]
            BY <4>1, <1>2
        <5>3. p[j - 1] = parts[j - 1]
            BY <4>1, <4>4, <2>4, <1>1
        <5> QED BY <4>1, <4>2, <5>1, <5>2, <5>3
      <4> QED BY <4>3, <4>4
    <3> QED BY <3>1, <3>2, <1>1
  <2>8. q = r
    <3>1. q = [j \in 1 .. (n + 1) |-> q[j]] /\ r = [j \in 1 .. (n + 1) |-> r[j]]
        BY <1>1, <2>5, <2>6
    <3> QED BY <2>7, <3>1
  <2> QED BY <1>1, <2>1, <2>3, <2>4, <2>8 DEF IsParts, r, more
<1> QED BY <1>3, <1>4

\* A split gives parts.
LEMMA SplitGivesParts ==
    ASSUME NEW A, NEW s \in Seq(A), NEW sep, NEW f, Cuts(s, sep, f)
    PROVE  \A i \in 0 .. Len(s) : IsParts(A, f[i])
<1> DEFINE n == Len(s)
           T == {i \in 0 .. n : IsParts(A, f[i])}
<1>1. n \in Nat /\ 0 \in T
  <2> DEFINE none == << <<>> >>
  <2>1. IsParts(A, none)
    <3>1. none \in Seq(Seq(A)) /\ Len(none) >= 1
        OBVIOUS
    <3> QED BY <3>1 DEF IsParts
  <2>2. f[0] = none
    BY DEF Cuts
  <2> HIDE DEF none
  <2>3. IsParts(A, f[0])
    BY <2>1, <2>2
  <2> QED BY <2>3
<1>2. \A i \in 0 .. (n - 1) : i \in T => i + 1 \in T
  <2> SUFFICES ASSUME NEW i \in 0 .. (n - 1), IsParts(A, f[i]) PROVE IsParts(A, f[i + 1])
    BY <1>1
  <2> DEFINE j == i + 1
  <2>1. j \in 1 .. Len(s) /\ j - 1 = i
    BY <1>1
  <2>2. f[j] = CutRound(s, sep, j, f[i])
    BY <2>1 DEF Cuts
  <2> HIDE DEF j
  <2>3. IsParts(A, f[j])
    BY <2>1, <2>2, CutKeepsParts
  <2> QED BY <2>3 DEF j
<1>3. 0 .. n \subseteq T
  <2> HIDE DEF T, n
  <2> QED BY <1>1, <1>2, UpTo
<1> QED BY <1>3

\* Until the first separator there is one part, with all there was so far.
LEMMA OnePartSoFar ==
    ASSUME NEW A, NEW s \in Seq(A), NEW sep, NEW f, Cuts(s, sep, f),
           NEW m \in 0 .. Len(s), \A i \in 1 .. m : s[i] # sep
    PROVE  f[m] = <<SubSeq(s, 1, m)>>
<1> DEFINE n == Len(s)
           T == {i \in 0 .. m : f[i] = <<SubSeq(s, 1, i)>>}
<1>1. m \in Nat /\ 0 \in T
  <2>1. SubSeq(s, 1, 0) = <<>>
    OBVIOUS
  <2>2. f[0] = <<SubSeq(s, 1, 0)>>
    BY <2>1 DEF Cuts
  <2> QED BY <2>2
<1>2. \A i \in 0 .. (m - 1) : i \in T => i + 1 \in T
  <2> SUFFICES ASSUME NEW i \in 0 .. (m - 1), f[i] = <<SubSeq(s, 1, i)>> PROVE f[i + 1] = <<SubSeq(s, 1, i + 1)>>
    BY <1>1
  <2> DEFINE j == i + 1
             u == SubSeq(s, 1, i)
             v == SubSeq(s, 1, j)
  <2>1. j \in 1 .. Len(s) /\ j - 1 = i /\ j \in 1 .. m /\ s[j] \in A
    BY <1>1
  <2>2. f[j] = CutRound(s, sep, j, f[i])
    BY <2>1 DEF Cuts
  <2>3. u \in Seq(A) /\ v \in Seq(A) /\ Len(u) = i /\ Len(v) = j
    BY <1>1, <2>1
  <2>4. (\A k \in 1 .. i : u[k] = s[k]) /\ (\A k \in 1 .. j : v[k] = s[k])
    BY <1>1, <2>1
  <2>5. f[i] = <<u>>
    OBVIOUS
  <2> HIDE DEF u, v, j
  <2> DEFINE w == Append(u, s[j])
  <2>6. w \in Seq(A) /\ Len(w) = j /\ w[j] = s[j] /\ \A k \in 1 .. i : w[k] = s[k]
    BY <2>1, <2>3, <2>4
  <2> HIDE DEF w
  <2>7. w = v
    <3>1. w = [k \in 1 .. j |-> w[k]] /\ v = [k \in 1 .. j |-> v[k]]
        BY <2>3, <2>6
    <3>2. \A k \in 1 .. j : w[k] = v[k]
        BY <2>1, <2>4, <2>6
    <3> QED BY <3>1, <3>2
  <2>8. CutRound(s, sep, j, f[i]) = <<w>>
    <3> DEFINE old == <<u>>
    <3>1. s[j] # sep /\ Len(old) = 1 /\ old[1] = u /\ \A x : [old EXCEPT ![1] = x] = <<x>>
        BY <2>1
    <3> HIDE DEF old
    <3>2. CutRound(s, sep, j, old) = [old EXCEPT ![Len(old)] = Append(old[Len(old)], s[j])]
        BY <3>1 DEF CutRound
    <3>3. CutRound(s, sep, j, old) = [old EXCEPT ![1] = w]
        BY <3>1, <3>2 DEF w
    <3> QED BY <2>5, <3>1, <3>3 DEF old
  <2>9. f[j] = <<v>>
    BY <2>2, <2>7, <2>8
  <2> QED BY <2>9 DEF j, v
<1>3. 0 .. m \subseteq T
  <2> HIDE DEF T
  <2> QED BY <1>1, <1>2, UpTo
<1> QED BY <1>1, <1>3

\* A text without a separator is its only part.
LEMMA SplitPlain ==
    ASSUME NEW A, NEW s \in Seq(A), NEW sep, \A i \in DOMAIN s : s[i] # sep
    PROVE  SplitPieces(s, sep) = <<s>>
<1>1. PICK f : Cuts(s, sep, f)
    BY SplitUnfolds
<1> DEFINE m == Len(s)
<1>2. m \in 0 .. Len(s) /\ \A i \in 1 .. m : s[i] # sep
    OBVIOUS
<1>3. f[m] = <<SubSeq(s, 1, m)>>
  <2> HIDE DEF m
  <2> QED BY <1>1, <1>2, OnePartSoFar
<1>4. SubSeq(s, 1, m) = s
    OBVIOUS
<1> QED BY <1>1, <1>3, <1>4 DEF Cuts

\* The first separator ends the first part.
LEMMA SplitFirst ==
    ASSUME NEW A, NEW a \in Seq(A), NEW r \in Seq(A), NEW sep \in A, \A i \in DOMAIN a : a[i] # sep
    PROVE  SplitPieces(a \o <<sep>> \o r, sep) = <<a>> \o SplitPieces(r, sep)
<1> DEFINE s == a \o <<sep>> \o r
           m == Len(a)
           k == Len(r)
<1>1. /\ s \in Seq(A) /\ m \in Nat /\ k \in Nat /\ Len(s) = m + 1 + k
      /\ s[m + 1] = sep /\ (\A i \in 1 .. m : s[i] = a[i]) /\ \A i \in 1 .. k : s[m + 1 + i] = r[i]
    OBVIOUS
<1>2. SubSeq(s, 1, m) = a
  <2> DEFINE u == SubSeq(s, 1, m)
  <2>1. u \in Seq(A) /\ Len(u) = m /\ \A i \in 1 .. m : u[i] = s[i]
    <3> HIDE DEF s
    <3> QED BY <1>1
  <2> HIDE DEF u
  <2>2. u = [i \in 1 .. m |-> u[i]] /\ a = [i \in 1 .. m |-> a[i]]
    BY <2>1
  <2>3. \A i \in 1 .. m : u[i] = a[i]
    BY <1>1, <2>1
  <2>4. u = a
    BY <2>2, <2>3
  <2> QED BY <2>4 DEF u
<1> DEFINE split == SplitPieces(s, sep)
<1> SUFFICES split = <<a>> \o SplitPieces(r, sep)
    OBVIOUS
<1>3. split = SplitPieces(s, sep) /\ k = Len(r) /\ m = Len(a)
    OBVIOUS
<1> HIDE DEF s, m, k, split
<1>4. PICK f : Cuts(s, sep, f)
    BY <1>1, SplitUnfolds
<1>5. PICK g : Cuts(r, sep, g)
    BY SplitUnfolds
<1>6. f[m] = <<a>>
  <2>a. \A i \in 1 .. m : a[i] # sep
    BY <1>3
  <2>b. \A i \in 1 .. m : s[i] # sep
    BY <1>1, <2>a
  <2>1. m \in 0 .. Len(s) /\ \A i \in 1 .. m : s[i] # sep
    BY <1>1, <2>b
  <2>2. s \in Seq(A)
    BY <1>1
  <2>3. f[m] = <<SubSeq(s, 1, m)>>
    BY <1>4, <2>1, <2>2, OnePartSoFar
  <2> QED BY <1>2, <2>3
<1>7. f[m + 1] = <<a>> \o g[0]
  <2>1. f[m + 1] = CutRound(s, sep, m + 1, f[m])
    BY <1>1, <1>4 DEF Cuts
  <2>2. CutRound(s, sep, m + 1, f[m]) = Append(<<a>>, <<>>)
    BY <1>1, <1>6 DEF CutRound
  <2>3. Append(<<a>>, <<>>) = <<a>> \o << <<>> >>
    OBVIOUS
  <2> QED BY <2>1, <2>2, <2>3, <1>5 DEF Cuts
<1> DEFINE T == {j \in 0 .. k : f[m + 1 + j] = <<a>> \o g[j]}
<1>8. 0 \in T
    BY <1>1, <1>7
<1>9. \A j \in 0 .. (k - 1) : j \in T => j + 1 \in T
  <2> SUFFICES ASSUME NEW j \in 0 .. (k - 1), f[m + 1 + j] = <<a>> \o g[j]
               PROVE  f[m + 1 + (j + 1)] = <<a>> \o g[j + 1]
    <3>1. k \in Nat
        BY <1>1
    <3> QED BY <3>1
  <2> DEFINE i == j + 1
             p == m + 1 + i
  <2>1. i \in 1 .. Len(r) /\ i - 1 = j /\ p \in 1 .. Len(s) /\ p - 1 = m + 1 + j /\ s[p] = r[i] /\ j \in 0 .. Len(r)
    BY <1>1, <1>3
  <2> HIDE DEF i, p
  <2>2. f[p] = CutRound(s, sep, p, <<a>> \o g[j])
    BY <1>4, <2>1 DEF Cuts
  <2>3. g[i] = CutRound(r, sep, i, g[j])
    BY <1>5, <2>1 DEF Cuts
  <2>4. IsParts(A, g[j])
    BY <1>5, <2>1, SplitGivesParts
  <2>5. CutRound(r, sep, i, <<a>> \o g[j]) = <<a>> \o g[i]
    BY <2>1, <2>3, <2>4, CutKeepsParts
  <2>6. CutRound(s, sep, p, <<a>> \o g[j]) = CutRound(r, sep, i, <<a>> \o g[j])
    BY <2>1 DEF CutRound
  <2>7. f[p] = <<a>> \o g[i]
    BY <2>2, <2>5, <2>6
  <2> QED BY <2>7 DEF i, p
<1>10. 0 .. k \subseteq T
  <2> HIDE DEF T
  <2> QED BY <1>1, <1>8, <1>9, UpTo
<1>11. f[m + 1 + k] = <<a>> \o g[k]
    BY <1>1, <1>10
<1> QED BY <1>1, <1>3, <1>4, <1>5, <1>11 DEF Cuts

\* A text that holds two texts, one after the other, is the two joined.
LEMMA JoinOf ==
    ASSUME NEW A, NEW a \in Seq(A), NEW b \in Seq(A), NEW c \in Seq(A), Len(c) = Len(a) + Len(b),
           \A i \in 1 .. Len(a) : c[i] = a[i], \A i \in 1 .. Len(b) : c[Len(a) + i] = b[i]
    PROVE  a \o b = c
<1> DEFINE d == a \o b
           n == Len(a) + Len(b)
<1>1. d \in Seq(A) /\ Len(d) = n /\ (\A i \in 1 .. Len(a) : d[i] = a[i]) /\ \A i \in 1 .. Len(b) : d[Len(a) + i] = b[i]
    OBVIOUS
<1>2. n \in Nat /\ Len(a) \in Nat
    OBVIOUS
<1> HIDE DEF d
<1>3. ASSUME NEW i \in 1 .. n PROVE d[i] = c[i]
  <2>1. CASE i <= Len(a)
    BY <1>1, <1>2, <2>1
  <2>2. CASE ~(i <= Len(a))
    <3>1. i - Len(a) \in 1 .. Len(b) /\ Len(a) + (i - Len(a)) = i
        BY <1>2, <2>2
    <3> HIDE DEF n
    <3> QED BY <1>1, <3>1
  <2> QED BY <2>1, <2>2
<1>4. d = [i \in 1 .. n |-> d[i]] /\ c = [i \in 1 .. n |-> c[i]]
    BY <1>1
<1> QED BY <1>3, <1>4 DEF d

\* The texts of a key and of its modifiers, joined.
LEMMA ShortTexts ==
    /\ \A x, y : <<x>> \o <<y>> = <<x, y>>
    /\ \A x, y, z : <<x>> \o <<y, z>> = <<x, y, z>>
    /\ \A x, y, z : <<x, y>> \o <<z>> = <<x, y, z>>
    /\ \A x, y, z, u : <<x, y>> \o <<z, u>> = <<x, y, z, u>>
    /\ \A x, y, z, u, v : <<x, y>> \o <<z, u, v>> = <<x, y, z, u, v>>
    /\ \A x, y, z, u, v : <<x, y, z, u>> \o <<v>> = <<x, y, z, u, v>>
<1>1. ASSUME NEW x, NEW y PROVE <<x>> \o <<y>> = <<x, y>>
  <2> DEFINE A == {x, y}
             a == <<x>>
             b == <<y>>
             c == <<x, y>>
             n == Len(a)
             m == Len(b)
  <2>1. a \in Seq(A) /\ b \in Seq(A) /\ c \in Seq(A)
    OBVIOUS
  <2>2. n = 1 /\ m = 1 /\ Len(c) = 2
    OBVIOUS
  <2>3. a[1] = x /\ b[1] = y
    OBVIOUS
  <2>4. c[1] = x /\ c[2] = y
    OBVIOUS
  <2>5. (\A i \in 1 .. n : i = 1) /\ \A i \in 1 .. m : i = 1
    BY <2>2
  <2> HIDE DEF A, a, b, c, n, m
  <2>6. n + 1 = 2 /\ Len(c) = n + m
    BY <2>2
  <2>7. \A i \in 1 .. n : c[i] = a[i]
    BY <2>3, <2>4, <2>5
  <2>8. c[n + 1] = b[1]
    BY <2>3, <2>4, <2>6
  <2>9. \A i \in 1 .. m : c[n + i] = b[i]
    BY <2>5, <2>8
  <2>10. a \o b = c
    BY <2>1, <2>6, <2>7, <2>9, JoinOf DEF n, m
  <2> QED BY <2>10 DEF a, b, c
<1>2. ASSUME NEW x, NEW y, NEW z PROVE <<x>> \o <<y, z>> = <<x, y, z>>
  <2> DEFINE A == {x, y, z}
             a == <<x>>
             b == <<y, z>>
             c == <<x, y, z>>
             n == Len(a)
             m == Len(b)
  <2>1. a \in Seq(A) /\ b \in Seq(A) /\ c \in Seq(A)
    OBVIOUS
  <2>2. n = 1 /\ m = 2 /\ Len(c) = 3
    OBVIOUS
  <2>3. a[1] = x /\ b[1] = y /\ b[2] = z
    OBVIOUS
  <2>4. c[1] = x /\ c[2] = y /\ c[3] = z
    OBVIOUS
  <2>5. (\A i \in 1 .. n : i = 1) /\ \A i \in 1 .. m : i = 1 \/ i = 2
    BY <2>2
  <2> HIDE DEF A, a, b, c, n, m
  <2>6. n + 1 = 2 /\ n + 2 = 3 /\ Len(c) = n + m
    BY <2>2
  <2>7. \A i \in 1 .. n : c[i] = a[i]
    BY <2>3, <2>4, <2>5
  <2>8. c[n + 1] = b[1] /\ c[n + 2] = b[2]
    BY <2>3, <2>4, <2>6
  <2>9. \A i \in 1 .. m : c[n + i] = b[i]
    BY <2>5, <2>8
  <2>10. a \o b = c
    BY <2>1, <2>6, <2>7, <2>9, JoinOf DEF n, m
  <2> QED BY <2>10 DEF a, b, c
<1>3. ASSUME NEW x, NEW y, NEW z PROVE <<x, y>> \o <<z>> = <<x, y, z>>
  <2> DEFINE A == {x, y, z}
             a == <<x, y>>
             b == <<z>>
             c == <<x, y, z>>
             n == Len(a)
             m == Len(b)
  <2>1. a \in Seq(A) /\ b \in Seq(A) /\ c \in Seq(A)
    OBVIOUS
  <2>2. n = 2 /\ m = 1 /\ Len(c) = 3
    OBVIOUS
  <2>3. a[1] = x /\ a[2] = y /\ b[1] = z
    OBVIOUS
  <2>4. c[1] = x /\ c[2] = y /\ c[3] = z
    OBVIOUS
  <2>5. (\A i \in 1 .. n : i = 1 \/ i = 2) /\ \A i \in 1 .. m : i = 1
    BY <2>2
  <2> HIDE DEF A, a, b, c, n, m
  <2>6. n + 1 = 3 /\ Len(c) = n + m
    BY <2>2
  <2>7. \A i \in 1 .. n : c[i] = a[i]
    BY <2>3, <2>4, <2>5
  <2>8. c[n + 1] = b[1]
    BY <2>3, <2>4, <2>6
  <2>9. \A i \in 1 .. m : c[n + i] = b[i]
    BY <2>5, <2>8
  <2>10. a \o b = c
    BY <2>1, <2>6, <2>7, <2>9, JoinOf DEF n, m
  <2> QED BY <2>10 DEF a, b, c
<1>4. ASSUME NEW x, NEW y, NEW z, NEW u PROVE <<x, y>> \o <<z, u>> = <<x, y, z, u>>
  <2> DEFINE A == {x, y, z, u}
             a == <<x, y>>
             b == <<z, u>>
             c == <<x, y, z, u>>
             n == Len(a)
             m == Len(b)
  <2>1. a \in Seq(A) /\ b \in Seq(A) /\ c \in Seq(A)
    OBVIOUS
  <2>2. n = 2 /\ m = 2 /\ Len(c) = 4
    OBVIOUS
  <2>3. a[1] = x /\ a[2] = y /\ b[1] = z /\ b[2] = u
    OBVIOUS
  <2>4. c[1] = x /\ c[2] = y /\ c[3] = z /\ c[4] = u
    OBVIOUS
  <2>5. (\A i \in 1 .. n : i = 1 \/ i = 2) /\ \A i \in 1 .. m : i = 1 \/ i = 2
    BY <2>2
  <2> HIDE DEF A, a, b, c, n, m
  <2>6. n + 1 = 3 /\ n + 2 = 4 /\ Len(c) = n + m
    BY <2>2
  <2>7. \A i \in 1 .. n : c[i] = a[i]
    BY <2>3, <2>4, <2>5
  <2>8. c[n + 1] = b[1] /\ c[n + 2] = b[2]
    BY <2>3, <2>4, <2>6
  <2>9. \A i \in 1 .. m : c[n + i] = b[i]
    BY <2>5, <2>8
  <2>10. a \o b = c
    BY <2>1, <2>6, <2>7, <2>9, JoinOf DEF n, m
  <2> QED BY <2>10 DEF a, b, c
<1>5. ASSUME NEW x, NEW y, NEW z, NEW u, NEW v PROVE <<x, y>> \o <<z, u, v>> = <<x, y, z, u, v>>
  <2> DEFINE A == {x, y, z, u, v}
             a == <<x, y>>
             b == <<z, u, v>>
             c == <<x, y, z, u, v>>
             n == Len(a)
             m == Len(b)
  <2>1. a \in Seq(A) /\ b \in Seq(A) /\ c \in Seq(A)
    OBVIOUS
  <2>2. n = 2 /\ m = 3 /\ Len(c) = 5
    OBVIOUS
  <2>3. a[1] = x /\ a[2] = y /\ b[1] = z /\ b[2] = u /\ b[3] = v
    OBVIOUS
  <2>4. c[1] = x /\ c[2] = y /\ c[3] = z /\ c[4] = u /\ c[5] = v
    OBVIOUS
  <2>5. (\A i \in 1 .. n : i = 1 \/ i = 2) /\ \A i \in 1 .. m : i = 1 \/ i = 2 \/ i = 3
    BY <2>2
  <2> HIDE DEF A, a, b, c, n, m
  <2>6. n + 1 = 3 /\ n + 2 = 4 /\ n + 3 = 5 /\ Len(c) = n + m
    BY <2>2
  <2>7. \A i \in 1 .. n : c[i] = a[i]
    BY <2>3, <2>4, <2>5
  <2>8. c[n + 1] = b[1] /\ c[n + 2] = b[2] /\ c[n + 3] = b[3]
    BY <2>3, <2>4, <2>6
  <2>9. \A i \in 1 .. m : c[n + i] = b[i]
    BY <2>5, <2>8
  <2>10. a \o b = c
    BY <2>1, <2>6, <2>7, <2>9, JoinOf DEF n, m
  <2> QED BY <2>10 DEF a, b, c
<1>6. ASSUME NEW x, NEW y, NEW z, NEW u, NEW v PROVE <<x, y, z, u>> \o <<v>> = <<x, y, z, u, v>>
  <2> DEFINE A == {x, y, z, u, v}
             a == <<x, y, z, u>>
             b == <<v>>
             c == <<x, y, z, u, v>>
             n == Len(a)
             m == Len(b)
  <2>1. a \in Seq(A) /\ b \in Seq(A) /\ c \in Seq(A)
    OBVIOUS
  <2>2. n = 4 /\ m = 1 /\ Len(c) = 5
    OBVIOUS
  <2>3. a[1] = x /\ a[2] = y /\ a[3] = z /\ a[4] = u /\ b[1] = v
    OBVIOUS
  <2>4. c[1] = x /\ c[2] = y /\ c[3] = z /\ c[4] = u /\ c[5] = v
    OBVIOUS
  <2>5. (\A i \in 1 .. n : i = 1 \/ i = 2 \/ i = 3 \/ i = 4) /\ \A i \in 1 .. m : i = 1
    BY <2>2
  <2> HIDE DEF A, a, b, c, n, m
  <2>6. n + 1 = 5 /\ Len(c) = n + m
    BY <2>2
  <2>7. \A i \in 1 .. n : c[i] = a[i]
    BY <2>3, <2>4, <2>5
  <2>8. c[n + 1] = b[1]
    BY <2>3, <2>4, <2>6
  <2>9. \A i \in 1 .. m : c[n + i] = b[i]
    BY <2>5, <2>8
  <2>10. a \o b = c
    BY <2>1, <2>6, <2>7, <2>9, JoinOf DEF n, m
  <2> QED BY <2>10 DEF a, b, c
<1> QED BY <1>1, <1>2, <1>3, <1>4, <1>5, <1>6

\* The part of a text from one position to another.
LEMMA PartOf ==
    ASSUME NEW A, NEW s \in Seq(A), NEW w \in Seq(A), NEW to \in 1 .. Len(s), NEW from \in 1 .. to,
           Len(w) = to - from + 1, \A i \in 1 .. Len(w) : w[i] = s[from - 1 + i]
    PROVE  SubSeq(s, from, to) = w
<1> DEFINE r == SubSeq(s, from, to)
           n == Len(w)
<1>1. r \in Seq(A) /\ Len(r) = n /\ n \in Nat /\ \A i \in 1 .. n : r[i] = s[from - 1 + i]
    OBVIOUS
<1> HIDE DEF r
<1>2. r = [i \in 1 .. n |-> r[i]] /\ w = [i \in 1 .. n |-> w[i]]
    BY <1>1
<1>3. \A i \in 1 .. n : r[i] = w[i]
    BY <1>1
<1> QED BY <1>2, <1>3 DEF r

LEMMA AppendToOne ==
    ASSUME NEW x, NEW y
    PROVE  Append(<<x>>, y) = <<x, y>>
<1> DEFINE A == {x, y}
           a == <<x>>
           c == <<x, y>>
           w == Append(a, y)
<1>1. c \in Seq(A) /\ Len(c) = 2 /\ c[1] = x /\ c[2] = y
    OBVIOUS
<1>2. a \in Seq(A) /\ Len(a) = 1 /\ a[1] = x /\ y \in A
    OBVIOUS
<1> HIDE DEF A, a, c
<1>3. w \in Seq(A) /\ Len(w) = 2 /\ w[1] = x /\ w[2] = y
  <2> DEFINE n == Len(a)
             m == n + 1
  <2>1. n = 1 /\ m = 2
    BY <1>2
  <2>2. w \in Seq(A) /\ Len(w) = m /\ w[m] = y /\ \A i \in 1 .. n : w[i] = a[i]
    BY <1>2
  <2> HIDE DEF n, m, w
  <2> QED BY <1>2, <2>1, <2>2
<1> HIDE DEF w
<1>4. w = [i \in 1 .. 2 |-> w[i]] /\ c = [i \in 1 .. 2 |-> c[i]]
    BY <1>1, <1>3
<1>5. \A i \in 1 .. 2 : w[i] = c[i]
    BY <1>1, <1>3
<1>6. w = c
    BY <1>4, <1>5
<1> QED BY <1>6 DEF w, a, c

\* Parts of the texts of keys.
LEMMA ShortParts ==
    /\ \A x : SubSeq(<<x>>, 1, 0) = <<>>
    /\ \A x, y : SubSeq(<<x, y>>, 1, 1) = <<x>>
    /\ \A x, y, z : SubSeq(<<x, y, z>>, 1, 2) = <<x, y>>
    /\ \A x, y, z : SubSeq(<<x, y, z>>, 1, 1) = <<x>>
    /\ \A x, y, z : SubSeq(<<x, y, z>>, 2, 3) = <<y, z>>
    /\ \A x, y, z, u, v : SubSeq(<<x, y, z, u, v>>, 1, 3) = <<x, y, z>>
    /\ \A x, y, z, u, v : SubSeq(<<x, y, z, u, v>>, 4, 5) = <<u, v>>
<1>1. ASSUME NEW x PROVE SubSeq(<<x>>, 1, 0) = <<>>
  OBVIOUS
<1>2. ASSUME NEW x, NEW y PROVE SubSeq(<<x, y>>, 1, 1) = <<x>>
  <2> DEFINE A == {x, y}
             s == <<x, y>>
             w == <<x>>
             from == 1
             to == 1
  <2>1. s \in Seq(A) /\ w \in Seq(A)
    OBVIOUS
  <2>2. Len(s) = 2 /\ Len(w) = 1 /\ from = 1 /\ to = 1
    OBVIOUS
  <2>3. s[1] = x /\ s[2] = y
    OBVIOUS
  <2>4. w[1] = x
    OBVIOUS
  <2> HIDE DEF A, s, w, from, to
  <2>5. \A i \in 1 .. Len(w) : w[i] = s[from - 1 + i]
    <3>1. \A i \in 1 .. Len(w) : i = 1
        BY <2>2
    <3>2. from - 1 + 1 = 1
        BY <2>2
    <3>3. w[1] = s[from - 1 + 1]
        BY <2>3, <2>4, <3>2
    <3> QED BY <3>1, <3>3
  <2>6. from \in 1 .. to /\ to \in 1 .. Len(s) /\ Len(w) = to - from + 1
    BY <2>2
  <2>7. SubSeq(s, from, to) = w
    BY <2>1, <2>5, <2>6, PartOf
  <2> QED BY <2>7 DEF s, w, from, to
<1>3. ASSUME NEW x, NEW y, NEW z PROVE SubSeq(<<x, y, z>>, 1, 2) = <<x, y>>
  <2> DEFINE A == {x, y, z}
             s == <<x, y, z>>
             w == <<x, y>>
             from == 1
             to == 2
  <2>1. s \in Seq(A) /\ w \in Seq(A)
    OBVIOUS
  <2>2. Len(s) = 3 /\ Len(w) = 2 /\ from = 1 /\ to = 2
    OBVIOUS
  <2>3. s[1] = x /\ s[2] = y /\ s[3] = z
    OBVIOUS
  <2>4. w[1] = x /\ w[2] = y
    OBVIOUS
  <2> HIDE DEF A, s, w, from, to
  <2>5. \A i \in 1 .. Len(w) : w[i] = s[from - 1 + i]
    <3>1. \A i \in 1 .. Len(w) : i = 1 \/ i = 2
        BY <2>2
    <3>2. from - 1 + 1 = 1 /\ from - 1 + 2 = 2
        BY <2>2
    <3>3. w[1] = s[from - 1 + 1] /\ w[2] = s[from - 1 + 2]
        BY <2>3, <2>4, <3>2
    <3> QED BY <3>1, <3>3
  <2>6. from \in 1 .. to /\ to \in 1 .. Len(s) /\ Len(w) = to - from + 1
    BY <2>2
  <2>7. SubSeq(s, from, to) = w
    BY <2>1, <2>5, <2>6, PartOf
  <2> QED BY <2>7 DEF s, w, from, to
<1>4. ASSUME NEW x, NEW y, NEW z PROVE SubSeq(<<x, y, z>>, 1, 1) = <<x>>
  <2> DEFINE A == {x, y, z}
             s == <<x, y, z>>
             w == <<x>>
             from == 1
             to == 1
  <2>1. s \in Seq(A) /\ w \in Seq(A)
    OBVIOUS
  <2>2. Len(s) = 3 /\ Len(w) = 1 /\ from = 1 /\ to = 1
    OBVIOUS
  <2>3. s[1] = x /\ s[2] = y /\ s[3] = z
    OBVIOUS
  <2>4. w[1] = x
    OBVIOUS
  <2> HIDE DEF A, s, w, from, to
  <2>5. \A i \in 1 .. Len(w) : w[i] = s[from - 1 + i]
    <3>1. \A i \in 1 .. Len(w) : i = 1
        BY <2>2
    <3>2. from - 1 + 1 = 1
        BY <2>2
    <3>3. w[1] = s[from - 1 + 1]
        BY <2>3, <2>4, <3>2
    <3> QED BY <3>1, <3>3
  <2>6. from \in 1 .. to /\ to \in 1 .. Len(s) /\ Len(w) = to - from + 1
    BY <2>2
  <2>7. SubSeq(s, from, to) = w
    BY <2>1, <2>5, <2>6, PartOf
  <2> QED BY <2>7 DEF s, w, from, to
<1>5. ASSUME NEW x, NEW y, NEW z PROVE SubSeq(<<x, y, z>>, 2, 3) = <<y, z>>
  <2> DEFINE A == {x, y, z}
             s == <<x, y, z>>
             w == <<y, z>>
             from == 2
             to == 3
  <2>1. s \in Seq(A) /\ w \in Seq(A)
    OBVIOUS
  <2>2. Len(s) = 3 /\ Len(w) = 2 /\ from = 2 /\ to = 3
    OBVIOUS
  <2>3. s[1] = x /\ s[2] = y /\ s[3] = z
    OBVIOUS
  <2>4. w[1] = y /\ w[2] = z
    OBVIOUS
  <2> HIDE DEF A, s, w, from, to
  <2>5. \A i \in 1 .. Len(w) : w[i] = s[from - 1 + i]
    <3>1. \A i \in 1 .. Len(w) : i = 1 \/ i = 2
        BY <2>2
    <3>2. from - 1 + 1 = 2 /\ from - 1 + 2 = 3
        BY <2>2
    <3>3. w[1] = s[from - 1 + 1] /\ w[2] = s[from - 1 + 2]
        BY <2>3, <2>4, <3>2
    <3> QED BY <3>1, <3>3
  <2>6. from \in 1 .. to /\ to \in 1 .. Len(s) /\ Len(w) = to - from + 1
    BY <2>2
  <2>7. SubSeq(s, from, to) = w
    BY <2>1, <2>5, <2>6, PartOf
  <2> QED BY <2>7 DEF s, w, from, to
<1>6. ASSUME NEW x, NEW y, NEW z, NEW u, NEW v PROVE SubSeq(<<x, y, z, u, v>>, 1, 3) = <<x, y, z>>
  <2> DEFINE A == {x, y, z, u, v}
             s == <<x, y, z, u, v>>
             w == <<x, y, z>>
             from == 1
             to == 3
  <2>1. s \in Seq(A) /\ w \in Seq(A)
    OBVIOUS
  <2>2. Len(s) = 5 /\ Len(w) = 3 /\ from = 1 /\ to = 3
    OBVIOUS
  <2>3. s[1] = x /\ s[2] = y /\ s[3] = z /\ s[4] = u /\ s[5] = v
    OBVIOUS
  <2>4. w[1] = x /\ w[2] = y /\ w[3] = z
    OBVIOUS
  <2> HIDE DEF A, s, w, from, to
  <2>5. \A i \in 1 .. Len(w) : w[i] = s[from - 1 + i]
    <3>1. \A i \in 1 .. Len(w) : i = 1 \/ i = 2 \/ i = 3
        BY <2>2
    <3>2. from - 1 + 1 = 1 /\ from - 1 + 2 = 2 /\ from - 1 + 3 = 3
        BY <2>2
    <3>3. w[1] = s[from - 1 + 1] /\ w[2] = s[from - 1 + 2] /\ w[3] = s[from - 1 + 3]
        BY <2>3, <2>4, <3>2
    <3> QED BY <3>1, <3>3
  <2>6. from \in 1 .. to /\ to \in 1 .. Len(s) /\ Len(w) = to - from + 1
    BY <2>2
  <2>7. SubSeq(s, from, to) = w
    BY <2>1, <2>5, <2>6, PartOf
  <2> QED BY <2>7 DEF s, w, from, to
<1>7. ASSUME NEW x, NEW y, NEW z, NEW u, NEW v PROVE SubSeq(<<x, y, z, u, v>>, 4, 5) = <<u, v>>
  <2> DEFINE A == {x, y, z, u, v}
             s == <<x, y, z, u, v>>
             w == <<u, v>>
             from == 4
             to == 5
  <2>1. s \in Seq(A) /\ w \in Seq(A)
    OBVIOUS
  <2>2. Len(s) = 5 /\ Len(w) = 2 /\ from = 4 /\ to = 5
    OBVIOUS
  <2>3. s[1] = x /\ s[2] = y /\ s[3] = z /\ s[4] = u /\ s[5] = v
    OBVIOUS
  <2>4. w[1] = u /\ w[2] = v
    OBVIOUS
  <2> HIDE DEF A, s, w, from, to
  <2>5. \A i \in 1 .. Len(w) : w[i] = s[from - 1 + i]
    <3>1. \A i \in 1 .. Len(w) : i = 1 \/ i = 2
        BY <2>2
    <3>2. from - 1 + 1 = 4 /\ from - 1 + 2 = 5
        BY <2>2
    <3>3. w[1] = s[from - 1 + 1] /\ w[2] = s[from - 1 + 2]
        BY <2>3, <2>4, <3>2
    <3> QED BY <3>1, <3>3
  <2>6. from \in 1 .. to /\ to \in 1 .. Len(s) /\ Len(w) = to - from + 1
    BY <2>2
  <2>7. SubSeq(s, from, to) = w
    BY <2>1, <2>5, <2>6, PartOf
  <2> QED BY <2>7 DEF s, w, from, to
<1> QED BY <1>1, <1>2, <1>3, <1>4, <1>5, <1>6, <1>7

\* Texts of one, two and three parts of one piece each.
LEMMA SplitOfOne ==
    ASSUME NEW sep, NEW x, x # sep
    PROVE  SplitPieces(<<x>>, sep) = << <<x>> >>
<1> DEFINE A == {x}
           s == <<x>>
<1>1. s \in Seq(A) /\ \A i \in DOMAIN s : s[i] # sep
    OBVIOUS
<1>2. SplitPieces(s, sep) = <<s>>
  <2> HIDE DEF A, s
  <2> QED BY <1>1, SplitPlain
<1> QED BY <1>2

LEMMA SplitBehind ==
    ASSUME NEW A, NEW sep \in A, NEW x \in A, x # sep, NEW r \in Seq(A)
    PROVE  SplitPieces(<<x, sep>> \o r, sep) = << <<x>> >> \o SplitPieces(r, sep)
<1> DEFINE s == <<x>>
<1>1. s \in Seq(A) /\ \A i \in DOMAIN s : s[i] # sep
    OBVIOUS
<1>2. SplitPieces(s \o <<sep>> \o r, sep) = <<s>> \o SplitPieces(r, sep)
  <2> HIDE DEF s
  <2> QED BY <1>1, SplitFirst
<1>3. s \o <<sep>> = <<x, sep>>
    BY ShortTexts
<1> QED BY <1>2, <1>3

LEMMA SplitOfTwo ==
    ASSUME NEW sep, NEW x, NEW y, x # sep, y # sep
    PROVE  SplitPieces(<<x, sep, y>>, sep) = << <<x>>, <<y>> >>
<1> DEFINE A == {x, y, sep}
           r == <<y>>
<1>1. sep \in A /\ x \in A /\ r \in Seq(A)
    OBVIOUS
<1>2. SplitPieces(<<x, sep>> \o r, sep) = << <<x>> >> \o SplitPieces(r, sep)
  <2> HIDE DEF A, r
  <2> QED BY <1>1, SplitBehind
<1>3. SplitPieces(r, sep) = << <<y>> >>
    BY SplitOfOne
<1>4. <<x, sep>> \o r = <<x, sep, y>>
    BY ShortTexts
<1>5. << <<x>> >> \o << <<y>> >> = << <<x>>, <<y>> >>
    BY ShortTexts
<1> QED BY <1>2, <1>3, <1>4, <1>5

LEMMA SplitOfThree ==
    ASSUME NEW sep, NEW x, NEW y, NEW z, x # sep, y # sep, z # sep
    PROVE  SplitPieces(<<x, sep, y, sep, z>>, sep) = << <<x>>, <<y>>, <<z>> >>
<1> DEFINE A == {x, y, z, sep}
           r == <<y, sep, z>>
<1>1. sep \in A /\ x \in A /\ r \in Seq(A)
    OBVIOUS
<1>2. SplitPieces(<<x, sep>> \o r, sep) = << <<x>> >> \o SplitPieces(r, sep)
  <2> HIDE DEF A, r
  <2> QED BY <1>1, SplitBehind
<1>3. SplitPieces(r, sep) = << <<y>>, <<z>> >>
    BY SplitOfTwo
<1>4. <<x, sep>> \o r = <<x, sep, y, sep, z>>
    BY ShortTexts
<1>5. << <<x>> >> \o << <<y>>, <<z>> >> = << <<x>>, <<y>>, <<z>> >>
    BY ShortTexts
<1> QED BY <1>2, <1>3, <1>4, <1>5

\* A key with no, one or both modifiers.
LEMMA ModifiersOfKey ==
    ASSUME NEW c \in NamedKey \cup CharKey
    PROVE  /\ ModifiedKey(<<>>, <<c>>) = KeyEv(c, {})
           /\ ModifiedKey(<< <<"ctrl">> >>, <<c>>) = KeyEv(c, {"ctrl"})
           /\ ModifiedKey(<< <<"alt">> >>, <<c>>) = KeyEv(c, {"alt"})
           /\ ModifiedKey(<< <<"ctrl">>, <<"alt">> >>, <<c>>) = KeyEv(c, {"ctrl", "alt"})
<1>1. \A x, y : Range(<<>>) = {} /\ Range(<<x>>) = {x} /\ Range(<<x, y>>) = {x, y}
  <2> TAKE x, y
  <2>1. DOMAIN <<>> = {} /\ DOMAIN <<x>> = {1} /\ DOMAIN <<x, y>> = {1, 2}
    OBVIOUS
  <2>2. <<x>>[1] = x /\ <<x, y>>[1] = x /\ <<x, y>>[2] = y
    OBVIOUS
  <2> QED BY <2>1, <2>2 DEF Range
<1> DEFINE Mods(ms) == UNION {Range(m) : m \in Range(ms)}
           Allowed(ms) == \A m \in Range(ms) : m \in {<<"ctrl">>, <<"alt">>}
           none == <<>>
           ctrl == << <<"ctrl">> >>
           alt == << <<"alt">> >>
           both == << <<"ctrl">>, <<"alt">> >>
<1>2. \A ms : Allowed(ms) => ModifiedKey(ms, <<c>>) = KeyEv(c, Mods(ms))
    BY DEF ModifiedKey
<1>3. Range(none) = {} /\ Range(ctrl) = {<<"ctrl">>} /\ Range(alt) = {<<"alt">>} /\ Range(both) = {<<"ctrl">>, <<"alt">>}
    BY <1>1
<1>4. Range(<<"ctrl">>) = {"ctrl"} /\ Range(<<"alt">>) = {"alt"}
    BY <1>1
<1>5. Mods(none) = {} /\ Mods(ctrl) = {"ctrl"} /\ Mods(alt) = {"alt"} /\ Mods(both) = {"ctrl", "alt"}
  <2> HIDE DEF none, ctrl, alt, both
  <2> QED BY <1>3, <1>4
<1>6. Allowed(none) /\ Allowed(ctrl) /\ Allowed(alt) /\ Allowed(both)
  <2> HIDE DEF none, ctrl, alt, both
  <2> QED BY <1>3
<1>7. /\ ModifiedKey(none, <<c>>) = KeyEv(c, {}) /\ ModifiedKey(ctrl, <<c>>) = KeyEv(c, {"ctrl"})
      /\ ModifiedKey(alt, <<c>>) = KeyEv(c, {"alt"}) /\ ModifiedKey(both, <<c>>) = KeyEv(c, {"ctrl", "alt"})
  <2> HIDE DEF none, ctrl, alt, both, Mods, Allowed
  <2> QED BY <1>2, <1>5, <1>6
<1> QED BY <1>7

\* The text of a key with some modifiers, and how it is taken apart.
LEMMA TextOfKey ==
    ASSUME NEW c, NEW plus, NEW ctrl, NEW alt
    PROVE  /\ <<>> \o <<>> \o <<c>> = <<c>>
           /\ <<ctrl, plus>> \o <<>> \o <<c>> = <<ctrl, plus, c>>
           /\ <<>> \o <<alt, plus>> \o <<c>> = <<alt, plus, c>>
           /\ <<ctrl, plus>> \o <<alt, plus>> \o <<c>> = <<ctrl, plus, alt, plus, c>>
<1>1. \A t \in Seq({ctrl, alt, plus, c}) : t \o <<>> = t /\ <<>> \o t = t
    OBVIOUS
<1>2. /\ <<>> \in Seq({ctrl, alt, plus, c}) /\ <<c>> \in Seq({ctrl, alt, plus, c})
      /\ <<ctrl, plus>> \in Seq({ctrl, alt, plus, c}) /\ <<alt, plus>> \in Seq({ctrl, alt, plus, c})
    OBVIOUS
<1>3. <<>> \o <<>> = <<>> /\ <<>> \o <<c>> = <<c>>
    BY <1>1, <1>2
<1>4. <<ctrl, plus>> \o <<>> = <<ctrl, plus>> /\ <<>> \o <<alt, plus>> = <<alt, plus>>
    BY <1>1, <1>2
<1>5. <<ctrl, plus>> \o <<c>> = <<ctrl, plus, c>>
    BY ShortTexts
<1>6. <<alt, plus>> \o <<c>> = <<alt, plus, c>>
    BY ShortTexts
<1>7. <<ctrl, plus>> \o <<alt, plus>> = <<ctrl, plus, alt, plus>>
    BY ShortTexts
<1>8. <<ctrl, plus, alt, plus>> \o <<c>> = <<ctrl, plus, alt, plus, c>>
    BY ShortTexts
<1> QED BY <1>3, <1>4, <1>5, <1>6, <1>7, <1>8

\* parse_single of each of them.
Parsed(t, plus) ==
    IF t = <<plus>> THEN KeyEv(plus, {})
    ELSE IF Len(t) >= 2 /\ SubSeq(t, Len(t) - 1, Len(t)) = <<plus, plus>>
    THEN ModifiedKey(SplitPieces(SubSeq(t, 1, Len(t) - 2), plus), <<plus>>)
    ELSE ModifiedKey(Front(SplitPieces(t, plus)), Last(SplitPieces(t, plus)))

LEMMA ParsedText ==
    ASSUME NEW c, NEW plus
    PROVE  /\ Parsed(<<c>>, plus) = IF c = plus THEN KeyEv(c, {}) ELSE ModifiedKey(<<>>, <<c>>)
           /\ \A x : x # plus => Parsed(<<x, plus, c>>, plus) = ModifiedKey(<< <<x>> >>, <<c>>)
           /\ \A x, y : x # plus /\ y # plus =>
                Parsed(<<x, plus, y, plus, c>>, plus) = ModifiedKey(<< <<x>>, <<y>> >>, <<c>>)
<1> DEFINE pp == <<plus, plus>>
           p == <<plus>>
           Plus(t) == Parsed(t, plus)
           t1 == <<c>>
           IsKey(t) == Len(t) >= 2 /\ SubSeq(t, Len(t) - 1, Len(t)) = pp
           Ahead(t) == ModifiedKey(SplitPieces(SubSeq(t, 1, Len(t) - 2), plus), p)
           Parts(t) == ModifiedKey(Front(SplitPieces(t, plus)), Last(SplitPieces(t, plus)))
<1>1. \A t : Plus(t) = IF t = p THEN KeyEv(plus, {}) ELSE IF IsKey(t) THEN Ahead(t) ELSE Parts(t)
    BY DEF Parsed
<1>2. (<<plus, c>> = pp <=> c = plus) /\ (c = plus => p = <<c>>) /\ (t1 = p <=> c = plus) /\ Len(t1) = 1
    OBVIOUS
<1>3. Plus(t1) = IF c = plus THEN KeyEv(c, {}) ELSE ModifiedKey(<<>>, <<c>>)
  <2>1. CASE c = plus
    <3> HIDE DEF Plus, IsKey, Ahead, Parts
    <3> QED BY <1>1, <1>2, <2>1
  <2>2. CASE c # plus
    <3> DEFINE parts == << <<c>> >>
    <3>1. SplitPieces(t1, plus) = parts
        BY <2>2, SplitOfOne
    <3>2. Len(parts) = 1 /\ parts[1] = <<c>> /\ SubSeq(parts, 1, 0) = <<>>
        BY ShortParts
    <3> HIDE DEF parts, t1
    <3>3. Front(parts) = <<>> /\ Last(parts) = <<c>>
        BY <3>2 DEF Front, Last
    <3>4. ~IsKey(t1) /\ Parts(t1) = ModifiedKey(<<>>, <<c>>)
        BY <1>2, <3>1, <3>3
    <3> HIDE DEF Plus, IsKey, Ahead, Parts, p
    <3> QED BY <1>1, <1>2, <2>2, <3>4
  <2> QED BY <2>1, <2>2
<1>4. ASSUME NEW x, x # plus PROVE Plus(<<x, plus, c>>) = ModifiedKey(<< <<x>> >>, <<c>>)
  <2> DEFINE t == <<x, plus, c>>
             parts == << <<x>>, <<c>> >>
  <2>1. Len(t) = 3 /\ t # p
    OBVIOUS
  <2>2. SubSeq(t, 2, 3) = <<plus, c>> /\ SubSeq(t, 1, 1) = <<x>>
    BY ShortParts
  <2>3. SplitPieces(<<x>>, plus) = << <<x>> >>
    BY <1>4, SplitOfOne
  <2>4. c # plus => SplitPieces(t, plus) = parts
    BY <1>4, SplitOfTwo
  <2>5. Len(parts) = 2 /\ parts[2] = <<c>> /\ SubSeq(parts, 1, 1) = << <<x>> >>
    BY ShortParts
  <2> HIDE DEF parts
  <2>6. Front(parts) = << <<x>> >> /\ Last(parts) = <<c>>
    BY <2>5 DEF Front, Last
  <2> DEFINE mods == << <<x>> >>
             last == <<c>>
             Goal == Plus(t) = ModifiedKey(mods, last)
  <2> HIDE DEF t
  <2>7. IsKey(t) <=> c = plus
    BY <1>2, <2>1, <2>2
  <2>8. Ahead(t) = ModifiedKey(mods, p)
    <3>1. Len(t) - 2 = 1
        BY <2>1
    <3>2. SubSeq(t, 1, Len(t) - 2) = <<x>>
        BY <2>2, <3>1
    <3> QED BY <2>3, <3>2
  <2>9. c # plus => Parts(t) = ModifiedKey(mods, last)
    BY <2>4, <2>6
  <2>10. c = plus => p = last
    BY <1>2
  <2> HIDE DEF Plus, IsKey, Ahead, Parts, p, pp, mods, last
  <2>11. Goal
    BY <1>1, <2>1, <2>7, <2>8, <2>9, <2>10
  <2> QED BY <2>11 DEF t, mods, last
<1>5. ASSUME NEW x, NEW y, x # plus, y # plus
      PROVE  Plus(<<x, plus, y, plus, c>>) = ModifiedKey(<< <<x>>, <<y>> >>, <<c>>)
  <2> DEFINE t == <<x, plus, y, plus, c>>
             parts == << <<x>>, <<y>>, <<c>> >>
  <2>1. Len(t) = 5 /\ t # p
    OBVIOUS
  <2>2. SubSeq(t, 4, 5) = <<plus, c>> /\ SubSeq(t, 1, 3) = <<x, plus, y>>
    BY ShortParts
  <2>3. SplitPieces(<<x, plus, y>>, plus) = << <<x>>, <<y>> >>
    BY <1>5, SplitOfTwo
  <2>4. c # plus => SplitPieces(t, plus) = parts
    BY <1>5, SplitOfThree
  <2>5. Len(parts) = 3 /\ parts[3] = <<c>> /\ SubSeq(parts, 1, 2) = << <<x>>, <<y>> >>
    BY ShortParts
  <2> HIDE DEF parts
  <2>6. Front(parts) = << <<x>>, <<y>> >> /\ Last(parts) = <<c>>
    BY <2>5 DEF Front, Last
  <2> DEFINE mods == << <<x>>, <<y>> >>
             last == <<c>>
             Goal == Plus(t) = ModifiedKey(mods, last)
  <2> HIDE DEF t
  <2>7. IsKey(t) <=> c = plus
    BY <1>2, <2>1, <2>2
  <2>8. Ahead(t) = ModifiedKey(mods, p)
    <3>1. Len(t) - 2 = 3
        BY <2>1
    <3>2. SubSeq(t, 1, Len(t) - 2) = <<x, plus, y>>
        BY <2>2, <3>1
    <3> QED BY <2>3, <3>2
  <2>9. c # plus => Parts(t) = ModifiedKey(mods, last)
    BY <2>4, <2>6
  <2>10. c = plus => p = last
    BY <1>2
  <2> HIDE DEF Plus, IsKey, Ahead, Parts, p, pp, mods, last
  <2>11. Goal
    BY <1>1, <2>1, <2>7, <2>8, <2>9, <2>10
  <2> QED BY <2>11 DEF t, mods, last
<1> QED BY <1>3, <1>4, <1>5

\* The text of a key is read as this key (parse_single, render_key_grammar).
LEMMA KeyRoundTrips ==
    ASSUME NEW k \in KeyEvents
    PROVE  ParseSingle(RenderKey(k)) = k
<1> DEFINE plus == "+"
           ctrl == "ctrl"
           alt == "alt"
<1>1. PICK c \in NamedKey \cup CharKey, m \in SUBSET {ctrl, alt} : k = KeyEv(c, m)
    BY DEF KeyEvents, KeyEv
<1>2. ctrl # plus /\ alt # plus
    OBVIOUS
<1>3. m = {} \/ m = {ctrl} \/ m = {alt} \/ m = {ctrl, alt}
    OBVIOUS
<1>4. RenderKey(k) = (IF ctrl \in m THEN <<ctrl, plus>> ELSE <<>>)
                     \o (IF alt \in m THEN <<alt, plus>> ELSE <<>>) \o <<c>>
    BY <1>1 DEF RenderKey, KeyEv
<1>5. /\ ModifiedKey(<<>>, <<c>>) = KeyEv(c, {}) /\ ModifiedKey(<< <<ctrl>> >>, <<c>>) = KeyEv(c, {ctrl})
      /\ ModifiedKey(<< <<alt>> >>, <<c>>) = KeyEv(c, {alt})
      /\ ModifiedKey(<< <<ctrl>>, <<alt>> >>, <<c>>) = KeyEv(c, {ctrl, alt})
    BY ModifiersOfKey
<1>6. \A t : ParseSingle(t) = Parsed(t, plus)
    BY DEF ParseSingle, Parsed
<1>7. ctrl # alt
    OBVIOUS
<1> HIDE DEF plus, ctrl, alt
<1>8. Parsed(<<c>>, plus) = IF c = plus THEN KeyEv(c, {}) ELSE ModifiedKey(<<>>, <<c>>)
    BY ParsedText
<1>13. \A x : x # plus => Parsed(<<x, plus, c>>, plus) = ModifiedKey(<< <<x>> >>, <<c>>)
    BY ParsedText
<1>14. \A x, y : x # plus /\ y # plus =>
         Parsed(<<x, plus, y, plus, c>>, plus) = ModifiedKey(<< <<x>>, <<y>> >>, <<c>>)
    BY ParsedText
<1>9. CASE m = {}
  <2>1. RenderKey(k) = <<c>>
    BY <1>4, <1>9, TextOfKey
  <2>2. ParseSingle(RenderKey(k)) = KeyEv(c, m)
    BY <1>5, <1>6, <1>9, <1>8, <2>1
  <2> QED BY <1>1, <2>2
<1>10. CASE m = {ctrl}
  <2>1. RenderKey(k) = <<ctrl, plus, c>>
    BY <1>4, <1>7, <1>10, TextOfKey
  <2>2. ParseSingle(RenderKey(k)) = KeyEv(c, m)
    BY <1>2, <1>5, <1>6, <1>10, <1>13, <2>1
  <2> QED BY <1>1, <2>2
<1>11. CASE m = {alt}
  <2>1. RenderKey(k) = <<alt, plus, c>>
    BY <1>4, <1>7, <1>11, TextOfKey
  <2>2. ParseSingle(RenderKey(k)) = KeyEv(c, m)
    BY <1>2, <1>5, <1>6, <1>11, <1>13, <2>1
  <2> QED BY <1>1, <2>2
<1>12. CASE m = {ctrl, alt}
  <2>1. RenderKey(k) = <<ctrl, plus, alt, plus, c>>
    BY <1>4, <1>12, TextOfKey
  <2>2. ParseSingle(RenderKey(k)) = KeyEv(c, m)
    BY <1>2, <1>5, <1>6, <1>12, <1>14, <2>1
  <2> QED BY <1>1, <2>2
<1> QED BY <1>3, <1>9, <1>10, <1>11, <1>12

\* The text of a key is in no need of the blank that separates two.
Pieces == NamedKey \cup CharKey \cup {"ctrl", "alt", "+", Blank}

LEMMA KeyTextIsPlain ==
    ASSUME NEW k \in KeyEvents
    PROVE  /\ RenderKey(k) \in Seq(Pieces) /\ RenderKey(k) # <<>>
           /\ \A i \in DOMAIN RenderKey(k) : RenderKey(k)[i] # Blank
<1> DEFINE P == Pieces \ {Blank}
           a == IF "ctrl" \in k.mods THEN <<"ctrl", "+">> ELSE <<>>
           b == IF "alt" \in k.mods THEN <<"alt", "+">> ELSE <<>>
           c == <<k.code>>
           r == RenderKey(k)
<1>1. k.code \in P
    BY DEF KeyEvents, Pieces, NamedKey, CharKey, DigitKeys, Range, Blank
<1>2. "ctrl" \in P /\ "alt" \in P /\ "+" \in P
    BY DEF Pieces, Blank
<1>3. a \in Seq(P) /\ b \in Seq(P) /\ c \in Seq(P) /\ Len(c) = 1
  <2> DEFINE x == "ctrl"
             y == "alt"
             z == "+"
             d == k.code
  <2>1. x \in P /\ y \in P /\ z \in P /\ d \in P
    BY <1>1, <1>2
  <2>2. /\ a = IF "ctrl" \in k.mods THEN <<x, z>> ELSE <<>>
        /\ b = IF "alt" \in k.mods THEN <<y, z>> ELSE <<>>
        /\ c = <<d>>
    OBVIOUS
  <2> HIDE DEF P, x, y, z, d, a, b, c
  <2>3. <<x, z>> \in Seq(P) /\ <<y, z>> \in Seq(P) /\ <<d>> \in Seq(P) /\ <<>> \in Seq(P) /\ Len(<<d>>) = 1
    BY <2>1
  <2> QED BY <2>2, <2>3
<1>4. r = a \o b \o c
    BY DEF RenderKey
<1> HIDE DEF P, a, b, c, r
<1>5. r \in Seq(P) /\ Len(r) > 0
    BY <1>3, <1>4
<1>6. r \in Seq(Pieces) /\ r # <<>> /\ \A i \in DOMAIN r : r[i] # Blank
    BY <1>5 DEF P
<1> QED BY <1>6 DEF r

\* A trigger of one key, or of a sequence of two, is read as it is shown.
LEMMA TriggerRoundTrips ==
    ASSUME NEW t \in Triggers, t.kind # "count"
    PROVE  ParseKey(RenderGrammar(t)) = t
<1>1. /\ t.kind \in {"key", "seq"} /\ t.keys \in Seq(KeyEvents)
      /\ t = [kind |-> t.kind, keys |-> t.keys]
      /\ Len(t.keys) = IF t.kind = "key" THEN 1 ELSE 2
    BY DEF Triggers
<1>2. \A k \in KeyEvents : k # Invalid
    BY DEF KeyEvents, Invalid
<1> DEFINE s == RenderGrammar(t)
           tokens == SplitPieces(s, Blank)
           keys == [i \in DOMAIN tokens |-> ParseSingle(tokens[i])]
<1>3. ParseKey(s) = IF s = <<>> \/ Len(tokens) > 2 \/ Invalid \in Range(keys) THEN Invalid
                    ELSE [kind |-> IF Len(keys) = 1 THEN "key" ELSE "seq", keys |-> keys]
    BY DEF ParseKey
<1>4. SUFFICES /\ s # <<>> /\ Len(tokens) <= 2 /\ Invalid \notin Range(keys)
               /\ keys = t.keys
  <2> HIDE DEF s, tokens, keys
  <2>1. ASSUME s # <<>>, ~(Len(tokens) > 2), Invalid \notin Range(keys), keys = t.keys PROVE ParseKey(s) = t
    <3>1. ParseKey(s) = [kind |-> IF Len(t.keys) = 1 THEN "key" ELSE "seq", keys |-> t.keys]
        BY <1>3, <2>1
    <3>2. t.kind = IF Len(t.keys) = 1 THEN "key" ELSE "seq"
        BY <1>1
    <3> QED BY <1>1, <3>1, <3>2
  <2> QED BY <2>1 DEF s, tokens, keys
<1>5. CASE t.kind = "key"
  <2> DEFINE k == t.keys[1]
             a == RenderKey(k)
  <2>1. k \in KeyEvents /\ Len(t.keys) = 1
    BY <1>1, <1>5
  <2>2. s = a
    BY <2>1 DEF RenderGrammar
  <2>3. a \in Seq(Pieces) /\ a # <<>> /\ (\A i \in DOMAIN a : a[i] # Blank)
    BY <2>1, KeyTextIsPlain
  <2>4. ParseSingle(a) = k
    BY <2>1, KeyRoundTrips
  <2>5. tokens = <<a>>
    <3> HIDE DEF a, s
    <3> QED BY <2>2, <2>3, SplitPlain
  <2>6. DOMAIN <<a>> = 1 .. 1 /\ <<a>>[1] = a /\ Len(<<a>>) = 1
    OBVIOUS
  <2> HIDE DEF a, s, tokens
  <2>7. DOMAIN keys = 1 .. 1 /\ keys[1] = k
    BY <2>4, <2>5, <2>6
  <2>8. t.keys = [i \in 1 .. 1 |-> t.keys[i]] /\ keys = [i \in 1 .. 1 |-> keys[i]]
    BY <1>1, <2>1, <2>7
  <2>9. Range(keys) = {k}
    <3> HIDE DEF keys, k
    <3> QED BY <2>7 DEF Range
  <2> HIDE DEF keys
  <2>10. keys = t.keys
    BY <2>7, <2>8
  <2> QED BY <1>2, <2>1, <2>2, <2>3, <2>5, <2>6, <2>9, <2>10
<1>6. CASE t.kind = "seq"
  <2> DEFINE k == t.keys[1]
             l == t.keys[2]
             a == RenderKey(k)
             b == RenderKey(l)
             two == <<a, b>>
  <2>1. k \in KeyEvents /\ l \in KeyEvents /\ Len(t.keys) = 2
    BY <1>1, <1>6
  <2>2. s = a \o <<Blank>> \o b
    BY <2>1 DEF RenderGrammar
  <2>3. a \in Seq(Pieces) /\ a # <<>> /\ (\A i \in DOMAIN a : a[i] # Blank)
    BY <2>1, KeyTextIsPlain
  <2>4. b \in Seq(Pieces) /\ (\A i \in DOMAIN b : b[i] # Blank)
    BY <2>1, KeyTextIsPlain
  <2>5. ParseSingle(a) = k /\ ParseSingle(b) = l
    BY <2>1, KeyRoundTrips
  <2>6. tokens = two
    <3>1. Blank \in Pieces
        BY DEF Pieces
    <3> HIDE DEF a, b, s
    <3>2. SplitPieces(b, Blank) = <<b>>
        BY <2>4, SplitPlain
    <3>3. SplitPieces(a \o <<Blank>> \o b, Blank) = <<a>> \o SplitPieces(b, Blank)
        BY <2>3, <2>4, <3>1, SplitFirst
    <3>4. <<a>> \o <<b>> = <<a, b>>
        BY ShortTexts
    <3> QED BY <2>2, <3>2, <3>3, <3>4
  <2>7. DOMAIN two = 1 .. 2 /\ two[1] = a /\ two[2] = b /\ Len(two) = 2
    OBVIOUS
  <2>8. s # <<>>
    <3> HIDE DEF a, b, s
    <3>1. Blank \in Pieces
        BY DEF Pieces
    <3>2. Len(s) > 0
        BY <2>2, <2>3, <2>4, <3>1
    <3> QED BY <3>2
  <2> HIDE DEF a, b, s, tokens, two
  <2>9. DOMAIN keys = 1 .. 2 /\ keys[1] = k /\ keys[2] = l
    BY <2>5, <2>6, <2>7
  <2>10. t.keys = [i \in 1 .. 2 |-> t.keys[i]] /\ keys = [i \in 1 .. 2 |-> keys[i]]
    BY <1>1, <2>1, <2>9
  <2>11. Range(keys) = {k, l}
    <3> HIDE DEF keys, k, l
    <3> QED BY <2>9 DEF Range
  <2> HIDE DEF keys
  <2>12. keys = t.keys
    BY <2>9, <2>10
  <2> QED BY <1>2, <2>1, <2>6, <2>7, <2>8, <2>11, <2>12
<1> QED BY <1>1, <1>5, <1>6

\* What is read as a key or two is a trigger.
LEMMA ParsedIsTrigger ==
    ASSUME NEW A, NEW s \in Seq(A), ParseKey(s) # Invalid
    PROVE  ParseKey(s) \in Triggers /\ ParseKey(s).kind # "count"
<1> DEFINE tokens == SplitPieces(s, Blank)
           keys == [i \in DOMAIN tokens |-> ParseSingle(tokens[i])]
<1>1. ParseKey(s) = IF s = <<>> \/ Len(tokens) > 2 \/ Invalid \in Range(keys) THEN Invalid
                    ELSE [kind |-> IF Len(keys) = 1 THEN "key" ELSE "seq", keys |-> keys]
    BY DEF ParseKey
<1>2. tokens \in Seq(Seq(A)) /\ Len(tokens) >= 1
  <2>1. PICK f : Cuts(s, Blank, f)
    BY SplitUnfolds
  <2> DEFINE n == Len(s)
  <2>2. n \in 0 .. Len(s)
    OBVIOUS
  <2>3. IsParts(A, f[n])
    <3> HIDE DEF n
    <3> QED BY <2>1, <2>2, SplitGivesParts
  <2> QED BY <2>1, <2>3 DEF IsParts, Cuts
<1>3. \A token : ParseSingle(token) \in KeyEvents \cup {Invalid}
  <2>1. \A ms, key : ModifiedKey(ms, key) \in KeyEvents \cup {Invalid}
    <3> SUFFICES ASSUME NEW ms, NEW key,
                        \A m \in Range(ms) : m \in {<<"ctrl">>, <<"alt">>},
                        key[1] \in NamedKey \cup CharKey
                 PROVE  KeyEv(key[1], UNION {Range(m) : m \in Range(ms)}) \in KeyEvents
        BY DEF ModifiedKey
    <3>1. Range(<<"ctrl">>) = {"ctrl"} /\ Range(<<"alt">>) = {"alt"}
        BY DEF Range
    <3>2. \A m \in Range(ms) : Range(m) \subseteq {"ctrl", "alt"}
        BY <3>1
    <3>3. UNION {Range(m) : m \in Range(ms)} \in SUBSET {"ctrl", "alt"}
        BY <3>2
    <3> QED BY <3>3 DEF KeyEv, KeyEvents
  <2>2. KeyEv("+", {}) \in KeyEvents
    BY DEF KeyEv, KeyEvents, CharKey
  <2> QED BY <2>1, <2>2 DEF ParseSingle
<1>4. ~(Len(tokens) > 2) /\ Invalid \notin Range(keys)
    BY <1>1
<1> DEFINE n == Len(tokens)
<1>5. n \in 1 .. 2 /\ DOMAIN tokens = 1 .. n /\ DOMAIN keys = 1 .. n
  <2> HIDE DEF tokens
  <2>1. n \in Nat /\ n >= 1 /\ DOMAIN tokens = 1 .. n
    BY <1>2
  <2>2. DOMAIN keys = DOMAIN tokens
    OBVIOUS
  <2>3. ~(n > 2)
    BY <1>4
  <2> QED BY <2>1, <2>2, <2>3
<1> HIDE DEF tokens, n
<1>6. \A i \in 1 .. n : keys[i] \in KeyEvents \cup {Invalid}
    BY <1>3, <1>5
<1>7. keys = [i \in 1 .. n |-> keys[i]]
    BY <1>5
<1> HIDE DEF keys
<1>8. \A i \in 1 .. n : keys[i] \in KeyEvents
    BY <1>4, <1>5, <1>6 DEF Range
<1>9. keys \in Seq(KeyEvents) /\ Len(keys) = n
    BY <1>5, <1>7, <1>8
<1>10. ParseKey(s) = [kind |-> IF n = 1 THEN "key" ELSE "seq", keys |-> keys]
    BY <1>1, <1>9
<1> QED BY <1>5, <1>9, <1>10 DEF Triggers

\* The loop that reads a number, digit by digit.
DecimalRound(s, unused, i, n) == 10 * n + s[i]
Reading == INSTANCE FoldFacts WITH Op <- DecimalRound, Good <- IsCount, Pick <- Max

Reads(s, f) ==
    /\ f[0] = 0
    /\ \A i \in 1 .. Len(s) : f[i] = 10 * f[i - 1] + s[i]
    /\ f[Len(s)] = Decimal(s)

LEMMA DecimalUnfolds ==
    ASSUME NEW A, NEW s \in Seq(A)
    PROVE  \E f : Reads(s, f)
<1> DEFINE D == DOMAIN s
           n == Len(s)
           zero == 0
           none == {}
<1>1. Decimal(s) = Reading!Fold(s, none, zero, D)
    BY DEF Decimal, FoldLeft, Reading!Fold, MapThenFoldSet, Reading!MapThenFoldSet, DecimalRound
<1>2. n \in Nat /\ D = 1 .. n /\ n = Len(s)
    OBVIOUS
<1> HIDE DEF D, n
<1>3. Reading!IsFiniteSet(D) /\ Reading!PicksFrom(D) /\ \A i \in 1 .. n : Max(1 .. i) = i
  <2>1. IsFiniteSet(D) /\ (\A t \in SUBSET D : t # {} => Max(t) \in t) /\ \A i \in 1 .. n : Max(1 .. i) = i
    BY <1>2, LastPosition
  <2> QED BY <2>1 DEF IsFiniteSet, Reading!IsFiniteSet, Reading!PicksFrom
<1>4. PICK f : Reading!Steps(s, none, zero, n, D, f)
  <2> HIDE DEF none, zero
  <2> QED BY <1>2, <1>3, Reading!FoldByPosition
<1>5. Reads(s, f)
    BY <1>1, <1>2, <1>4 DEF Reads, DecimalRound, Reading!Steps
<1> QED BY <1>5

\* A number, with one more digit.
LEMMA OneMoreDigit ==
    ASSUME NEW s \in Seq(Nat), NEW d \in Nat
    PROVE  Decimal(s) \in Nat /\ Decimal(Append(s, d)) = 10 * Decimal(s) + d
<1> DEFINE w == Append(s, d)
           n == Len(s)
<1>1. w \in Seq(Nat) /\ Len(w) = n + 1 /\ n \in Nat /\ w[n + 1] = d /\ \A i \in 1 .. n : w[i] = s[i]
    OBVIOUS
<1>2. PICK f : Reads(s, f)
    BY DecimalUnfolds
<1>3. PICK g : Reads(w, g)
  <2> HIDE DEF w
  <2> QED BY <1>1, DecimalUnfolds
<1> HIDE DEF w
<1> DEFINE T == {i \in 0 .. n : f[i] \in Nat /\ g[i] = f[i]}
<1>4. 0 \in T
    BY <1>1, <1>2, <1>3 DEF Reads
<1>5. \A i \in 0 .. (n - 1) : i \in T => i + 1 \in T
  <2> SUFFICES ASSUME NEW i \in 0 .. (n - 1), f[i] \in Nat, g[i] = f[i]
               PROVE  f[i + 1] \in Nat /\ g[i + 1] = f[i + 1]
    BY <1>1
  <2> DEFINE j == i + 1
  <2>1. j \in 1 .. Len(s) /\ j \in 1 .. Len(w) /\ j - 1 = i /\ w[j] = s[j] /\ s[j] \in Nat
    BY <1>1
  <2> HIDE DEF j
  <2>2. f[j] = 10 * f[i] + s[j] /\ g[j] = 10 * g[i] + w[j]
    BY <1>2, <1>3, <2>1 DEF Reads
  <2>3. f[j] \in Nat /\ g[j] = f[j]
    BY <2>1, <2>2
  <2> QED BY <2>3 DEF j
<1>6. 0 .. n \subseteq T
  <2>1. n \in Nat
    BY <1>1
  <2> HIDE DEF T, n
  <2> QED BY <2>1, <1>4, <1>5, UpTo
<1>7. f[n] \in Nat /\ g[n] = f[n]
    BY <1>1, <1>6
<1>8. g[n + 1] = 10 * g[n] + d
  <2> DEFINE j == n + 1
  <2>1. j \in 1 .. Len(w) /\ j - 1 = n /\ w[j] = d
    BY <1>1
  <2> HIDE DEF j
  <2>2. g[j] = 10 * g[n] + w[j]
    BY <1>3, <2>1 DEF Reads
  <2> QED BY <2>1, <2>2 DEF j
<1>9. Decimal(s) = f[n] /\ Decimal(w) = g[n + 1]
    BY <1>1, <1>2, <1>3 DEF Reads
<1> QED BY <1>7, <1>8, <1>9 DEF w

\* A digit is a number.
LEMMA DigitIsNumber == \A code : DigitOf(code) \in Nat
<1> SUFFICES ASSUME NEW code PROVE DigitOf(code) \in Nat
    OBVIOUS
<1> DEFINE found == {i \in 1 .. Len(DigitKeys) : DigitKeys[i] = code}
           one == 1
           nine == 9
<1>1. Len(DigitKeys) = 9
    BY DEF DigitKeys
<1>2. DigitOf(code) = IF code = "0" THEN 0 ELSE IF found # {} THEN Min(found) ELSE 0
    BY DEF DigitOf, SelectInSeq
<1>3. one \in Int /\ nine \in Int /\ found \in SUBSET (one .. nine)
    BY <1>1
<1>4. found # {} => Min(found) \in found
  <2> HIDE DEF found, one, nine
  <2> QED BY <1>3, Extremes
<1>5. found # {} => Min(found) \in Nat
    BY <1>3, <1>4
<1> HIDE DEF found
<1> QED BY <1>2, <1>5

\* The count keeps to the digits that are typed.
LEMMA CountKeepsUp ==
    ASSUME typed \in Seq(Nat), CountIsTyped, NEW d \in Nat
    PROVE  LET w == Append(typed, d) IN
           w \in Seq(Nat) /\ w # <<>>
           /\ Accumulate(pending.count, d) = IF Decimal(w) > 65535 THEN 65535 ELSE Decimal(w)
<1> DEFINE w == Append(typed, d)
           n == Decimal(typed)
<1>1. w \in Seq(Nat) /\ w # <<>>
  <2>1. w \in Seq(Nat) /\ Len(w) = Len(typed) + 1 /\ Len(typed) \in Nat
    OBVIOUS
  <2>2. Len(w) # 0 /\ Len(<<>>) = 0
    BY <2>1
  <2> QED BY <2>1, <2>2
<1>2. n \in Nat /\ Decimal(w) = 10 * n + d
    BY OneMoreDigit
<1>3. CASE typed = <<>>
  <2>1. n = 0
    <3>1. PICK f : Reads(typed, f)
        BY DecimalUnfolds
    <3>2. Len(typed) = 0
        BY <1>3
    <3> QED BY <3>1, <3>2 DEF Reads
  <2>2. pending.count = -1
    BY <1>3 DEF CountIsTyped, NoCount
  <2> HIDE DEF n, w
  <2> QED BY <1>1, <1>2, <2>1, <2>2 DEF Accumulate, NoCount, w
<1>4. CASE typed # <<>>
  <2>1. pending.count = IF n > 65535 THEN 65535 ELSE n
    BY <1>4 DEF CountIsTyped
  <2> HIDE DEF n, w
  <2> QED BY <1>1, <1>2, <2>1 DEF Accumulate, NoCount, w
<1> QED BY <1>3, <1>4

----------------------------------------------------------------------------
\* Each tab command has its place in the map.
RowsAreOrdered ==
    /\ rowPlace \in [TabCommand -> 1 .. 3]
    /\ \A c, d \in TabCommand : c # d => rowPlace[c] # rowPlace[d]
\* A patch cannot name a count, so it stays with the jump to a tab.
OnlyJumpsCount ==
    \A c \in Command : \A i \in DOMAIN bind[c] : bind[c][i].kind = "count" => c = "JumpToTab"

\* The bindings are triggers, a sequence that is under way is one key long, and
\* the count is what was typed.
KeymapInv ==
    /\ OthersAreDefault
    /\ \A c \in Command : bind[c] \in Seq(Triggers)
    /\ OnlyJumpsCount /\ RowsAreOrdered
    /\ todo \in Seq(Range(patch.slots))
    /\ pending = [prefix |-> pending.prefix, count |-> pending.count]
    /\ pending.prefix = <<>> \/ (stage = "ready" /\ \E ev \in Strokes : pending.prefix = <<ev>>)
    /\ typed \in Seq(Nat) /\ CountIsTyped
    /\ PaletteTells

\* Key events that a key matches, match each other.
LEMMA KeysMatch ==
    ASSUME NEW k, NEW ev, KeyEq(k, ev)
    PROVE  KeyEq(ev, k) /\ \A l : KeyEq(l, k) <=> KeyEq(l, ev)
BY DEF KeyEq

\* The sequences of the tab commands are of two keys.
LEMMA ChordsAreOfTwo ==
    ASSUME KeymapInv, NEW s \in TabChords
    PROVE  /\ s = <<s[1], s[2], s[3]>> /\ s[1] \in TabCommand /\ s[2] \in {"seq", "count"}
           /\ s[3] \in Seq(KeyEvents) /\ Len(s[3]) = 2
           /\ \E i \in DOMAIN bind[s[1]] : bind[s[1]][i].kind = s[2] /\ bind[s[1]][i].keys = s[3]
<1>1. PICK c \in TabCommand : s \in ChordsOf(c)
    BY DEF TabChords
<1>2. PICK t \in Range(bind[c]) : t.kind # "key" /\ s = <<c, t.kind, t.keys>>
    BY <1>1 DEF ChordsOf
<1>3. c \in Command /\ bind[c] \in Seq(Triggers)
    BY DEF KeymapInv, Command, TabCommand
<1>4. PICK i \in DOMAIN bind[c] : t = bind[c][i]
    BY DEF Range
<1>5. t \in Triggers
    BY <1>3, <1>4
<1>6. t.kind \in {"seq", "count"} /\ t.keys \in Seq(KeyEvents) /\ Len(t.keys) = 2
    BY <1>2, <1>5 DEF Triggers
<1>7. s[1] = c /\ s[2] = t.kind /\ s[3] = t.keys
    BY <1>2
<1> QED BY <1>2, <1>4, <1>6, <1>7

\* In use, a sequence belongs to one tab command.
LEMMA OneCommandOfChord ==
    ASSUME KeymapInv, UniqueKeys, stage = "ready", NEW s \in TabChords, NEW u \in TabChords,
           s[2] = u[2], SeqEq(s[3], u[3])
    PROVE  s[1] = u[1]
<1> SUFFICES ASSUME s[1] # u[1] PROVE FALSE
    OBVIOUS
<1> DEFINE c == s[1]
           d == u[1]
<1>1. PICK i \in DOMAIN bind[c] : bind[c][i].kind = s[2] /\ bind[c][i].keys = s[3]
    BY ChordsAreOfTwo
<1>2. PICK j \in DOMAIN bind[d] : bind[d][j].kind = u[2] /\ bind[d][j].keys = u[3]
    BY ChordsAreOfTwo
<1>3. c \in TabCommand /\ d \in TabCommand
    BY ChordsAreOfTwo
<1> HIDE DEF c, d
<1>4. "tree" \in ContextsOf(c) /\ "tree" \in ContextsOf(d) /\ c \in Command /\ d \in Command
  <2>1. ASSUME NEW e \in TabCommand PROVE "tree" \in ContextsOf(e) /\ e \in Command
    <3>1. e # "Quit"
        BY DEF TabCommand
    <3>2. ContextsOf(e) = WorkspaceCtx
        BY <3>1 DEF ContextsOf, TabCommand, BulkCommand, SearchCommand
    <3> QED BY <3>2 DEF WorkspaceCtx, Command
  <2> QED BY <1>3, <2>1
<1>5. TriggersConflict(bind[c][i], bind[d][j])
    BY <1>1, <1>2 DEF TriggersConflict
<1>6. c # d
    BY DEF c, d
<1>7. Clash(bind, c, d)
    BY <1>4, <1>5, <1>6 DEF Clash
<1> QED BY <1>4, <1>7 DEF UniqueKeys, Conflicting

\* A count belongs to the jump to a tab.
LEMMA CountsAreJumps ==
    ASSUME KeymapInv, NEW s \in TabChords, s[2] = "count"
    PROVE  s[1] = "JumpToTab"
<1>1. PICK i \in DOMAIN bind[s[1]] : bind[s[1]][i].kind = "count"
    BY ChordsAreOfTwo
<1>2. s[1] \in Command
    BY ChordsAreOfTwo DEF TabCommand, Command
<1> QED BY <1>1, <1>2 DEF KeymapInv, OnlyJumpsCount

\* A key that a sequence begins with may stand for the key that was pressed.
LEMMA SameChord ==
    ASSUME NEW a \in Seq(KeyEvents), NEW b, NEW ev, Len(a) = 2, KeyEq(a[1], ev), b = <<ev, a[2]>>,
           NEW l \in Seq(KeyEvents)
    PROVE  SeqEq(l, b) <=> SeqEq(l, a)
<1>1. Len(b) = 2 /\ b[1] = ev /\ b[2] = a[2] /\ DOMAIN l = 1 .. Len(l)
    OBVIOUS
<1>2. \A k : KeyEq(k, a[1]) <=> KeyEq(k, ev)
    BY KeysMatch
<1>3. Len(l) = 2 => (SeqEq(l, b) <=> KeyEq(l[1], ev) /\ KeyEq(l[2], a[2]))
  <2>1. Len(l) = 2 => DOMAIN l = {1, 2}
    OBVIOUS
  <2> QED BY <1>1, <2>1 DEF SeqEq
<1>4. Len(l) = 2 => (SeqEq(l, a) <=> KeyEq(l[1], a[1]) /\ KeyEq(l[2], a[2]))
  <2>1. Len(l) = 2 => DOMAIN l = {1, 2}
    OBVIOUS
  <2> QED BY <1>1, <2>1 DEF SeqEq
<1>5. Len(l) # 2 => ~SeqEq(l, a) /\ ~SeqEq(l, b)
    BY <1>1 DEF SeqEq
<1> QED BY <1>2, <1>3, <1>4, <1>5

\* Of some tab commands one has the first rows of the map.
LEMMA OneIsFirst ==
    ASSUME RowsAreOrdered, NEW C \in SUBSET TabCommand, C # {}
    PROVE  \E c \in C : \A d \in C : rowPlace[c] <= rowPlace[d]
<1>1. \A c \in C : rowPlace[c] \in 1 .. 3
    BY DEF RowsAreOrdered
<1>2. CASE \E c \in C : rowPlace[c] = 1
    BY <1>1, <1>2
<1>3. CASE (\A c \in C : rowPlace[c] # 1) /\ \E c \in C : rowPlace[c] = 2
    BY <1>1, <1>3
<1>4. CASE \A c \in C : rowPlace[c] # 1 /\ rowPlace[c] # 2
    BY <1>1, <1>4
<1> QED BY <1>2, <1>3, <1>4

\* A command whose rows are pushed has the last ones (rebind, restore).
LEMMA PushKeepsOrder ==
    ASSUME RowsAreOrdered, NEW c
    PROVE  /\ RowsPushed(c) \in [TabCommand -> 1 .. 3]
           /\ \A d, e \in TabCommand : d # e => RowsPushed(c)[d] # RowsPushed(c)[e]
<1>1. CASE c \notin TabCommand
    BY <1>1 DEF RowsPushed, RowsAreOrdered
<1>2. CASE c \in TabCommand
  <2>1. Cardinality(TabCommand) = 3
    <3>1. TabCommand = ({"NextTab"} \cup {"PrevTab"}) \cup {"JumpToTab"}
        BY DEF TabCommand
    <3>2. IsFiniteSet({"NextTab"}) /\ Cardinality({"NextTab"}) = 1
        BY FS_Singleton
    <3>3. IsFiniteSet({"NextTab"} \cup {"PrevTab"}) /\ Cardinality({"NextTab"} \cup {"PrevTab"}) = 2
        BY <3>2, FS_AddElement
    <3>4. Cardinality(({"NextTab"} \cup {"PrevTab"}) \cup {"JumpToTab"}) = 3
        BY <3>3, FS_AddElement
    <3> QED BY <3>1, <3>4
  <2>2. \A d \in TabCommand : rowPlace[d] \in 1 .. 3
    BY DEF RowsAreOrdered
  <2>3. \A d \in TabCommand : RowsPushed(c)[d] = IF d = c THEN 3 ELSE IF rowPlace[d] > rowPlace[c] THEN rowPlace[d] - 1 ELSE rowPlace[d]
    BY <1>2, <2>1 DEF RowsPushed
  <2>4. \A d, e \in TabCommand : d # e => rowPlace[d] # rowPlace[e]
    BY DEF RowsAreOrdered
  <2>5. \A d \in TabCommand : RowsPushed(c)[d] \in 1 .. 3
    BY <1>2, <2>2, <2>3, <2>4
  <2>6. DOMAIN RowsPushed(c) = TabCommand /\ RowsPushed(c) = [d \in TabCommand |-> RowsPushed(c)[d]]
    BY <1>2 DEF RowsPushed
  <2>7. ASSUME NEW d \in TabCommand, NEW e \in TabCommand, d # e PROVE RowsPushed(c)[d] # RowsPushed(c)[e]
    <3> DEFINE v == RowsPushed(c)[d]
               w == RowsPushed(c)[e]
               x == rowPlace[c]
               y == rowPlace[d]
               z == rowPlace[e]
    <3>1. v = (IF d = c THEN 3 ELSE IF y > x THEN y - 1 ELSE y) /\ w = (IF e = c THEN 3 ELSE IF z > x THEN z - 1 ELSE z)
        BY <2>3
    <3>2. x \in 1 .. 3 /\ y \in 1 .. 3 /\ z \in 1 .. 3
        BY <1>2, <2>2
    <3>3. (d # c => y # x) /\ (e # c => z # x) /\ y # z
        BY <1>2, <2>4, <2>7
    <3> HIDE DEF v, w, x, y, z
    <3>4. v # w
        BY <2>7, <3>1, <3>2, <3>3
    <3> QED BY <3>4 DEF v, w
  <2> QED BY <2>5, <2>6, <2>7
<1> QED BY <1>1, <1>2

\* A row that continues a chord, and the keys its next key completes.
LEMMA RowCompletes ==
    ASSUME KeymapInv, NEW u \in ContinuingRows, NEW row, row = <<u[3][2], u[1]>>
    PROVE  /\ u \in TabChords /\ stage = "ready" /\ SeqEq(u[3], u[3])
           /\ \A x \in TabChords :
                 (SeqEq(x[3], Append(pending.prefix, row[1])) <=> SeqEq(x[3], u[3]))
           /\ \A x \in TabChords : SeqEq(x[3], u[3]) => x \in ContinuingRows /\ KeyEq(x[3][2], u[3][2])
<1>1. u \in TabChords /\ pending.prefix # <<>> /\ KeyEq(u[3][1], pending.prefix[1])
    BY DEF ContinuingRows
<1>2. PICK ev \in Strokes : pending.prefix = <<ev>>
    BY <1>1 DEF KeymapInv
<1>3. stage = "ready"
    BY <1>1 DEF KeymapInv
<1>4. u[3] \in Seq(KeyEvents) /\ Len(u[3]) = 2
    BY <1>1, ChordsAreOfTwo
<1> DEFINE b == Append(pending.prefix, row[1])
           a == u[3]
<1>5. b = <<ev, a[2]>>
  <2>1. row[1] = a[2]
    OBVIOUS
  <2>2. Append(<<ev>>, a[2]) = <<ev, a[2]>>
    BY AppendToOne
  <2> QED BY <1>2, <2>1, <2>2
<1>6. KeyEq(a[1], ev)
    BY <1>1, <1>2
<1>7. ASSUME NEW x \in TabChords PROVE SeqEq(x[3], b) <=> SeqEq(x[3], a)
  <2> DEFINE l == x[3]
  <2>1. l \in Seq(KeyEvents)
    BY ChordsAreOfTwo
  <2> HIDE DEF a, b, l
  <2>2. SeqEq(l, b) <=> SeqEq(l, a)
    BY <1>4, <1>5, <1>6, <2>1, SameChord DEF a
  <2> QED BY <2>2 DEF l
<1>8. ASSUME NEW x \in TabChords, SeqEq(x[3], a) PROVE x \in ContinuingRows /\ KeyEq(x[3][2], a[2])
  <2>1. Len(x[3]) = 2 /\ x[3] \in Seq(KeyEvents)
    BY ChordsAreOfTwo
  <2>2. KeyEq(x[3][1], a[1]) /\ KeyEq(x[3][2], a[2])
    BY <1>8, <2>1 DEF SeqEq
  <2>3. KeyEq(x[3][1], ev)
    BY <1>6, <2>2, KeysMatch
  <2> QED BY <1>1, <1>2, <2>2, <2>3 DEF ContinuingRows
<1>9. SeqEq(a, a)
    BY DEF SeqEq, KeyEq
<1> QED BY <1>1, <1>3, <1>7, <1>8, <1>9

\* The row of the first command that has a next key is the only one of the key.
LEMMA OneRowForAKey ==
    ASSUME KeymapInv, NEW s \in ContinuingRows
    PROVE  \E row \in Continuations :
              /\ KeyEq(row[1], s[3][2])
              /\ \A rival \in Continuations : KeyEq(rival[1], s[3][2]) => rival[2] = row[2]
<1> DEFINE C == {x[1] : x \in {v \in ContinuingRows : KeyEq(v[3][2], s[3][2])}}
<1>1. \A x \in ContinuingRows : x \in TabChords
    BY DEF ContinuingRows
<1>2. \A x \in ContinuingRows : x[1] \in TabCommand
    BY <1>1, ChordsAreOfTwo
<1>3. C \in SUBSET TabCommand /\ C # {}
  <2>1. KeyEq(s[3][2], s[3][2])
    BY DEF KeyEq
  <2> QED BY <1>2, <2>1
<1>4. PICK c \in C : \A d \in C : rowPlace[c] <= rowPlace[d]
  <2> HIDE DEF C
  <2> QED BY <1>3, OneIsFirst DEF KeymapInv
<1>5. PICK u \in ContinuingRows : KeyEq(u[3][2], s[3][2]) /\ u[1] = c
    BY <1>4
<1> DEFINE row == <<u[3][2], u[1]>>
<1>6. row \in Continuations
  <2>1. ASSUME NEW v \in ContinuingRows, KeyEq(v[3][2], u[3][2]) PROVE rowPlace[u[1]] <= rowPlace[v[1]]
    <3>1. KeyEq(v[3][2], s[3][2])
        BY <1>5, <2>1, KeysMatch
    <3>2. v[1] \in C
        BY <3>1
    <3> QED BY <1>4, <1>5, <3>2
  <2> QED BY <2>1 DEF Continuations
<1>7. ASSUME NEW rival \in Continuations, KeyEq(rival[1], s[3][2]) PROVE rival[2] = c
  <2>1. PICK v \in ContinuingRows : /\ rival = <<v[3][2], v[1]>>
                                    /\ \A w \in ContinuingRows : KeyEq(w[3][2], v[3][2]) => rowPlace[v[1]] <= rowPlace[w[1]]
    BY DEF Continuations
  <2>2. rival[1] = v[3][2] /\ rival[2] = v[1]
    BY <2>1
  <2>3. KeyEq(v[3][2], s[3][2])
    BY <1>7, <2>2
  <2>4. v[1] \in C
    BY <2>3
  <2>5. KeyEq(u[3][2], v[3][2])
    BY <1>5, <2>3, KeysMatch
  <2>6. rowPlace[v[1]] <= rowPlace[c]
    BY <1>5, <2>1, <2>5
  <2>7. rowPlace[c] <= rowPlace[v[1]]
    BY <1>4, <2>4
  <2>8. v[1] \in TabCommand /\ c \in TabCommand
    BY <1>2, <1>5
  <2>9. \A d \in TabCommand : rowPlace[d] \in 1 .. 3
    BY DEF KeymapInv, RowsAreOrdered
  <2>10. rowPlace[v[1]] = rowPlace[c]
    BY <2>6, <2>7, <2>8, <2>9
  <2> QED BY <2>2, <2>8, <2>10 DEF KeymapInv, RowsAreOrdered
<1>8. row[2] = c /\ KeyEq(row[1], s[3][2])
    BY <1>5
<1> QED BY <1>6, <1>7, <1>8

\* The commands of kind that a text of keys completes.
FiredBy(kind, keys) == {s[1] : s \in {x \in TabChords : x[2] = kind /\ SeqEq(x[3], keys)}}

LEMMA CompletedIsFired ==
    ASSUME NEW keys
    PROVE  /\ CompletedCommand(keys, NoCount) =
                IF FiredBy("seq", keys) # {} THEN FiredBy("seq", keys) ELSE FiredBy("count", keys)
           /\ CompletedCommand(keys, 1) =
                IF FiredBy("count", keys) # {} THEN FiredBy("count", keys) ELSE FiredBy("seq", keys)
BY DEF CompletedCommand, FiredBy, NoCount

\* A row of the menu names what its key fires, without a count or with one.
LEMMA RowFires ==
    ASSUME KeymapInv, NEW row \in Continuations
    PROVE  \E n \in {NoCount, 1} : row[2] \in CompletedCommand(Append(pending.prefix, row[1]), n)
<1>1. PICK u \in ContinuingRows : row = <<u[3][2], u[1]>>
    BY DEF Continuations
<1> DEFINE b == Append(pending.prefix, row[1])
<1>2. u \in TabChords /\ SeqEq(u[3], u[3]) /\ (SeqEq(u[3], b) <=> SeqEq(u[3], u[3]))
    BY <1>1, RowCompletes
<1>3. row[2] = u[1] /\ u[2] \in {"seq", "count"}
    BY <1>1, <1>2, ChordsAreOfTwo
<1> HIDE DEF b
<1>4. u[1] \in FiredBy(u[2], b)
    BY <1>2 DEF FiredBy
<1>5. CASE u[2] = "seq"
    BY <1>3, <1>4, <1>5, CompletedIsFired DEF b
<1>6. CASE u[2] = "count"
    BY <1>3, <1>4, <1>6, CompletedIsFired DEF b
<1> QED BY <1>3, <1>5, <1>6

\* While no motion is behind the count, the menu tells what a key completes.
LEMMA MenuTells ==
    ASSUME KeymapInv, UniqueKeys, \A c \in TabCommand : rowPlace[c] <= rowPlace["JumpToTab"]
    PROVE  WhichKeyTells
<1> SUFFICES ASSUME NEW row \in Continuations
             PROVE  CompletedCommand(Append(pending.prefix, row[1]), NoCount) = {row[2]}
    BY DEF WhichKeyTells
<1>1. PICK u \in ContinuingRows : /\ row = <<u[3][2], u[1]>>
                                  /\ \A v \in ContinuingRows : KeyEq(v[3][2], u[3][2]) => rowPlace[u[1]] <= rowPlace[v[1]]
    BY DEF Continuations
<1> DEFINE b == Append(pending.prefix, row[1])
           a == u[3]
<1>2. /\ u \in TabChords /\ stage = "ready" /\ SeqEq(a, a)
      /\ \A x \in TabChords : (SeqEq(x[3], b) <=> SeqEq(x[3], a))
      /\ \A x \in TabChords : SeqEq(x[3], a) => x \in ContinuingRows /\ KeyEq(x[3][2], a[2])
    BY <1>1, RowCompletes
<1>3. \A kind : FiredBy(kind, b) = FiredBy(kind, a)
  <2> HIDE DEF a, b
  <2> QED BY <1>2 DEF FiredBy
<1>4. CompletedCommand(b, NoCount) = IF FiredBy("seq", a) # {} THEN FiredBy("seq", a) ELSE FiredBy("count", a)
  <2> HIDE DEF a, b
  <2> QED BY <1>3, CompletedIsFired
<1>5. row[2] = u[1] /\ u[2] \in {"seq", "count"} /\ u[1] \in TabCommand
    BY <1>1, <1>2, ChordsAreOfTwo
<1>6. ASSUME NEW x \in TabChords, SeqEq(x[3], a), x[2] = "seq" PROVE x[1] = u[1]
  <2>1. CASE u[2] = "seq"
    <3>1. SeqEq(u[3], x[3])
        BY <1>6, KeysMatch DEF SeqEq, KeyEq
    <3> QED BY <1>2, <1>6, <2>1, <3>1, OneCommandOfChord
  <2>2. CASE u[2] = "count"
    <3>1. u[1] = "JumpToTab"
        BY <1>2, <2>2, CountsAreJumps
    <3>2. x \in ContinuingRows /\ KeyEq(x[3][2], a[2])
        BY <1>2, <1>6
    <3>3. rowPlace[u[1]] <= rowPlace[x[1]]
        BY <1>1, <3>2
    <3>4. x[1] \in TabCommand
        BY ChordsAreOfTwo
    <3>5. \A d \in TabCommand : rowPlace[d] \in 1 .. 3
        BY DEF KeymapInv, RowsAreOrdered
    <3>6. rowPlace[x[1]] = rowPlace[u[1]]
        BY <1>5, <3>1, <3>3, <3>4, <3>5
    <3> QED BY <1>5, <3>4, <3>6 DEF KeymapInv, RowsAreOrdered
  <2> QED BY <1>5, <2>1, <2>2
<1>7. CASE FiredBy("seq", a) # {}
  <2>1. FiredBy("seq", a) = {u[1]}
    BY <1>6, <1>7 DEF FiredBy
  <2> QED BY <1>4, <1>5, <1>7, <2>1
<1>8. CASE FiredBy("seq", a) = {}
  <2>1. u[2] = "count"
    BY <1>2, <1>5, <1>8 DEF FiredBy
  <2>2. u[1] \in FiredBy("count", a)
    BY <1>2, <2>1 DEF FiredBy
  <2>3. \A x \in TabChords : x[2] = "count" => x[1] = "JumpToTab"
    BY CountsAreJumps
  <2>4. FiredBy("count", a) = {u[1]}
    BY <1>2, <2>1, <2>2, <2>3 DEF FiredBy
  <2> QED BY <1>4, <1>5, <1>8, <2>4
<1> QED BY <1>7, <1>8

\* The which-key menu with any patch (continuations).
LEMMA MenuHolds == KeymapInv /\ UniqueKeys => MenuIsFair
BY OneRowForAKey, RowFires, MenuTells DEF MenuIsFair

\* Another command of a context that a key has here does not match it.
LEMMA OthersDoNotMatch ==
    ASSUME KeymapInv, UniqueKeys, stage = "ready", NEW c \in Command, NEW d \in Command, c # d,
           ContextsOf(c) \cap ContextsOf(d) # {},
           NEW i \in DOMAIN bind[c], bind[c][i].kind = "key"
    PROVE  ~ Matches(d, bind[c][i].keys[1])
<1> SUFFICES ASSUME Matches(d, bind[c][i].keys[1]) PROVE FALSE
    OBVIOUS
<1>1. PICK j \in DOMAIN bind[d] : bind[d][j].kind = "key" /\ KeyEq(bind[d][j].keys[1], bind[c][i].keys[1])
    BY DEF Matches
<1>2. bind[c][i] \in Triggers /\ bind[d][j] \in Triggers
    BY DEF KeymapInv
<1> DEFINE a == bind[c][i].keys
           b == bind[d][j].keys
<1>3. a \in Seq(KeyEvents) /\ b \in Seq(KeyEvents) /\ Len(a) = 1 /\ Len(b) = 1
    BY <1>1, <1>2 DEF Triggers
<1>4. KeyEq(a[1], b[1])
    BY <1>1, KeysMatch
<1>5. SeqEq(a, b)
  <2> HIDE DEF a, b
  <2>1. \A n \in DOMAIN a : n = 1
    BY <1>3
  <2> QED BY <1>3, <1>4, <2>1 DEF SeqEq
<1>6. TriggersConflict(bind[c][i], bind[d][j])
    BY <1>1, <1>5 DEF TriggersConflict
<1>7. Clash(bind, c, d)
    BY <1>6 DEF Clash
<1> QED BY <1>7 DEF UniqueKeys, Conflicting

\* A command of the hint bar shares a context with each command it is listed with.
Rivals == SecretsCommand \cup {"FocusPane", "JumpBack", "JumpForward"} \cup NavCommand

LEMMA HintsHaveRivals ==
    ASSUME NEW c \in QuickBar, NEW d \in Rivals
    PROVE  c \in Command /\ d \in Command /\ ContextsOf(c) \cap ContextsOf(d) # {}
<1>1. c \in Command /\ d \in Command
    BY DEF QuickBar, Rivals, Command, NavCommand, SecretsCommand, EntryCommand, BulkCommand
<1>2. "tree" \in ContextsOf(c) /\ "detail" \in ContextsOf(c)
  <2>1. CASE c \in {"Next", "Prev"}
    BY <2>1 DEF ContextsOf, TabCommand, WorkspaceCtx, BulkCommand, SearchCommand
  <2>2. CASE c \in {"Search", "AddEntry", "EditEntry", "CopyPassword"}
    BY <2>2 DEF ContextsOf, TabCommand, BulkCommand, SearchCommand, TreeDetail
  <2> QED BY <2>1, <2>2 DEF QuickBar
<1>3. "tree" \in ContextsOf(d) \/ "detail" \in ContextsOf(d)
  <2>1. CASE d \in {"Next", "Prev"}
    BY <2>1 DEF ContextsOf, TabCommand, WorkspaceCtx, BulkCommand, SearchCommand
  <2>2. CASE d \in {"Cancel", "Confirm"}
    BY <2>2 DEF ContextsOf, TabCommand, BulkCommand, SearchCommand
  <2>3. CASE d \in {"JumpBack", "RevealPassword", "History"}
    BY <2>3 DEF ContextsOf, TabCommand, TreeDetail, BulkCommand, SearchCommand
  <2>4. CASE d \in BulkCommand \cup {"JumpForward", "VisualMode"}
    BY <2>4 DEF ContextsOf, TabCommand, BulkCommand, SearchCommand
  <2>5. CASE d \in EntryCommand \cup {"Parent", "Child", "SortCycle", "Search", "AddEntry", "DeleteEntry", "Sync",
                                      "FocusPane"}
    BY <2>5 DEF ContextsOf, TabCommand, BulkCommand, SearchCommand, TreeDetail, EntryCommand
  <2> QED BY <2>1, <2>2, <2>3, <2>4, <2>5 DEF Rivals, SecretsCommand, NavCommand, EntryCommand, BulkCommand
<1> QED BY <1>1, <1>2, <1>3

\* The first key of a command of the hint bar fires it.
LEMMA HintsTell == KeymapInv /\ UniqueKeys => HintsFire
<1> SUFFICES ASSUME KeymapInv, UniqueKeys, stage = "ready", ctx \in WorkspaceCtx \cup {"unlock-list"},
                    NEW c \in QuickBar, ctx \in ContextsOf(c), bind[c] # <<>>,
                    bind[c][1].kind = "key", ~ (ctx = "tree" /\ bind[c][1].keys[1].code = "space")
             PROVE  Dispatch(bind[c][1].keys[1]) = {c}
    BY DEF HintsFire
<1> DEFINE k == bind[c][1].keys[1]
<1>1. c \in Command /\ 1 \in DOMAIN bind[c]
  <2>1. c \in Command
    BY DEF QuickBar, Command, NavCommand, SecretsCommand, EntryCommand
  <2>2. bind[c] \in Seq(Triggers)
    BY <2>1 DEF KeymapInv
  <2> QED BY <2>1, <2>2
<1>2. Matches(c, k)
    BY <1>1 DEF Matches, KeyEq
<1>3. \A d \in Rivals : d # c => ~ Matches(d, k)
    BY <1>1, HintsHaveRivals, OthersDoNotMatch
<1>4. ~ (ctx = "tree" /\ k.code = "space")
    OBVIOUS
<1> HIDE DEF k
<1> DEFINE Among(S) == {d \in S : Matches(d, k)}
<1>5. \A S \in SUBSET Rivals : Among(S) = IF c \in S THEN {c} ELSE {}
    BY <1>2, <1>3
<1>6. c \in NavCommand \/ c \in SecretsCommand
    BY DEF QuickBar, NavCommand, SecretsCommand, EntryCommand
<1>7. CASE ctx \in TreeDetail
  <2> DEFINE listed == SecretsCommand \cup {"FocusPane", "JumpBack"} \cup (IF ctx = "tree" THEN {"JumpForward"} ELSE {})
  <2>1. listed \in SUBSET Rivals /\ NavCommand \in SUBSET Rivals
    BY DEF Rivals
  <2>2. SecretsCommand \subseteq listed
    OBVIOUS
  <2>3. OnSecrets(k) = IF \E d \in listed : Matches(d, k) THEN Among(listed) ELSE Among(NavCommand)
    BY <1>4 DEF OnSecrets
  <2> HIDE DEF listed
  <2>4. OnSecrets(k) = {c}
    <3>1. CASE c \in listed
        BY <1>2, <1>5, <2>1, <2>3, <3>1
    <3>2. CASE c \notin listed
      <4>1. ~ \E d \in listed : Matches(d, k)
        BY <1>3, <2>1, <3>2
      <4>2. c \in NavCommand
        BY <1>6, <2>2, <3>2
      <4> QED BY <1>5, <2>1, <2>3, <4>1, <4>2
    <3> QED BY <3>1, <3>2
  <2>5. Dispatch(k) = OnSecrets(k)
    BY <1>7 DEF Dispatch, TreeDetail
  <2> QED BY <2>4, <2>5 DEF k
<1>8. CASE ctx \notin TreeDetail
  <2>1. c \in {"Next", "Prev"}
    BY <1>8 DEF ContextsOf, QuickBar, TabCommand, BulkCommand, SearchCommand
  <2>2. c \in NavCommand /\ NavCommand \in SUBSET Rivals
    BY <2>1 DEF NavCommand, Rivals
  <2>3. Among(NavCommand) = {c}
    BY <1>5, <2>2
  <2>4. CASE ctx = "pinned"
    <3> DEFINE listed == {"JumpBack", "RevealPassword", "History"}
    <3>1. listed \in SUBSET Rivals /\ c \notin listed
        BY <2>1 DEF Rivals, SecretsCommand, EntryCommand
    <3>2. OnPinned(k) = IF \E d \in listed : Matches(d, k) THEN Among(listed) ELSE Among(NavCommand)
        BY DEF OnPinned
    <3> HIDE DEF listed
    <3>3. ~ \E d \in listed : Matches(d, k)
        BY <1>3, <3>1
    <3>4. OnPinned(k) = {c}
        BY <2>3, <3>2, <3>3
    <3>5. Dispatch(k) = OnPinned(k)
        BY <1>8, <2>4 DEF Dispatch
    <3> QED BY <3>4, <3>5 DEF k
  <2>5. CASE ctx \in {"settings", "unlock-list"}
    <3>1. Dispatch(k) = Among(NavCommand)
        BY <1>8, <2>5 DEF Dispatch
    <3> QED BY <2>3, <3>1 DEF k
  <2> QED BY <1>8, <2>4, <2>5 DEF WorkspaceCtx, TreeDetail
<1> QED BY <1>7, <1>8

\* What the palette says of a command is what it does.
LEMMA PaletteIsRight ==
    ASSUME ctx \in WorkspaceCtx, NEW c \in Command, NEW a \in AppState
    PROVE  RowState(c, a) = (ctx \in ContextsOf(c) /\ Acts(c, a))
<1> DEFINE Needs == CASE c \in EntryCommand -> a.entry
                      [] c = "DeleteEntry" -> a.marks \/ a.entry
                      [] c \in BulkCommand -> a.marks
                      [] c \in {"RevealPassword", "History"} -> ctx = "pinned" \/ a.entry
                      [] c = "Sync" -> a.remote
                      [] OTHER -> TRUE
           Does == CASE c \in EntryCommand -> a.entry
                     [] c = "DeleteEntry" -> a.marks \/ a.entry
                     [] c \in BulkCommand -> a.marks
                     [] c = "RevealPassword" -> ctx = "pinned" \/ a.entry
                     [] c = "History" -> ctx = "pinned" \/ a.entry
                     [] c = "Sync" -> a.remote
                     [] c \in SearchCommand \cup {"Generate"} -> FALSE
                     [] OTHER -> TRUE
           Busy == a.syncing
           Ro == a.readOnly
           In == ctx \in ContextsOf(c)
           Ever == c \in DuringSync
           Alters == c \in RoCommand
<1>1. RowState(c, a) <=> In /\ (Busy => Ever) /\ ~ (Ro /\ Alters) /\ Needs
    BY DEF RowState, CommandState
<1>2. Acts(c, a) <=> ~ (Ro /\ Alters) /\ (Ever \/ ~ Busy) /\ Does
    BY DEF Acts
<1>3. In => (Needs <=> Does)
  <2>1. CASE c \in EntryCommand \cup {"DeleteEntry", "RevealPassword", "History", "Sync"} \cup BulkCommand
    BY <2>1 DEF EntryCommand, BulkCommand, SearchCommand
  <2>2. CASE c \in SearchCommand \cup {"Generate"}
    BY <2>2 DEF ContextsOf, TabCommand, BulkCommand, SearchCommand, WorkspaceCtx
  <2>3. CASE c \notin EntryCommand \cup {"DeleteEntry", "RevealPassword", "History", "Sync", "Generate"} \cup BulkCommand \cup SearchCommand
    BY <2>3 DEF EntryCommand, BulkCommand, SearchCommand
  <2> QED BY <2>1, <2>2, <2>3
<1> HIDE DEF Needs, Does, Busy, Ro, In, Ever, Alters
<1>4. RowState(c, a) \in BOOLEAN /\ Acts(c, a) \in BOOLEAN
    BY DEF RowState, Acts
<1>5. RowState(c, a) <=> (In /\ Acts(c, a))
    BY <1>1, <1>2, <1>3
<1> QED BY <1>4, <1>5 DEF In

LEMMA KeymapInvInit == KeymapInit => KeymapInv
<1> SUFFICES ASSUME KeymapInit PROVE KeymapInv
    OBVIOUS
<1>1. OthersAreDefault
    BY InitOthersAreDefault
<1>2. patch.preset \in {"vim", "plain"} /\ patch.slots \in Seq(Range(patch.slots))
    BY PresetAssumption DEF KeymapInit, IsText
<1>3. \A c \in Command : bind[c] \in Seq(Triggers)
    BY <1>2, PresetAssumption DEF KeymapInit
<1>4. pending = [prefix |-> <<>>, count |-> NoCount] /\ typed = <<>> /\ fired.by = "none"
    BY DEF KeymapInit, Fresh, NothingFired
<1>5. typed \in Seq(Nat) /\ CountIsTyped
    BY <1>4 DEF CountIsTyped
<1>6. OnlyJumpsCount
    BY <1>2, PresetAssumption DEF KeymapInit, OnlyJumpsCount
<1>7. RowsAreOrdered
    BY DEF KeymapInit, RowsAreOrdered, TabCommand
<1> QED BY <1>1, <1>2, <1>3, <1>4, <1>5, <1>6, <1>7 DEF KeymapInv, KeymapInit, PaletteTells

\* What a slot binds is a list of triggers (parse_bind_value).
LEMMA SlotGivesTriggers ==
    ASSUME KeymapInv, todo # <<>>, BindingIsValid(Head(todo).value)
    PROVE  /\ ParsedBinding(Head(todo).value) \in Seq(Triggers)
           /\ \A j \in DOMAIN ParsedBinding(Head(todo).value) : ParsedBinding(Head(todo).value)[j].kind # "count"
<1> DEFINE v == Head(todo).value
<1>1. Head(todo) \in Range(patch.slots) /\ patch \in Patches
    BY DEF KeymapInv, OthersAreDefault
<1>2. PICK i \in DOMAIN patch.slots : Head(todo) = patch.slots[i]
    BY <1>1 DEF Range
<1>3. v # <<"true">> /\ \A j \in DOMAIN v : ParseKey(v[j]) # Invalid
    BY DEF BindingIsValid
<1>4. v \in Seq(Range(v)) /\ \A j \in DOMAIN v : IsText(v[j])
  <2>1. IsText(v) /\ (v = <<"true">> \/ \A j \in DOMAIN v : IsText(v[j]))
    BY <1>1, <1>2, PresetAssumption
  <2> QED BY <1>3, <2>1 DEF IsText
<1> HIDE DEF v
<1>5. ASSUME NEW j \in DOMAIN v PROVE ParseKey(v[j]) \in Triggers /\ ParseKey(v[j]).kind # "count"
  <2> DEFINE s == v[j]
             A == Range(s)
  <2>1. s \in Seq(A) /\ ParseKey(s) # Invalid
    BY <1>3, <1>4 DEF IsText
  <2> HIDE DEF s, A
  <2>2. ParseKey(s) \in Triggers /\ ParseKey(s).kind # "count"
    BY <2>1, ParsedIsTrigger
  <2> QED BY <2>2 DEF s
<1>6. DOMAIN v = 1 .. Len(v) /\ Len(v) \in Nat
    BY <1>4
<1> DEFINE w == [j \in DOMAIN v |-> ParseKey(v[j])]
<1>7. w \in Seq(Triggers)
    BY <1>5, <1>6
<1>8. \A j \in DOMAIN w : w[j].kind # "count"
    BY <1>5
<1> QED BY <1>7, <1>8 DEF ParsedBinding, v

\* What a key press leaves of a count and a sequence.
LeavesPending ==
    /\ pending' = [prefix |-> pending'.prefix, count |-> pending'.count]
    /\ pending'.prefix = <<>> \/ \E ev \in Strokes : pending'.prefix = <<ev>>
    /\ typed' \in Seq(Nat) /\ CountIsTyped'

LEMMA FreshLeaves == pending' = Fresh /\ typed' = <<>> => LeavesPending
BY DEF Fresh, LeavesPending, CountIsTyped

LEMMA UnchangedLeaves == KeymapInv /\ UNCHANGED <<pending, typed>> => LeavesPending
BY DEF KeymapInv, LeavesPending, CountIsTyped

LEMMA TabKeyLeaves ==
    ASSUME KeymapInv, NEW ev \in Strokes, TabKey(ev)
    PROVE  LeavesPending /\ fired'.by # "mismatch"
<1>0. (\A c, n : Execute(c, n) => fired'.by = "key") /\ NothingFired.by = "none"
    BY DEF Execute, NothingFired
<1>1. ASSUME pending' = Fresh, typed' = <<>>, NEW c, NEW n, Execute(c, n) PROVE LeavesPending /\ fired'.by # "mismatch"
    BY <1>0, <1>1, FreshLeaves
<1>2. ASSUME pending.prefix # <<>>, Extends(ev), pending' = [pending EXCEPT !.prefix = Append(pending.prefix, ev)],
             CompletedCommand(Append(pending.prefix, ev), pending.count) = {}
      PROVE  FALSE
  <2>1. PICK e \in Strokes : pending.prefix = <<e>>
    BY <1>2 DEF KeymapInv
  <2>2. PICK s \in TabChords : SeqEq(SubSeq(s[3], 1, Len(pending.prefix) + 1), Append(pending.prefix, ev))
    BY <1>2 DEF Extends
  <2>3. s[3] \in Seq(KeyEvents) /\ Len(s[3]) = 2 /\ s[2] \in {"seq", "count"}
    BY ChordsAreOfTwo
  <2>4. Len(pending.prefix) + 1 = 2
    BY <2>1
  <2>5. SubSeq(s[3], 1, 2) = s[3]
    BY <2>3
  <2> DEFINE keys == Append(pending.prefix, ev)
  <2>6. SeqEq(s[3], keys)
    <3>1. SubSeq(s[3], 1, Len(pending.prefix) + 1) = s[3]
        BY <2>4, <2>5
    <3> QED BY <2>2, <3>1
  <2> DEFINE Of(kind) == {x[1] : x \in {u \in TabChords : u[2] = kind /\ SeqEq(u[3], keys)}}
  <2>7. s[1] \in Of(s[2])
    BY <2>6
  <2>8. Of("seq") # {} \/ Of("count") # {}
    BY <2>3, <2>7
  <2>9. CompletedCommand(keys, pending.count) =
            IF pending.count # NoCount
            THEN (IF Of("count") # {} THEN Of("count") ELSE Of("seq"))
            ELSE (IF Of("seq") # {} THEN Of("seq") ELSE Of("count"))
    BY DEF CompletedCommand
  <2> HIDE DEF Of, keys
  <2>10. CompletedCommand(keys, pending.count) # {}
    BY <2>8, <2>9
  <2> QED BY <1>2, <2>10 DEF keys
<1>3. ASSUME pending.prefix = <<>>, pending' = [pending EXCEPT !.count = Accumulate(@, DigitOf(ev.code))],
             typed' = Append(typed, DigitOf(ev.code)), fired' = NothingFired
      PROVE  LeavesPending /\ fired'.by # "mismatch"
  <2> DEFINE d == DigitOf(ev.code)
             w == Append(typed, d)
  <2>1. d \in Nat
    BY DigitIsNumber
  <2>2. w \in Seq(Nat) /\ w # <<>>
        /\ Accumulate(pending.count, d) = IF Decimal(w) > 65535 THEN 65535 ELSE Decimal(w)
    <3>1. typed \in Seq(Nat) /\ CountIsTyped
        BY DEF KeymapInv
    <3> HIDE DEF d
    <3> QED BY <2>1, <3>1, CountKeepsUp
  <2>3. pending' = [prefix |-> <<>>, count |-> Accumulate(pending.count, d)] /\ typed' = w
    BY <1>3 DEF KeymapInv
  <2> HIDE DEF w, d
  <2>4. LeavesPending
    BY <2>2, <2>3 DEF LeavesPending, CountIsTyped
  <2> QED BY <1>0, <1>3, <2>4
<1>4. ASSUME pending.prefix = <<>>, pending' = [pending EXCEPT !.prefix = <<ev>>], fired' = NothingFired, typed' = typed
      PROVE  LeavesPending /\ fired'.by # "mismatch"
  <2>1. pending' = [prefix |-> <<ev>>, count |-> pending.count]
    BY <1>4 DEF KeymapInv
  <2>2. LeavesPending
    BY <1>4, <2>1 DEF KeymapInv, LeavesPending, CountIsTyped
  <2> QED BY <1>0, <1>4, <2>2
<1> QED BY <1>1, <1>2, <1>3, <1>4 DEF TabKey

\* A key that is pressed.
LEMMA KeyPressLeaves ==
    ASSUME KeymapInv, KeyPress
    PROVE  LeavesPending /\ PaletteTells'
<1>1. PICK ev \in Strokes : GlobalKey(ev) \/ HelpKey(ev) \/ WorkspaceKey(ev) \/ UnlockListKey(ev)
    BY DEF KeyPress
<1>2. (\A c, n : Execute(c, n) => fired'.by = "key") /\ NothingFired.by = "none"
    BY DEF Execute, NothingFired
<1>3. CASE GlobalKey(ev)
    BY <1>2, <1>3, UnchangedLeaves DEF GlobalKey, PaletteTells
<1>4. CASE HelpKey(ev)
    BY <1>2, <1>4, FreshLeaves DEF HelpKey, PaletteTells
<1>5. CASE WorkspaceKey(ev)
  <2>1. CASE TabKey(ev)
    BY <2>1, TabKeyLeaves DEF PaletteTells
  <2>2. CASE ~TabKey(ev)
    <3>1. pending' = Fresh /\ typed' = <<>> /\ (fired' = NothingFired \/ \E c \in Dispatch(ev) : Execute(c, NoCount))
        BY <1>5, <2>2 DEF WorkspaceKey
    <3> QED BY <1>2, <3>1, FreshLeaves DEF PaletteTells
  <2> QED BY <2>1, <2>2
<1>6. CASE UnlockListKey(ev)
  <2>1. UNCHANGED <<pending, typed>> /\ (fired' = NothingFired \/ \E c \in Dispatch(ev) : Execute(c, NoCount))
    BY <1>6 DEF UnlockListKey
  <2> QED BY <1>2, <2>1, UnchangedLeaves DEF PaletteTells
<1> QED BY <1>1, <1>3, <1>4, <1>5, <1>6

LEMMA KeymapInvStep == KeymapInv /\ [KeymapNext]_keymapVars => KeymapInv'
<1> SUFFICES ASSUME KeymapInv, [KeymapNext]_keymapVars PROVE KeymapInv'
    OBVIOUS
<1>1. OthersAreDefault'
    BY NextOthersAreDefault DEF KeymapInv
<1>2. patch' = patch
    BY DEF KeymapNext, Load, ApplySlot, AllApplied, RejectOne, KeymapReady, KeyPress, GoTo, RunFromPalette, keymapVars
<1>3. CASE Load
  <2>1. UNCHANGED <<pending, typed, fired>>
    BY <1>3 DEF Load, ApplySlot, AllApplied, RejectOne, KeymapReady
  <2>2. CountIsTyped' /\ PaletteTells' /\ typed' \in Seq(Nat)
    BY <2>1 DEF KeymapInv, CountIsTyped, PaletteTells
  <2>3. stage # "ready" /\ pending.prefix = <<>>
    BY <1>3 DEF KeymapInv, Load, ApplySlot, AllApplied, RejectOne, KeymapReady
  <2>4. todo' \in Seq(Range(patch.slots)) /\ (\A c \in Command : bind'[c] \in Seq(Triggers)) /\ OnlyJumpsCount'
    <3>1. CASE ApplySlot
      <4> DEFINE S == Range(patch.slots)
                 slot == Head(todo).slot
                 value == ParsedBinding(Head(todo).value)
      <4>1. todo \in Seq(S) /\ todo # <<>> /\ todo' = Tail(todo)
        BY <3>1 DEF ApplySlot, KeymapInv
      <4>2. Tail(todo) \in Seq(S)
        <5> HIDE DEF S
        <5> QED BY <4>1
      <4>3. bind' = bind \/ (BindingIsValid(Head(todo).value) /\ bind' = [bind EXCEPT ![slot] = value])
        BY <3>1 DEF ApplySlot
      <4>4. CASE bind' = bind
        BY <4>1, <4>2, <4>4 DEF KeymapInv, OnlyJumpsCount
      <4>5. CASE BindingIsValid(Head(todo).value) /\ bind' = [bind EXCEPT ![slot] = value]
        <5>1. value \in Seq(Triggers) /\ \A j \in DOMAIN value : value[j].kind # "count"
            BY <4>1, <4>5, SlotGivesTriggers
        <5> HIDE DEF slot, value
        <5>2. \A c \in Command : bind'[c] \in Seq(Triggers)
            BY <4>5, <5>1 DEF KeymapInv, OthersAreDefault
        <5>3. OnlyJumpsCount'
            BY <4>5, <5>1 DEF KeymapInv, OthersAreDefault, OnlyJumpsCount
        <5> QED BY <4>1, <4>2, <5>2, <5>3
      <4> QED BY <4>3, <4>4, <4>5
    <3>2. CASE RejectOne
      <4>1. PICK c \in Command : bind' = [bind EXCEPT ![c] = Preset[patch.preset][c]]
        BY <3>2 DEF RejectOne
      <4>2. /\ Preset[patch.preset][c] \in Seq(Triggers)
            /\ \A i \in DOMAIN Preset[patch.preset][c] : Preset[patch.preset][c][i].kind = "count" => c = "JumpToTab"
        BY PresetAssumption DEF KeymapInv, OthersAreDefault
      <4>3. OnlyJumpsCount'
        BY <4>1, <4>2 DEF KeymapInv, OthersAreDefault, OnlyJumpsCount
      <4> QED BY <3>2, <4>1, <4>2, <4>3 DEF RejectOne, KeymapInv, OthersAreDefault
    <3>3. CASE AllApplied \/ KeymapReady
        BY <3>3 DEF AllApplied, KeymapReady, KeymapInv, OnlyJumpsCount
    <3> QED BY <1>3, <3>1, <3>2, <3>3 DEF Load
  <2>5. RowsAreOrdered'
    <3>1. rowPlace' = rowPlace \/ \E c : rowPlace' = RowsPushed(c)
        BY <1>3 DEF Load, ApplySlot, AllApplied, RejectOne, KeymapReady
    <3> QED BY <3>1, PushKeepsOrder DEF KeymapInv, RowsAreOrdered
  <2> QED BY <1>1, <1>2, <2>1, <2>2, <2>3, <2>4, <2>5 DEF KeymapInv
<1>4. CASE KeyPress
  <2>1. LeavesPending /\ PaletteTells'
    BY <1>4, KeyPressLeaves
  <2>2. stage' = "ready" /\ UNCHANGED <<patch, todo, bind, rowPlace>>
    BY <1>4 DEF KeyPress
  <2> QED BY <1>1, <2>1, <2>2 DEF KeymapInv, LeavesPending, OnlyJumpsCount, RowsAreOrdered
<1>5. CASE GoTo
  <2>1. LeavesPending
    BY <1>5, FreshLeaves, UnchangedLeaves DEF GoTo
  <2>2. stage' = "ready" /\ UNCHANGED <<patch, todo, bind, rowPlace>> /\ fired' = NothingFired
    BY <1>5 DEF GoTo
  <2>3. PaletteTells'
    BY <2>2 DEF PaletteTells, NothingFired
  <2> QED BY <1>1, <2>1, <2>2, <2>3 DEF KeymapInv, LeavesPending, OnlyJumpsCount, RowsAreOrdered
<1>6. CASE RunFromPalette
  <2>1. LeavesPending
    BY <1>6, UnchangedLeaves DEF RunFromPalette
  <2>2. stage' = "ready" /\ UNCHANGED <<patch, todo, bind, rowPlace>>
    BY <1>6 DEF RunFromPalette
  <2>3. PaletteTells'
    <3>1. PICK c \in Command, a \in AppState :
             fired' = [cmd |-> c, count |-> NoCount,
                       by |-> IF RowState(c, a) # (ctx \in ContextsOf(c) /\ Acts(c, a)) THEN "mismatch"
                              ELSE IF RowState(c, a) THEN "palette" ELSE "refused"]
        BY <1>6 DEF RunFromPalette
    <3>2. RowState(c, a) = (ctx \in ContextsOf(c) /\ Acts(c, a))
        BY <1>6, PaletteIsRight DEF RunFromPalette
    <3>3. fired'.by = IF RowState(c, a) THEN "palette" ELSE "refused"
        BY <3>1, <3>2
    <3> QED BY <3>3 DEF PaletteTells
  <2> QED BY <1>1, <2>1, <2>2, <2>3 DEF KeymapInv, LeavesPending, OnlyJumpsCount, RowsAreOrdered
<1>7. CASE UNCHANGED keymapVars
    BY <1>1, <1>7 DEF KeymapInv, keymapVars, CountIsTyped, PaletteTells, OnlyJumpsCount, RowsAreOrdered
<1> QED BY <1>3, <1>4, <1>5, <1>6, <1>7 DEF KeymapNext

\* With any patch a key means one command; a hint fires the command it is shown
\* for, a row of the palette acts exactly when it is enabled, and a count is what
\* was typed.  A row of the which-key menu names the command its key fires with a
\* count or without, and without as long as no rebinding has moved a tab motion
\* behind the count (keymap.rs, registry.rs).
THEOREM KeysMeanWhatIsShown == KeymapSpec => []KeysTellTheTruth
<1>1. KeymapInv /\ UniqueKeys => KeysTellTheTruth
  <2> SUFFICES ASSUME KeymapInv, UniqueKeys PROVE KeysTellTheTruth
    OBVIOUS
  <2>1. GrammarRoundTrips
    <3> SUFFICES ASSUME NEW c \in Command, NEW i \in DOMAIN bind[c], bind[c][i].kind # "count"
                 PROVE  ParseKey(RenderGrammar(bind[c][i])) = bind[c][i]
        BY DEF GrammarRoundTrips
    <3>1. bind[c][i] \in Triggers
        BY DEF KeymapInv
    <3> QED BY <3>1, TriggerRoundTrips
  <2>2. CountIsTyped /\ PaletteTells
    BY DEF KeymapInv
  <2> QED BY <2>1, <2>2, HintsTell, MenuHolds DEF KeysTellTheTruth
<1>2. KeymapSpec => []UniqueKeys
    BY KeysAreUnique
<1>3. KeymapSpec => []KeymapInv
    BY KeymapInvInit, KeymapInvStep, PTL DEF KeymapSpec
<1> QED BY <1>1, <1>2, <1>3, PTL

=============================================================================
