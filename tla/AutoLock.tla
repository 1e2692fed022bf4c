------------------------------ MODULE AutoLock ------------------------------
(***************************************************************************)
(* AutoLockController (falach-security auto_lock.rs) with the sources of   *)
(* OS lock events attached to it (os_events), each on a thread of its own: *)
(* noop, SIGTSTP, systemd-logind and macOS.  TuiSession has the controller *)
(* as the TUI uses it, without sources.                                    *)
(*                                                                         *)
(* DATA.  Time is what has passed since the last activity, capped at the   *)
(* timeout.  A source is named by its kind.                                *)
(***************************************************************************)
EXTENDS Integers, Sequences, SequencesExt

CONSTANTS
    Source,       \* attached sources, of {"noop", "sigstop", "logind", "iokit"}
    IdleTimeout,  \* AutoLockConfig::idle_timeout
    MaxEvents,    \* bound: events on the channel and calls of the front end
    MaxStops      \* bound: D-Bus failures

ASSUME AutoLockAssumption ==
    /\ Source \subseteq {"noop", "sigstop", "logind", "iokit"}
    /\ IdleTimeout \in Nat \ {0}     \* AutoLockConfig::validate
    /\ MaxEvents \in Nat /\ MaxStops \in Nat

VARIABLES
    lockState,   \* "active", "expired" or "locked"
    idle,        \* time since last_activity, -1 when there is none yet
    channel,     \* the mpsc channel, oldest event first
    thread,      \* thread[s]: where the source's thread is
    told,        \* sources whose ShutdownHandle has been invoked
    attached,    \* attached_sources
    control,     \* "up", "dropping" or "gone"
    stopped,     \* the process is stopped by SIGSTOP
    events, failures

lockVars == <<lockState, idle, channel, thread, told, attached, control,
              stopped, events, failures>>
sources == <<thread, told, attached>>

LockInit ==
    /\ lockState = "active" /\ idle = -1 /\ channel = <<>>
    /\ thread = [s \in Source |-> "none"] /\ told = {} /\ attached = <<>>
    /\ control = "up" /\ stopped = FALSE /\ events = 0 /\ failures = 0

\* The process runs and something new happens to it.
Happens == ~stopped /\ events < MaxEvents /\ events' = events + 1
Up == ~stopped /\ control = "up"

----------------------------------------------------------------------------
(* The controller.                                                         *)

\* register_activity: a locked controller stays locked.
ActiveAfter(st) == IF st = "locked" THEN st ELSE "active"

RegisterActivity ==
    /\ Up /\ Happens
    /\ lockState' = ActiveAfter(lockState)
    /\ idle' = IF lockState = "locked" THEN idle ELSE 0
    /\ UNCHANGED <<channel, sources, control, stopped, failures>>

\* The drain of tick: every pending event, in order.
Drained(st) ==
    FoldLeft(LAMBDA s, e : IF e = "activity" THEN ActiveAfter(s) ELSE "locked",
             st, channel)

\* Some drained activity counted: the deadline starts anew.
Renewed == lockState # "locked" /\ channel # <<>> /\ channel[1] = "activity"

\* Faulty variants: an idle vault is locked without warning; the deadline is
\* missed when a tick falls on it.
BugIdleLocksAtOnce(st, i) ==
    IF (st = "active" /\ i >= IdleTimeout) \/ st = "expired" THEN "locked" ELSE st
BugIdleStrictly(st, i) ==
    CASE st = "active" /\ i > IdleTimeout -> "expired"
      [] st = "expired" -> "locked"
      [] OTHER -> st

\* apply_idle_logic
IdleLogic(st, i) ==
    CASE st = "active" /\ i >= IdleTimeout -> "expired"
      [] st = "expired" -> "locked"
      [] OTHER -> st

\* tick
TickController ==
    /\ Up
    /\ idle' = IF Renewed THEN 0 ELSE idle
    /\ lockState' = IdleLogic(Drained(lockState), idle')
    /\ channel' = <<>>
    /\ UNCHANGED <<sources, control, stopped, events, failures>>

\* time_until_lock; -1 for None.
TimeUntilLock ==
    IF lockState = "active" /\ idle >= 0 THEN IdleTimeout - idle ELSE -1

LockNow ==
    /\ Up /\ Happens
    /\ lockState' = "locked"
    /\ UNCHANGED <<idle, channel, sources, control, stopped, failures>>

\* unlock, after the user has authenticated.
UnlockController ==
    /\ Up /\ Happens
    /\ lockState' = "active" /\ idle' = 0
    /\ UNCHANGED <<channel, sources, control, stopped, failures>>

\* Time passes, also while the process is stopped.
TimePasses ==
    /\ control # "gone" /\ idle \in 0..(IdleTimeout - 1)
    /\ idle' = idle + 1
    /\ UNCHANGED <<lockState, channel, sources, control, stopped, events, failures>>

----------------------------------------------------------------------------
(* Sources.                                                                *)

\* attach_event_source: the shutdown handle is taken, the thread started.
\* logind first connects to the bus.
Attach(s) ==
    /\ Up /\ thread[s] = "none"
    /\ thread' = [thread EXCEPT ![s] = IF s = "logind" THEN "connecting" ELSE "running"]
    /\ attached' = Append(attached, s)
    /\ UNCHANGED <<lockState, idle, channel, told, control, stopped, events, failures>>

Moves(s, from, to) ==
    /\ ~stopped /\ thread[s] = from
    /\ thread' = [thread EXCEPT ![s] = to]
    /\ UNCHANGED <<lockState, idle, told, attached, control>>

\* setup_streams succeeds or fails; neither looks at the shutdown channel.
Connected(s) ==
    /\ s = "logind" /\ Moves(s, "connecting", "running")
    /\ UNCHANGED <<channel, stopped, events, failures>>
ConnectFails(s) ==
    /\ s = "logind" /\ Moves(s, "connecting", "ended")
    /\ failures < MaxStops /\ failures' = failures + 1
    /\ UNCHANGED <<channel, stopped, events>>

\* The bus goes away: the stream ends, and with it the source.
StreamEnds(s) ==
    /\ s = "logind" /\ Moves(s, "running", "ended")
    /\ failures < MaxStops /\ failures' = failures + 1
    /\ UNCHANGED <<channel, stopped, events>>

\* The session is locked or the system goes to sleep: OsLock.  A resume and a
\* SIGCONT send nothing.
OsLock(s) ==
    /\ s \in {"logind", "iokit"} /\ Happens /\ Moves(s, "running", "running")
    /\ channel' = Append(channel, "oslock")
    /\ UNCHANGED <<stopped, failures>>

\* SIGTSTP: first the event, then SIGSTOP is raised.
Sigtstp(s) ==
    /\ s = "sigstop" /\ Happens /\ Moves(s, "running", "raising")
    /\ channel' = Append(channel, "oslock")
    /\ UNCHANGED <<stopped, failures>>
RaiseStop(s) ==
    /\ s = "sigstop" /\ Moves(s, "raising", "running")
    /\ stopped' = TRUE
    /\ UNCHANGED <<channel, events, failures>>

\* fg
Sigcont ==
    /\ stopped /\ stopped' = FALSE
    /\ UNCHANGED <<lockState, idle, channel, sources, control, events, failures>>

\* An agent forwards user input, or asks for a lock, over the channel.
Forward(e) ==
    /\ Up /\ Happens
    /\ channel' = Append(channel, e)
    /\ UNCHANGED <<lockState, idle, sources, control, stopped, failures>>

\* A source that was told to stop leaves its loop.
SourceEnds(s) ==
    /\ s \in told /\ Moves(s, "running", "ended")
    /\ UNCHANGED <<channel, stopped, events, failures>>

----------------------------------------------------------------------------
(* Drop: in attach order, each source is told to stop and joined.          *)

\* Faulty variant: the controller joins without telling the source.
BugTell(s) == told

Tell(s) == told \cup {s}

DropController ==
    /\ Up
    /\ control' = "dropping"
    /\ UNCHANGED <<lockState, idle, channel, sources, stopped, events, failures>>

DropStep ==
    /\ ~stopped /\ control = "dropping"
    /\ IF attached = <<>> THEN control' = "gone" /\ UNCHANGED <<told, attached>>
       ELSE IF thread[Head(attached)] = "ended"
       THEN attached' = Tail(attached) /\ UNCHANGED <<told, control>>
       ELSE /\ Head(attached) \notin told
            /\ told' = Tell(Head(attached))
            /\ UNCHANGED <<attached, control>>
    /\ UNCHANGED <<lockState, idle, channel, thread, stopped, events, failures>>

----------------------------------------------------------------------------
SourceStep(s) ==
    \/ Connected(s) \/ ConnectFails(s) \/ StreamEnds(s)
    \/ RaiseStop(s) \/ SourceEnds(s)

LockNext ==
    \/ RegisterActivity \/ TickController \/ LockNow \/ UnlockController
    \/ TimePasses \/ Sigcont \/ DropController \/ DropStep
    \/ \E e \in {"activity", "manual"} : Forward(e)
    \/ \E s \in Source : Attach(s) \/ OsLock(s) \/ Sigtstp(s) \/ SourceStep(s)

\* The front end ticks, time passes, threads run and the bus answers.
LockFairness ==
    /\ WF_lockVars(TickController) /\ WF_lockVars(TimePasses)
    /\ WF_lockVars(DropStep)
    /\ \A s \in Source : WF_lockVars(SourceEnds(s)) /\ WF_lockVars(RaiseStop(s))
                         /\ WF_lockVars(Connected(s) \/ ConnectFails(s))

LockSpec == LockInit /\ [][LockNext]_lockVars

----------------------------------------------------------------------------
(* Properties.                                                             *)

\* A lock state changes for a reason only.  Nothing but authentication leaves
\* the locked state: no activity, forwarded or direct, and no resumed process.
\* And while the countdown shows time left, only a demand to lock leaves the
\* active state: an idle vault is never locked without the warning first.
LockIsEarned ==
    [][/\ lockState = "locked" /\ lockState' # "locked" => UnlockController
       /\ lockState = "active" /\ lockState' # "active" =>
              \/ LockNow \/ \E i \in DOMAIN channel : channel[i] # "activity"
              \/ lockState' = "expired" /\ TimeUntilLock = 0]_lockVars

\* A vault whose user has left is locked in the end: the front end's calls and
\* the events are finite, and every idle stretch runs into the deadline.
IdleVaultLocks ==
    (lockState = "active" /\ idle >= 0)
        ~> (lockState = "locked" \/ control # "up" \/ stopped)

\* Dropping the controller ends: each source hears of it and is joined, also
\* one that is still connecting, unless the process is stopped meanwhile.
DropEnds == (control = "dropping") ~> (control = "gone" \/ stopped)
=============================================================================
