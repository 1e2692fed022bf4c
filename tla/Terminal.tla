------------------------------ MODULE Terminal ------------------------------
(***************************************************************************)
(* The terminal as the two front ends leave it: the CLI's password prompt, *)
(* which turns echo off and arms signal handlers to turn it on again       *)
(* (falach-cli prompt.rs), and the TUI's guard, which takes raw mode, the   *)
(* alternate screen and the mouse and gives them back on return, panic and *)
(* fatal signal (falach-tui terminal_guard.rs, event.rs).  A signal may    *)
(* arrive between any two system calls.                                    *)
(***************************************************************************)
EXTENDS Integers, Sequences

CONSTANTS Typed,        \* the lines a user may type at a prompt
          MaxAttempts,  \* NEW_PASSWORD_MAX_ATTEMPTS
          NoLine        \* nothing read, saved or returned

\* What reading returns at the end of input: an empty line.
EndOfInput == ""

ASSUME TerminalAssumption ==
  /\ NoLine \notin Typed \cup {EndOfInput, "cooked"}   \* None is no line and no mode
  /\ MaxAttempts \in Nat \ {0}

VARIABLES tty,       \* the terminal: [mode, alt, mouse]
          isTty,     \* whether standard input is a terminal at all
          handled,   \* signals with a handler of ours
          saved,     \* the terminal mode the handler puts back
          termJob,   \* the process that uses the terminal
          worker     \* the TUI's sync worker: "none", "running" or "lost"

termVars == <<tty, isTty, handled, saved, termJob, worker>>

PlainTty == [mode |-> "cooked", alt |-> FALSE, mouse |-> FALSE]

\* What the prompt's handlers cover, in the order they are installed.
PromptSignals == <<"INT", "TERM", "QUIT">>
Signals == {"INT", "TERM", "QUIT", "HUP"}

Job(prog, pc) ==
  [prog |-> prog, pc |-> pc, i |-> 1, echoOff |-> FALSE, original |-> NoLine,
   failed |-> FALSE, first |-> NoLine, line |-> NoLine, attempt |-> 1, lines |-> <<>>, result |-> NoLine,
   exit |-> "none", at |-> "none"]

TermAt(pc) == termJob.pc = pc
Go(pc) == termJob' = [termJob EXCEPT !.pc = pc]

\* The process ends: by returning, or by a signal at step `at`.
Ended(how, at) == [termJob EXCEPT !.pc = "ended", !.exit = how, !.at = at]
Exit(how) == termJob' = Ended(how, "none")

-----------------------------------------------------------------------------
(* The CLI prompt.  "unlock" is master_password, "create" is               *)
(* new_master_password_confirmed.                                          *)

\* master_password: the agent answers, has nothing, or fails.
AskAgent ==
  /\ TermAt("agent")
  /\ \/ termJob' = [Ended("ok", "none") EXCEPT !.result = "agent"]
     \/ Go("label")
     \/ Exit("error")
  /\ UNCHANGED <<tty, isTty, handled, saved, worker>>

\* The label is written before echo is touched; failing to is an error.
WriteLabel ==
  /\ TermAt("label")
  /\ Go("disable") \/ Exit("error")
  /\ UNCHANGED <<tty, isTty, handled, saved, worker>>

\* EchoGuard::disable: with no terminal, or one that refuses, nothing to undo.
DisableEcho ==
  /\ TermAt("disable")
  /\ \/ /\ isTty
        /\ tty' = [tty EXCEPT !.mode = "noecho"]
        /\ termJob' = [termJob EXCEPT !.pc = "arm", !.echoOff = TRUE, !.original = tty.mode]
     \/ /\ termJob' = [termJob EXCEPT !.pc = "read", !.echoOff = FALSE]
        /\ UNCHANGED tty
  /\ UNCHANGED <<isTty, handled, saved, worker>>

\* echo_signals::arm, first half: the mode to put back.
ArmSaved ==
  /\ TermAt("arm")
  /\ saved' = termJob.original
  /\ termJob' = [termJob EXCEPT !.pc = "install", !.i = 1]
  /\ UNCHANGED <<tty, isTty, handled, worker>>

\* echo_signals::arm, second half: one handler after the other.
InstallHandler ==
  /\ TermAt("install")
  /\ handled' = handled \cup {PromptSignals[termJob.i]}
  /\ termJob' = [termJob EXCEPT !.i = @ + 1,
                   !.pc = IF termJob.i = Len(PromptSignals) THEN "read" ELSE "install"]
  /\ UNCHANGED <<tty, isTty, saved, worker>>

\* Faulty variant: the handlers go before echo is back.
BugCleanup == <<"disarm", "restore">>

\* EchoGuard::drop: the mode first, the handlers second.
Cleanup == <<"restore", "disarm">>

\* What follows a cleanup step; a guard that did nothing has none.
AfterCleanup(step) ==
  IF step = Cleanup[1] THEN Cleanup[2] ELSE "returned"

\* A line arrives, or the end of input (an empty line), or an error; the
\* newline after it may fail to be written.  The guard is dropped either way.
ReadLine ==
  /\ TermAt("read")
  /\ \E line \in Typed \cup {EndOfInput}, ok \in BOOLEAN :
       termJob' = [termJob EXCEPT !.pc = IF termJob.echoOff THEN Cleanup[1] ELSE "returned",
                     !.line = line, !.failed = ~ok, !.lines = Append(@, line), !.i = 1]
  /\ UNCHANGED <<tty, isTty, handled, saved, worker>>

RestoreEcho ==
  /\ TermAt("restore")
  /\ tty' = [tty EXCEPT !.mode = termJob.original]
  /\ Go(AfterCleanup("restore"))
  /\ UNCHANGED <<isTty, handled, saved, worker>>

\* echo_signals::disarm: one handler after the other.
Disarm ==
  /\ TermAt("disarm")
  /\ handled' = handled \ {PromptSignals[termJob.i]}
  /\ termJob' = [termJob EXCEPT !.i = @ + 1,
                   !.pc = IF termJob.i = Len(PromptSignals) THEN AfterCleanup("disarm") ELSE "disarm"]
  /\ UNCHANGED <<tty, isTty, saved, worker>>

\* The next attempt starts with the password itself.
Again(job) == [job EXCEPT !.pc = "label", !.attempt = @ + 1, !.first = NoLine]

\* read_password_no_echo has returned: a failed read is an error; a new
\* password is asked twice, at most MaxAttempts times.
PromptAnswered ==
  /\ TermAt("returned")
  /\ termJob' =
       IF termJob.failed THEN Ended("error", "none")
       ELSE IF termJob.prog = "unlock" \/ termJob.line = termJob.first
       THEN [Ended("ok", "none") EXCEPT !.result = termJob.line]
       ELSE IF termJob.first = NoLine THEN [termJob EXCEPT !.pc = "label", !.first = termJob.line]
       ELSE IF termJob.attempt = MaxAttempts THEN Ended("error", "none")
       ELSE Again(termJob)
  /\ UNCHANGED <<tty, isTty, handled, saved, worker>>

-----------------------------------------------------------------------------
(* The TUI's guard and event loop.                                         *)

\* Panic hook and signal handlers come before the terminal is touched.
InstallGuard ==
  /\ TermAt("hooks")
  /\ saved' = IF isTty THEN tty.mode ELSE NoLine
  /\ handled' = {"HUP", "TERM"}
  /\ Go("raw")
  /\ UNCHANGED <<tty, isTty, worker>>

EnableRawMode ==
  /\ TermAt("raw")
  /\ \/ isTty /\ tty' = [tty EXCEPT !.mode = "raw"] /\ Go("alt")
     \/ Exit("error") /\ UNCHANGED tty
  /\ UNCHANGED <<isTty, handled, saved, worker>>

\* No guard exists yet to undo raw mode, so the error path does.
AltFails == Exit("error") /\ tty' = [tty EXCEPT !.mode = "cooked"]

EnterAltScreen ==
  /\ TermAt("alt")
  /\ \/ tty' = [tty EXCEPT !.alt = TRUE] /\ Go("capture")
     \/ AltFails
  /\ UNCHANGED <<isTty, handled, saved, worker>>

\* Mouse capture is optional and may fail; then the loop starts, or setting up
\* the drawing backend fails, which drops the guard.
CaptureMouse ==
  /\ TermAt("capture")
  /\ \E on \in BOOLEAN : tty' = [tty EXCEPT !.mouse = on]
  /\ Go("loop") \/ Go("dropMouse")
  /\ UNCHANGED <<isTty, handled, saved, worker>>

\* run_event_loop ends when the user quits or drawing, polling or reading fails.
LeaveLoop ==
  /\ TermAt("loop")
  /\ Go("dropMouse")
  /\ UNCHANGED <<tty, isTty, handled, saved, worker>>

StartWorker ==
  /\ TermAt("loop")
  /\ worker # "running"
  /\ worker' = "running"
  /\ UNCHANGED <<tty, isTty, handled, saved, termJob>>

\* A sync ends: the result is drained by the next tick.
WorkerDone ==
  /\ worker = "running"
  /\ ~TermAt("ended")
  /\ worker' = "none"
  /\ UNCHANGED <<tty, isTty, handled, saved, termJob>>

\* restore_terminal in one go, as the panic hook runs it.
Restored == PlainTty

\* The hook is global: it runs for a panic of any thread.  The main thread's
\* unwinds and drops the guard; the worker's only loses the sync.
MainPanics ==
  /\ TermAt("loop")
  /\ tty' = Restored
  /\ Go("dropMouse")
  /\ UNCHANGED <<isTty, handled, saved, worker>>

WorkerPanics ==
  /\ worker = "running"
  /\ ~TermAt("ended")
  /\ worker' = "lost"
  /\ tty' = Restored
  /\ UNCHANGED <<isTty, handled, saved, termJob>>

\* The guard is dropped: restore_terminal, step by step.
DropMouse ==
  /\ TermAt("dropMouse")
  /\ tty' = [tty EXCEPT !.mouse = FALSE]
  /\ Go("dropAlt")
  /\ UNCHANGED <<isTty, handled, saved, worker>>

DropAlt ==
  /\ TermAt("dropAlt")
  /\ tty' = [tty EXCEPT !.alt = FALSE]
  /\ Go("dropRaw")
  /\ UNCHANGED <<isTty, handled, saved, worker>>

DropRaw ==
  /\ TermAt("dropRaw")
  /\ tty' = [tty EXCEPT !.mode = "cooked"]
  /\ Exit("ok")
  /\ UNCHANGED <<isTty, handled, saved, worker>>

-----------------------------------------------------------------------------
\* What a handler does to the terminal: the saved mode, and for the TUI the
\* escape sequences that leave mouse capture and the alternate screen.
AfterHandler ==
  [mode |-> IF saved # NoLine THEN saved ELSE tty.mode,
   alt |-> tty.alt /\ termJob.prog # "tui", mouse |-> tty.mouse /\ termJob.prog # "tui"]

\* A fatal signal: with a handler the terminal is restored first.
Signal(sig) ==
  /\ ~TermAt("ended")
  /\ tty' = IF sig \in handled THEN AfterHandler ELSE tty
  /\ termJob' = Ended(sig, termJob.pc)
  /\ UNCHANGED <<isTty, handled, saved, worker>>

TermInit ==
  /\ tty = PlainTty
  /\ isTty \in BOOLEAN
  /\ handled = {}
  /\ saved = NoLine
  /\ termJob \in {Job("unlock", "agent"), Job("create", "label"), Job("tui", "hooks")}
  /\ worker = "none"

TermNext ==
  \/ AskAgent \/ WriteLabel \/ DisableEcho \/ ArmSaved \/ InstallHandler \/ ReadLine
  \/ RestoreEcho \/ Disarm \/ PromptAnswered
  \/ InstallGuard \/ EnableRawMode \/ EnterAltScreen \/ CaptureMouse \/ LeaveLoop
  \/ StartWorker \/ WorkerDone \/ MainPanics \/ WorkerPanics \/ DropMouse \/ DropAlt \/ DropRaw
  \/ \E sig \in Signals : Signal(sig)

TermSpec == TermInit /\ [][TermNext]_termVars

-----------------------------------------------------------------------------
\* However a prompt ends (password read, error, Ctrl+C, kill), the terminal
\* echoes again, once the handler of the signal that ended it is installed.
\* Between the tcsetattr that turns echo off and that moment a signal still
\* leaves the terminal without echo; SIGHUP has no handler on purpose.
EchoComesBack ==
  (TermAt("ended") /\ termJob.prog # "tui" /\ termJob.exit # "HUP"
     /\ termJob.at \notin {"arm", "install"})
    => tty = PlainTty

\* However the TUI ends (quit, set-up or drawing error, panic, SIGHUP, SIGTERM),
\* the user gets a cooked terminal on the main screen without mouse capture.
TerminalIsRestored ==
  (TermAt("ended") /\ termJob.prog = "tui" /\ termJob.exit \notin {"INT", "QUIT"})
    => tty = PlainTty

\* A new master password is one the user typed twice in a row, within the
\* allowed number of attempts: what the vault is sealed with was confirmed.
ConfirmedTwice ==
  (termJob.prog = "create" /\ termJob.exit = "ok")
    => LET n == Len(termJob.lines) IN
       /\ n >= 2 /\ n <= 2 * MaxAttempts /\ n % 2 = 0
       /\ termJob.lines[n] = termJob.result /\ termJob.lines[n - 1] = termJob.result

\* Whatever ends a prompt or the TUI, the terminal is given back as it was,
\* and no password is taken that was not confirmed.
TerminalIsGivenBack == EchoComesBack /\ TerminalIsRestored /\ ConfirmedTwice
=============================================================================
