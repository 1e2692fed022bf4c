----------------------------- MODULE Clipboard -----------------------------
(***************************************************************************)
(* The clipboard's auto-clear timers (falach-security clipboard.rs) with   *)
(* their two owners: the TUI's sink, which keeps at most MaxGuards guards  *)
(* (falach-tui clipboard.rs), and CLI commands, which wait for their timer *)
(* (entry get --copy).  Every timer is a thread, and other applications    *)
(* use the clipboard whenever they like.                                   *)
(*                                                                         *)
(* Time is left out: an armed timer may expire at any moment.              *)
(***************************************************************************)
EXTENDS Naturals, Sequences, Functions

CONSTANTS
    SecretText,     \* the texts Falach copies
    OtherText,      \* what other applications copy
    EmptyClip,      \* the cleared clipboard
    MaxGuards,  \* MAX_GUARDS, 8 in the code
    MaxCopies,  \* bound: copies Falach makes
    MaxClipFaults   \* bound: failing calls

ASSUME ClipboardAssumption ==
    /\ EmptyClip \notin SecretText \cup OtherText
    /\ MaxGuards \in Nat \ {0} /\ MaxCopies \in Nat /\ MaxClipFaults \in Nat

CopyId == 1..MaxCopies

\* "armed": waits for its TTL or a cancel; "match": has read its own text and
\* is about to clear it; "done": the thread has ended.
ClipTimer == [text : SecretText \cup {EmptyClip}, owner : {"tui", "cli"},
          state : {"none", "armed", "match", "done"}]

VARIABLES
    board,   \* what the clipboard holds
    shownBy,    \* history: the copy that put it there, 0 for another application
    timer,   \* timer[k]: the timer of copy k
    guards,  \* SystemClipboard's guards, oldest first
    clipCopies, sinkOpen, clipFaults

clipVars == <<board, shownBy, timer, guards, clipCopies, sinkOpen, clipFaults>>

ClipInit ==
    /\ board = EmptyClip /\ shownBy = 0
    /\ timer = [k \in CopyId |-> [text |-> EmptyClip, owner |-> "tui", state |-> "none"]]
    /\ guards = <<>> /\ clipCopies = 0 /\ sinkOpen = TRUE /\ clipFaults = 0

ClipFault ==
    /\ clipFaults < MaxClipFaults
    /\ clipFaults' = clipFaults + 1

\* copy_with_autoclear_inner: the text goes to the clipboard, then the timer
\* thread starts.
ArmTimer(x) ==
    /\ clipCopies < MaxCopies
    /\ clipCopies' = clipCopies + 1
    /\ board' = x /\ shownBy' = clipCopies + 1

TimerStarted(x, who) == [text |-> x, owner |-> who, state |-> "armed"]

\* The guard of k is dropped: a timer that has not expired yet ends.
Cancelled(t) == IF t.state = "armed" THEN [t EXCEPT !.state = "done"] ELSE t

\* The guards after one more copy.
PushGuard(g, k) == Append(IF Len(g) >= MaxGuards THEN Tail(g) ELSE g, k)

\* SystemClipboard::copy.
CopyTui(x) ==
    /\ sinkOpen
    /\ ArmTimer(x)
    /\ guards' = PushGuard(guards, clipCopies + 1)
    /\ timer' = LET kept == Range(guards')
                    armed == [timer EXCEPT ![clipCopies + 1] = TimerStarted(x, "tui")]
                IN  [k \in CopyId |-> IF k \in (Range(guards) \cup {clipCopies + 1}) \ kept
                                 THEN Cancelled(armed[k]) ELSE armed[k]]
    /\ UNCHANGED <<sinkOpen, clipFaults>>

\* entry get --copy.
CopyCli(x) ==
    /\ ArmTimer(x)
    /\ timer' = [timer EXCEPT ![clipCopies + 1] = TimerStarted(x, "cli")]
    /\ UNCHANGED <<guards, sinkOpen, clipFaults>>

\* The timer thread cannot be started: an error, and the text stays.
CopyFails(x) ==
    /\ ClipFault
    /\ ArmTimer(x)
    /\ UNCHANGED <<timer, guards, sinkOpen>>

\* Another application copies something.
OtherCopy(y) ==
    /\ board' = y /\ shownBy' = 0
    /\ UNCHANGED <<timer, guards, clipCopies, sinkOpen, clipFaults>>

\* The TTL is over: get_text, and the comparison.
TimerExpires(k) ==
    /\ timer[k].state = "armed"
    /\ timer' = [timer EXCEPT ![k].state = IF board = timer[k].text THEN "match" ELSE "done"]
    /\ UNCHANGED <<board, shownBy, guards, clipCopies, sinkOpen, clipFaults>>

\* get_text fails: nothing is cleared.
TimerReadFails(k) ==
    /\ timer[k].state = "armed"
    /\ ClipFault
    /\ timer' = [timer EXCEPT ![k].state = "done"]
    /\ UNCHANGED <<board, shownBy, guards, clipCopies, sinkOpen>>

\* Faulty variant: the timer waits for another TTL and clears nothing.
BugTimerRearms(k) ==
    /\ timer[k].state = "match"
    /\ timer' = [timer EXCEPT ![k].state = "armed"]
    /\ UNCHANGED <<board, shownBy, guards, clipCopies, sinkOpen, clipFaults>>

\* set_text("").
TimerClears(k) ==
    /\ timer[k].state = "match"
    /\ timer' = [timer EXCEPT ![k].state = "done"]
    /\ board' = EmptyClip /\ shownBy' = 0
    /\ UNCHANGED <<guards, clipCopies, sinkOpen, clipFaults>>

\* set_text("") fails: the error is discarded, the text stays.
TimerClearFails(k) ==
    /\ timer[k].state = "match"
    /\ ClipFault
    /\ timer' = [timer EXCEPT ![k].state = "done"]
    /\ UNCHANGED <<board, shownBy, guards, clipCopies, sinkOpen>>

\* What happens to the clipboard when the process behind copy set K ends:
\* the platform keeps the text, or loses it with its source (Wayland).
ClipSourceEnds(K) ==
    \/ UNCHANGED <<board, shownBy>>
    \/ shownBy \in K /\ board' = EmptyClip /\ shownBy' = 0

\* The timers of the copies in K end with their process.
TimersEnded(K) ==
    [k \in CopyId |-> IF k \in K THEN [timer[k] EXCEPT !.state = "done"] ELSE timer[k]]

\* The TUI quits: its guards are dropped, its threads end.
QuitTui ==
    /\ sinkOpen
    /\ sinkOpen' = FALSE
    /\ guards' = <<>>
    /\ LET K == {k \in 1..clipCopies : timer[k].owner = "tui"}
       IN  timer' = TimersEnded(K) /\ ClipSourceEnds(K)
    /\ UNCHANGED <<clipCopies, clipFaults>>

\* A CLI command is interrupted while it waits for its timer.
KillCli(k) ==
    /\ timer[k].owner = "cli" /\ timer[k].state \in {"armed", "match"}
    /\ ClipFault
    /\ timer' = TimersEnded({k}) /\ ClipSourceEnds({k})
    /\ UNCHANGED <<guards, clipCopies, sinkOpen>>

-----------------------------------------------------------------------------
ClipNext ==
    \/ \E x \in SecretText : CopyTui(x) \/ CopyCli(x) \/ CopyFails(x)
    \/ \E y \in SecretText \cup OtherText : OtherCopy(y)
    \/ \E k \in CopyId : TimerExpires(k) \/ TimerReadFails(k) \/ TimerClears(k) \/ TimerClearFails(k) \/ KillCli(k)
    \/ QuitTui

ClipSpec == ClipInit /\ [][ClipNext]_clipVars

\* A timer thread runs, and its TTL comes to an end.
ClipFairness == \A k \in CopyId : WF_clipVars(TimerExpires(k) \/ TimerClears(k))

-----------------------------------------------------------------------------
(* Properties.                                                             *)

\* A secret Falach shows is cleared or replaced, whatever the order in which
\* timers expire, as long as no call fails and the TUI, whose timers end with
\* it, stays open.
SecretIsCleared ==
    \A k \in CopyId : (shownBy = k) ~> (shownBy # k \/ ~sinkOpen \/ clipFaults > 0)
=============================================================================
