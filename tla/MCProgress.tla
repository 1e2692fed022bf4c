----------------------------- MODULE MCProgress -----------------------------
(* One run for the modules in which something must eventually happen, the   *)
(* TUI session, the auto-lock controller and the clipboard's timers, and    *)
(* for the search and the keymap.  They share no variable, so a behaviour   *)
(* moves one of them, named by part, and the run checks each by itself.     *)
(* The others are at rest: none of their fair steps is enabled, so each     *)
(* module's fairness can be assumed of every behaviour.                     *)
EXTENDS TuiSession, AutoLock, Clipboard, Search, Keymap

CONSTANTS s1, s2, other

-----------------------------------------------------------------------------
(* Search: every pattern, value, needle and haystack up to a length, and    *)
(* every query on every vault of three of the entries below.                *)

Texts(S, n) == UNION {[1..k -> S] : k \in 0..n}
PatternTexts == Texts({"*", "?", "a"}, 4)
ValueTexts == Texts({"a", "b"}, 4)
NeedleTexts == Texts({"a", "A"}, 3)
HaystackTexts == Texts({"a", "A", "-"}, 5)

SearchRow(title, user, recycled, groups, tags) ==
    [text |-> [title |-> title, username |-> user, url |-> <<>>, notes |-> <<"b">>, tags |-> <<>>],
     recycled |-> recycled, groups |-> groups, tags |-> tags]
SearchRows == {
    SearchRow(<<"a">>, <<"b">>, FALSE, {"g"}, {}),
    SearchRow(<<"A", "-", "b">>, <<>>, FALSE, {"g", "h"}, {"t"}),
    SearchRow(<<"b", "-", "-", "-", "a">>, <<"a">>, TRUE, {"bin"}, {"t"})}
SearchDbs == SearchRows \X SearchRows \X SearchRows
QuerySet == [mode : {"fuzzy", "substring"}, recycled : BOOLEAN, boost : {<<>>, <<3, 2, 3>>},
             terms : {<<>>, <<<<"a">>>>, <<<<"a">>, <<"b">>>>, <<<<"b", "a">>, <<"A">>>>},
             scope : {[kind |-> "all", name |-> ""], [kind |-> "group", name |-> "g"],
                      [kind |-> "tag", name |-> "t"]}]

-----------------------------------------------------------------------------
(* Keymap: the presets; patches that swap keys, take a key of a default,    *)
(* name no command, are no key, bind a sequence (also one of a default, kept *)
(* or rejected), or unbind a command.                                       *)

Rebind(s, v) == [slot |-> s, value |-> v]
PatchSet == {
    [preset |-> "vim", slots |-> <<>>], [preset |-> "plain", slots |-> <<>>],
    [preset |-> "vim", slots |-> <<Rebind("PinToggle", <<<<"o">>>>), Rebind("SortCycle", <<<<"e">>>>)>>],
    [preset |-> "vim", slots |-> <<Rebind("AddEntry", <<<<"e">>>>), Rebind("CopyPassword", <<<<"a">>>>)>>],
    [preset |-> "plain", slots |-> <<Rebind("CopyPassword", <<<<"ctrl", "+", "+">>, <<"y">>>>),
                                     Rebind("NoSuch", <<>>),
                                     Rebind("Search", <<<<"ctrl", "+", "x", "+", "f">>>>)>>],
    [preset |-> "vim", slots |-> <<Rebind("JumpToTab", <<<<"x">>>>), Rebind("NextTab", <<<<"g", Blank, "n">>>>),
                                   Rebind("RevealPassword", <<>>),
                                   Rebind("Search", <<<<"space">>, <<"+">>>>)>>],
    [preset |-> "vim", slots |-> <<Rebind("NextTab", <<<<"g", Blank, "t">>>>)>>],
    [preset |-> "vim", slots |-> <<Rebind("PrevTab", <<<<"g", Blank, "t">>>>)>>]}
StrokeSet ==
    {KeyEv(c, {}) : c \in {"0", "9", "g", "t", "T", "n", "x", "j", "c", "space", "?", "]"}}
    \cup {KeyEv("3", {"alt"}), KeyEv("q", {"ctrl"}), KeyEv("l", {"ctrl"}), KeyEv("T", {"shift"}),
          KeyEv("+", {"ctrl"})}

-----------------------------------------------------------------------------
VARIABLE part

allVars == <<vars, lockVars, clipVars, searchVars, keymapVars, part>>

\* A session that is over.
SessionRest ==
    /\ pc = "exit" /\ phase = "unlockList" /\ attempts = 0 /\ overlay = NoOverlay
    /\ owner = "none" /\ registry = "app" /\ inflight = FALSE /\ worker = Idle
    /\ lockPending = FALSE /\ quit = TRUE /\ ctl = unlock
    /\ prefs = [confirmQuit |-> FALSE, syncOnUnlock |-> FALSE, syncOnLeave |-> FALSE]
    /\ target = FALSE /\ readOnly = FALSE /\ mem = {} /\ disk = {} /\ acked = {}
    /\ forms = 0 /\ faults = 0 /\ away = FALSE

\* A controller that has been dropped.
LockRest ==
    /\ lockState = "active" /\ idle = -1 /\ channel = <<>>
    /\ thread = [s \in Source |-> "none"] /\ told = {} /\ attached = <<>>
    /\ control = "gone" /\ stopped = FALSE /\ events = 0 /\ failures = 0

\* No search has been asked for.
SearchRest ==
    /\ job = "fuzzy" /\ pos = [p |-> 0, v |-> 0, starP |-> NoStar, starV |-> 0]
    /\ pattern = <<>> /\ value = <<>> /\ verdict = "unused"
    /\ needle = <<>> /\ haystack = <<>> /\ entries = <<>> /\ query = "none"

\* A keymap that is being loaded and binds nothing.
KeymapRest ==
    /\ patch = [preset |-> "vim", slots |-> <<>>] /\ todo = <<>> /\ active = {}
    /\ bind = [c \in Command |-> <<>>] /\ rowPlace = [NextTab |-> 1, PrevTab |-> 2, JumpToTab |-> 3]
    /\ stage = "rebind" /\ ctx = "unlock-list"
    /\ pending = Fresh /\ typed = <<>> /\ fired = NothingFired

MCInit ==
    /\ part \in {"session", "lock", "clipboard", "search", "keymap"}
    /\ IF part = "session" THEN Init ELSE SessionRest
    /\ IF part = "lock" THEN LockInit ELSE LockRest
    /\ ClipInit
    /\ IF part = "search" THEN SearchInit ELSE SearchRest
    /\ IF part = "keymap" THEN KeymapInit ELSE KeymapRest

MCNext ==
    /\ UNCHANGED part
    /\ \/ /\ part = "session" /\ Next
          /\ UNCHANGED <<lockVars, clipVars, searchVars, keymapVars>>
       \/ /\ part = "lock" /\ LockNext
          /\ UNCHANGED <<vars, clipVars, searchVars, keymapVars>>
       \/ /\ part = "clipboard" /\ ClipNext
          /\ UNCHANGED <<vars, lockVars, searchVars, keymapVars>>
       \/ /\ part = "search" /\ SearchNext
          /\ UNCHANGED <<vars, lockVars, clipVars, keymapVars>>
       \/ /\ part = "keymap" /\ KeymapNext
          /\ UNCHANGED <<vars, lockVars, clipVars, searchVars>>

MCSpec == /\ MCInit /\ [][MCNext]_allVars
          /\ SessionFairness /\ LockFairness /\ ClipFairness
=============================================================================
