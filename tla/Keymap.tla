------------------------------- MODULE Keymap -------------------------------
(***************************************************************************)
(* The keymap of the TUI (command/keymap.rs, command/registry.rs): the     *)
(* presets, the user's patch over them with its rejection of conflicting   *)
(* keys, and the path of a key event to a command (App::handle_event,      *)
(* on_workspace_key and the handlers of the tabs), with what the hint bar, *)
(* the which-key menu and the palette show of it.                          *)
(*                                                                         *)
(* DATA.  A key is a code and its modifiers.  A key string of the          *)
(* configuration is a sequence of pieces: names, "+" and blanks. Left out: *)
(* upper and lower case of names, visual mode and marks (the Workspace     *)
(* module has them), and the width of the hint bar.                        *)
(***************************************************************************)
EXTENDS Integers, Sequences, SequencesExt, FiniteSets

CONSTANTS
    Patches,      \* the configurations: [preset, slots]
    Strokes,      \* the keys that are pressed
    MaxTyped      \* bound: digits typed in a row

VARIABLES
    patch,        \* the configuration that is loaded
    todo,         \* slots of the patch that are still to be applied
    bind,         \* Keymap: the triggers of each command, in table order
    rowPlace,     \* the order of the tab commands in Keymap::map
    active,       \* the rebound commands that have not been rejected
    stage,        \* "rebind", "reject", "ready"
    ctx,          \* current_context
    pending,      \* PendingSeq: prefix, count
    typed,        \* ghost: the digits typed to the workspace since its last other key
    fired         \* what the last step executed

keymapVars == <<patch, todo, bind, rowPlace, active, stage, ctx, pending, typed, fired>>

----------------------------------------------------------------------------
(* The registry                                                            *)

WorkspaceCtx == {"tree", "detail", "pinned", "settings"}
AllContexts == WorkspaceCtx \cup
    {"unlock-list", "unlock-prompt", "lock-screen", "search", "edit", "history", "confirm",
     "palette", "sync-unlock", "sync-config"}
TreeDetail == {"tree", "detail"}

TabCommand == {"NextTab", "PrevTab", "JumpToTab"}
BulkCommand == {"MoveToGroup", "AddTag", "RemoveTag"}
EntryCommand == {"CopyPassword", "CopyUsername", "EditEntry", "PinToggle"}
NavCommand == {"Next", "Prev", "Parent", "Child", "Confirm", "Cancel"}
SecretsCommand == {"RevealPassword", "SortCycle", "Search", "AddEntry", "DeleteEntry", "History", "Sync",
                   "VisualMode"} \cup EntryCommand \cup BulkCommand
SearchCommand == {"CycleScope", "QuickSelect", "OpenEntry"}
Command == {"Quit", "LockNow", "Help", "JumpBack", "JumpForward", "FocusPane", "Generate"}
           \cup NavCommand \cup TabCommand \cup SearchCommand \cup SecretsCommand

ContextsOf(c) ==
    CASE c = "Quit" -> AllContexts
      [] c \in TabCommand \cup {"LockNow"} -> WorkspaceCtx
      [] c = "Help" -> WorkspaceCtx \cup {"unlock-list", "lock-screen"}
      [] c = "Cancel" -> {"detail", "unlock-prompt", "search", "edit", "history", "confirm", "sync-unlock", "sync-config"}
      [] c = "Confirm" -> {"tree", "unlock-list", "settings", "search", "edit", "history", "confirm", "sync-config"}
      [] c \in {"Next", "Prev"} -> WorkspaceCtx \cup {"unlock-list", "history", "search"}
      [] c \in {"JumpBack", "RevealPassword", "History"} -> TreeDetail \cup {"pinned"}
      [] c \in BulkCommand \cup {"JumpForward", "VisualMode"} -> {"tree"}
      [] c \in SearchCommand -> {"search"}
      [] c = "Generate" -> {"edit"}
      [] OTHER -> TreeDetail
QuickBar == {"Next", "Prev", "Search", "AddEntry", "EditEntry", "CopyPassword"}

----------------------------------------------------------------------------
(* Keys and triggers                                                       *)

NamedKey == {"esc", "enter", "tab", "backtab", "up", "down", "left", "right", "home", "end", "pgup", "pgdn", "f1"}
DigitKeys == <<"1", "2", "3", "4", "5", "6", "7", "8", "9">>
DigitOf(code) == IF code = "0" THEN 0 ELSE SelectInSeq(DigitKeys, LAMBDA d : d = code)
IsDigit(code) == code = "0" \/ code \in Range(DigitKeys)
CharKey == {"a", "c", "C", "d", "e", "f", "g", "h", "H", "i", "j", "k", "l", "m", "n", "o", "p", "q", "s", "t",
            "T", "v", "x", "y", "?", "/", "[", "]", "+", "0", "space"} \cup Range(DigitKeys)

KeyEv(code, mods) == [code |-> code, mods |-> mods]
Ch(code) == [kind |-> "key", keys |-> <<KeyEv(code, {})>>]
Ctrl(code) == [kind |-> "key", keys |-> <<KeyEv(code, {"ctrl"})>>]
Alt(code) == [kind |-> "key", keys |-> <<KeyEv(code, {"alt"})>>]
AltDigits == [i \in DOMAIN DigitKeys |-> Alt(DigitKeys[i])]
Chord(kind, second) == [kind |-> kind, keys |-> <<KeyEv("g", {}), KeyEv(second, {})>>]

\* key_event_eq: terminals disagree on Shift of a character.
KeyEq(k, ev) ==
    LET mask == IF k.code \in NamedKey THEN {"ctrl", "alt", "shift"} ELSE {"ctrl", "alt"}
    IN k.code = ev.code /\ k.mods \cap mask = ev.mods \cap mask
SeqEq(a, b) == Len(a) = Len(b) /\ \A i \in DOMAIN a : KeyEq(a[i], b[i])

AltDigit(ev) == IF "alt" \in ev.mods /\ ev.code \in Range(DigitKeys) THEN DigitOf(ev.code) ELSE 0
PlainDigit(ev) == ev.mods \cap {"ctrl", "alt"} = {} /\ IsDigit(ev.code)

\* The two presets differ in the keys of the tabs, and in F1.
Preset == [p \in {"vim", "plain"} |->
    [Quit |-> <<Ctrl("q")>>, LockNow |-> <<Ctrl("l")>>,
     Help |-> IF p = "plain" THEN <<Ch("?"), Ch("f1")>> ELSE <<Ch("?")>>,
     Cancel |-> <<Ch("esc")>>, Confirm |-> <<Ch("enter")>>,
     Next |-> <<Ch("j"), Ch("down")>>, Prev |-> <<Ch("k"), Ch("up")>>,
     Parent |-> <<Ch("h"), Ch("left")>>, Child |-> <<Ch("l"), Ch("right")>>,
     JumpBack |-> <<Ctrl("o"), Alt("left")>>, JumpForward |-> <<Ctrl("i"), Alt("right")>>,
     CycleScope |-> <<Ctrl("s")>>, OpenEntry |-> <<Ch("tab")>>, QuickSelect |-> AltDigits,
     FocusPane |-> <<Ch("tab")>>, Search |-> <<Ch("/")>>,
     AddEntry |-> <<Ch("a")>>, EditEntry |-> <<Ch("e")>>, DeleteEntry |-> <<Ch("d")>>,
     CopyPassword |-> <<Ch("c")>>, CopyUsername |-> <<Ch("C")>>, RevealPassword |-> <<Ch("space")>>,
     History |-> <<Ch("H")>>, PinToggle |-> <<Ch("p")>>, SortCycle |-> <<Ch("o")>>,
     VisualMode |-> <<Ch("v")>>, MoveToGroup |-> <<Ch("m")>>, AddTag |-> <<Ch("t")>>, RemoveTag |-> <<Ch("T")>>,
     Sync |-> <<Ch("s")>>, Generate |-> <<Ctrl("g")>>,
     NextTab |-> IF p = "plain" THEN <<Ch("]")>> ELSE <<Chord("seq", "t")>>,
     PrevTab |-> IF p = "plain" THEN <<Ch("[")>> ELSE <<Chord("seq", "T")>>,
     JumpToTab |-> IF p = "plain" THEN AltDigits ELSE <<Chord("count", "t")>> \o AltDigits]]

----------------------------------------------------------------------------
(* The grammar of key strings                                              *)

Blank == "blank"

SplitPieces(s, sep) ==
    FoldLeft(LAMBDA acc, x : IF x = sep THEN Append(acc, <<>>) ELSE [acc EXCEPT ![Len(acc)] = Append(@, x)],
             << <<>> >>, s)

Invalid == [kind |-> "invalid"]
\* The modifiers, then the key, or Invalid.
ModifiedKey(mods, key) ==
    IF (\A m \in Range(mods) : m \in {<<"ctrl">>, <<"alt">>})
       /\ Len(key) = 1 /\ key[1] \in NamedKey \cup CharKey
    THEN KeyEv(key[1], UNION {Range(m) : m \in Range(mods)}) ELSE Invalid

\* parse_single: a plus separates, and a doubled one at the end is the key.
ParseSingle(token) ==
    LET parts == SplitPieces(token, "+") IN
    IF token = <<"+">> THEN KeyEv("+", {})
    ELSE IF Len(token) >= 2 /\ SubSeq(token, Len(token) - 1, Len(token)) = <<"+", "+">>
    THEN ModifiedKey(SplitPieces(SubSeq(token, 1, Len(token) - 2), "+"), <<"+">>)
    ELSE ModifiedKey(Front(parts), Last(parts))

ParseKey(s) ==
    LET tokens == SplitPieces(s, Blank)
        keys == [i \in DOMAIN tokens |-> ParseSingle(tokens[i])]
    IN IF s = <<>> \/ Len(tokens) > 2 \/ Invalid \in Range(keys) THEN Invalid
       ELSE [kind |-> IF Len(keys) = 1 THEN "key" ELSE "seq", keys |-> keys]

\* render_key_grammar
RenderKey(k) ==
    (IF "ctrl" \in k.mods THEN <<"ctrl", "+">> ELSE <<>>) \o
    (IF "alt" \in k.mods THEN <<"alt", "+">> ELSE <<>>) \o <<k.code>>
RenderGrammar(t) ==
    IF Len(t.keys) = 1 THEN RenderKey(t.keys[1])
    ELSE RenderKey(t.keys[1]) \o <<Blank>> \o RenderKey(t.keys[2])

----------------------------------------------------------------------------
(* from_patch                                                              *)

TriggersConflict(a, b) == a.kind = b.kind /\ SeqEq(a.keys, b.keys)

\* Two commands that share a trigger and a context.
Clash(m, c, d) ==
    /\ c # d
    /\ \E i \in DOMAIN m[c], j \in DOMAIN m[d] : TriggersConflict(m[c][i], m[d][j])
    /\ ContextsOf(c) \cap ContextsOf(d) # {}
Conflicting(m, c) == \E d \in Command : Clash(m, c, d)

\* parse_bind_value; `false` is no key string, `true` is an error.
BindingIsValid(value) == value # <<"true">> /\ \A i \in DOMAIN value : ParseKey(value[i]) # Invalid
ParsedBinding(value) == [i \in DOMAIN value |-> ParseKey(value[i])]

\* rebind and restore take the rows of a command out of the map and push the
\* new ones at its end.
RowsPushed(c) ==
    IF c \notin TabCommand THEN rowPlace
    ELSE [d \in TabCommand |-> IF d = c THEN Cardinality(TabCommand)
                               ELSE IF rowPlace[d] > rowPlace[c] THEN rowPlace[d] - 1 ELSE rowPlace[d]]

\* One slot: an unknown name or an invalid key is skipped with a warning.
ApplySlot ==
    /\ stage = "rebind" /\ todo # <<>>
    /\ todo' = Tail(todo)
    /\ IF Head(todo).slot \in Command /\ BindingIsValid(Head(todo).value)
       THEN /\ bind' = [bind EXCEPT ![Head(todo).slot] = ParsedBinding(Head(todo).value)]
            /\ rowPlace' = RowsPushed(Head(todo).slot)
            /\ active' = active \cup {Head(todo).slot}
       ELSE UNCHANGED <<bind, rowPlace, active>>
    /\ UNCHANGED <<patch, stage, ctx, pending, typed, fired>>

AllApplied ==
    /\ stage = "rebind" /\ todo = <<>>
    /\ stage' = "reject"
    /\ UNCHANGED <<patch, todo, bind, rowPlace, active, ctx, pending, typed, fired>>

\* The first of the rebound commands, in the order of the slots, that is in
\* conflict now.
IsFirstConflict(c) ==
    /\ c \in active /\ Conflicting(bind, c)
    /\ \E i \in DOMAIN patch.slots :
          /\ patch.slots[i].slot = c
          /\ \A j \in 1 .. i - 1 :
                LET d == patch.slots[j].slot IN d \in active => ~ Conflicting(bind, d)

StillActive(c) == active \ {c}

\* restore: the rejected command has the keys of the preset again, which may
\* be in conflict with a rebind that was kept.
RejectOne ==
    /\ stage = "reject"
    /\ \E c \in Command :
          /\ IsFirstConflict(c)
          /\ bind' = [bind EXCEPT ![c] = Preset[patch.preset][c]]
          /\ rowPlace' = RowsPushed(c)
          /\ active' = StillActive(c)
    /\ UNCHANGED <<patch, todo, stage, ctx, pending, typed, fired>>

NoneConflicts == \A c \in active : ~ Conflicting(bind, c)
KeymapReady ==
    /\ stage = "reject" /\ NoneConflicts
    /\ stage' = "ready"
    /\ UNCHANGED <<patch, todo, bind, rowPlace, active, ctx, pending, typed, fired>>

----------------------------------------------------------------------------
(* resolve: the tab motions                                                *)

Matches(c, ev) == \E i \in DOMAIN bind[c] : bind[c][i].kind = "key" /\ KeyEq(bind[c][i].keys[1], ev)

NoCount == -1
Fresh == [prefix |-> <<>>, count |-> NoCount]

\* The sequences of the tab commands: command, kind and keys.
ChordsOf(c) == {<<c, t.kind, t.keys>> : t \in {u \in Range(bind[c]) : u.kind # "key"}}
TabChords == UNION {ChordsOf(c) : c \in TabCommand}
HasCountSeq == \E s \in TabChords : s[2] = "count"
Starts(ev) == \E s \in TabChords : KeyEq(s[3][1], ev)

DirectTab(ev) == {c \in TabCommand : Matches(c, ev)}

\* saturating_mul, saturating_add of u16
Accumulate(count, d) ==
    LET n == (IF count = NoCount THEN 0 ELSE count) * 10 + d IN IF n > 65535 THEN 65535 ELSE n

\* completed_command: a pending count selects the count variant.
CompletedCommand(keys, count) ==
    LET Of(kind) == {s[1] : s \in {u \in TabChords : u[2] = kind /\ SeqEq(u[3], keys)}}
    IN IF count # NoCount
       THEN (IF Of("count") # {} THEN Of("count") ELSE Of("seq"))
       ELSE (IF Of("seq") # {} THEN Of("seq") ELSE Of("count"))

Extends(ev) ==
    \E s \in TabChords : Len(s[3]) > Len(pending.prefix) /\ SeqEq(SubSeq(s[3], 1, Len(pending.prefix) + 1), Append(pending.prefix, ev))

\* What continuations offers: for each next key, the command of the first row
\* of the map that has it.
ContinuingRows == {s \in TabChords : pending.prefix # <<>> /\ KeyEq(s[3][1], pending.prefix[1])}
Continuations ==
    {<<s[3][2], s[1]>> : s \in {u \in ContinuingRows :
        \A v \in ContinuingRows : KeyEq(v[3][2], u[3][2]) => rowPlace[u[1]] <= rowPlace[v[1]]}}

NothingFired == [cmd |-> "none", count |-> NoCount, by |-> "none"]
Execute(c, n) == fired' = [cmd |-> c, count |-> n, by |-> "key"]

\* A key of the workspace that resolve takes.
TabKey(ev) ==
    \/ /\ \/ AltDigit(ev) # 0
          \/ pending.prefix = <<>> /\ ~ (HasCountSeq /\ PlainDigit(ev))
       /\ \E c \in DirectTab(ev) :
             Execute(c, IF c # "JumpToTab" THEN NoCount
                        ELSE IF AltDigit(ev) # 0 THEN AltDigit(ev) ELSE pending.count)
       /\ pending' = Fresh /\ typed' = <<>>
    \/ /\ ~ (AltDigit(ev) # 0 /\ DirectTab(ev) # {})
       /\ pending.prefix # <<>> /\ Extends(ev)
       /\ LET keys == Append(pending.prefix, ev)
              done == CompletedCommand(keys, pending.count)
          IN IF done # {}
             THEN /\ \E c \in done : Execute(c, IF c = "JumpToTab" THEN pending.count ELSE NoCount)
                  /\ pending' = Fresh /\ typed' = <<>>
             ELSE pending' = [pending EXCEPT !.prefix = keys] /\ fired' = NothingFired /\ UNCHANGED typed
    \/ /\ pending.prefix = <<>> /\ HasCountSeq /\ PlainDigit(ev)
       /\ Len(typed) < MaxTyped
       /\ pending' = [pending EXCEPT !.count = Accumulate(@, DigitOf(ev.code))]
       /\ typed' = Append(typed, DigitOf(ev.code))
       /\ fired' = NothingFired
    \/ /\ ~ (HasCountSeq /\ PlainDigit(ev)) /\ DirectTab(ev) = {}
       /\ pending.prefix = <<>> /\ Starts(ev)
       /\ pending' = [pending EXCEPT !.prefix = <<ev>>]
       /\ fired' = NothingFired
       /\ UNCHANGED typed

\* A key that is no tab motion: what is pending is dropped.
IsStray(ev) ==
    IF pending.prefix # <<>>
    THEN ~ (AltDigit(ev) # 0 /\ DirectTab(ev) # {}) /\ ~ Extends(ev)
    ELSE ~ (HasCountSeq /\ PlainDigit(ev)) /\ DirectTab(ev) = {} /\ ~ Starts(ev)

----------------------------------------------------------------------------
(* The way of a key to a command                                           *)

\* Faulty variant: a command is missing from the list of the tab.
BugOnSecrets(ev) ==
    IF ctx = "tree" /\ ev.code = "space" THEN {"ToggleMark"}
    ELSE IF \E c \in (SecretsCommand \cup {"FocusPane"}) \ {"CopyPassword"} : Matches(c, ev)
    THEN {c \in (SecretsCommand \cup {"FocusPane"}) \ {"CopyPassword"} : Matches(c, ev)}
    ELSE {c \in NavCommand : Matches(c, ev)}
\* on_secrets_key: Space marks in the tree, whatever is bound to it.
OnSecrets(ev) ==
    LET listed == SecretsCommand \cup {"FocusPane", "JumpBack"} \cup (IF ctx = "tree" THEN {"JumpForward"} ELSE {})
    IN IF ctx = "tree" /\ ev.code = "space" THEN {"ToggleMark"}
       ELSE IF \E c \in listed : Matches(c, ev) THEN {c \in listed : Matches(c, ev)}
       ELSE {c \in NavCommand : Matches(c, ev)}
OnPinned(ev) ==
    LET listed == {"JumpBack", "RevealPassword", "History"} IN
    IF \E c \in listed : Matches(c, ev) THEN {c \in listed : Matches(c, ev)}
    ELSE {c \in NavCommand : Matches(c, ev)}
\* dispatch_active_tab_key
Dispatch(ev) ==
    CASE ctx \in TreeDetail -> OnSecrets(ev)
      [] ctx = "pinned" -> OnPinned(ev)
      [] ctx \in {"settings", "unlock-list"} -> {c \in NavCommand : Matches(c, ev)}
      [] OTHER -> {}

Overlay == AllContexts \ (WorkspaceCtx \cup {"unlock-list", "unlock-prompt", "lock-screen"})
Globals(ev) == Matches("Quit", ev) \/ (Matches("LockNow", ev) /\ ctx \in WorkspaceCtx)
OpensPalette(ev) ==
    Matches("Help", ev) /\ ctx \notin Overlay \cup {"unlock-prompt"}

\* handle_event: the global keys leave what is pending as it is.
GlobalKey(ev) ==
    /\ Globals(ev)
    /\ Execute(IF Matches("Quit", ev) THEN "Quit" ELSE "LockNow", NoCount)
    /\ ctx' = IF Matches("Quit", ev) THEN "confirm" ELSE "lock-screen"
    /\ UNCHANGED <<pending, typed>>
HelpKey(ev) ==
    /\ ~ Globals(ev) /\ OpensPalette(ev)
    /\ Execute("Help", NoCount)
    /\ pending' = Fresh /\ typed' = <<>>
    /\ UNCHANGED ctx
WorkspaceKey(ev) ==
    /\ ~ Globals(ev) /\ ~ OpensPalette(ev) /\ ctx \in WorkspaceCtx
    /\ \/ TabKey(ev)
       \/ /\ IsStray(ev)
          /\ pending' = Fresh /\ typed' = <<>>
          /\ IF Dispatch(ev) = {} THEN fired' = NothingFired
             ELSE \E c \in Dispatch(ev) : Execute(c, NoCount)
    /\ UNCHANGED ctx
UnlockListKey(ev) ==
    /\ ~ Globals(ev) /\ ~ OpensPalette(ev) /\ ctx = "unlock-list"
    /\ IF Dispatch(ev) = {} THEN fired' = NothingFired
       ELSE \E c \in Dispatch(ev) : Execute(c, NoCount)
    /\ UNCHANGED <<ctx, pending, typed>>
KeyPress ==
    /\ stage = "ready"
    /\ \E ev \in Strokes : GlobalKey(ev) \/ HelpKey(ev) \/ WorkspaceKey(ev) \/ UnlockListKey(ev)
    /\ UNCHANGED <<patch, todo, bind, rowPlace, active, stage>>

\* The user goes elsewhere by mouse, or a screen gives way to another; an
\* unlock drops what is pending (try_unlock).
GoTo ==
    /\ stage = "ready"
    /\ ctx' \in WorkspaceCtx \cup {"unlock-list"} /\ ctx' # ctx
    /\ IF ctx \in {"unlock-list", "lock-screen"} THEN pending' = Fresh /\ typed' = <<>> ELSE UNCHANGED <<pending, typed>>
    /\ fired' = NothingFired
    /\ UNCHANGED <<patch, todo, bind, rowPlace, active, stage>>

----------------------------------------------------------------------------
(* The palette                                                             *)

\* What the enablement of commands looks at.
AppState == [entry : BOOLEAN, marks : BOOLEAN, syncing : BOOLEAN, readOnly : BOOLEAN, remote : BOOLEAN]
RoCommand == {"AddEntry", "EditEntry", "DeleteEntry", "Sync"} \cup BulkCommand
DuringSync == {"Quit", "LockNow", "Help"} \cup TabCommand

\* command_state: TRUE is Enabled.
CommandState(c, a) ==
    /\ a.syncing => c \in DuringSync
    /\ ~ (a.readOnly /\ c \in RoCommand)
    /\ CASE c \in EntryCommand -> a.entry
         [] c = "DeleteEntry" -> a.marks \/ a.entry
         [] c \in BulkCommand -> a.marks
         [] c \in {"RevealPassword", "History"} -> ctx = "pinned" \/ a.entry
         [] c = "Sync" -> a.remote
         [] OTHER -> TRUE
RowState(c, a) == ctx \in ContextsOf(c) /\ CommandState(c, a)

\* What execute_command and the handlers it calls do: refuse, or act.
Acts(c, a) ==
    /\ ~ (a.readOnly /\ c \in RoCommand)
    /\ c \in DuringSync \/ ~ a.syncing
    /\ CASE c \in EntryCommand -> a.entry
         [] c = "DeleteEntry" -> a.marks \/ a.entry
         [] c \in BulkCommand -> a.marks
         [] c = "RevealPassword" -> ctx = "pinned" \/ a.entry
         [] c = "History" -> ctx = "pinned" \/ a.entry
         [] c = "Sync" -> a.remote
         [] c \in SearchCommand \cup {"Generate"} -> FALSE
         [] OTHER -> TRUE

\* Enter on a row of the palette (on_palette_key).
RunFromPalette ==
    /\ stage = "ready" /\ ctx \in WorkspaceCtx
    /\ pending = Fresh /\ fired = NothingFired
    /\ \E c \in Command, a \in AppState :
          fired' = [cmd |-> c, count |-> NoCount,
                    by |-> IF RowState(c, a) # (ctx \in ContextsOf(c) /\ Acts(c, a)) THEN "mismatch"
                           ELSE IF RowState(c, a) THEN "palette" ELSE "refused"]
    /\ UNCHANGED <<patch, todo, bind, rowPlace, active, stage, ctx, pending, typed>>

----------------------------------------------------------------------------
KeymapInit ==
    /\ patch \in Patches
    /\ todo = patch.slots
    /\ bind = Preset[patch.preset]
    /\ rowPlace = [NextTab |-> 1, PrevTab |-> 2, JumpToTab |-> 3]
    /\ active = {}
    /\ stage = "rebind"
    /\ ctx = "unlock-list"
    /\ pending = Fresh /\ typed = <<>>
    /\ fired = NothingFired

Load == ApplySlot \/ AllApplied \/ RejectOne \/ KeymapReady
KeymapNext == Load \/ KeyPress \/ GoTo \/ RunFromPalette
KeymapSpec == KeymapInit /\ [][KeymapNext]_keymapVars

\* What a trigger can be: one key, or the two keys of a chord.
KeyEvents == [code : NamedKey \cup CharKey, mods : SUBSET {"ctrl", "alt"}]
Triggers == {t \in [kind : {"key", "seq", "count"}, keys : Seq(KeyEvents)] :
                Len(t.keys) = IF t.kind = "key" THEN 1 ELSE 2}
IsText(s) == s \in Seq(Range(s))

\* The presets give every command triggers, a count to JumpToTab only, and have
\* no conflict of their own; a patch names a preset, and what it binds to a command is a list of texts
\* or a Boolean.
ASSUME PresetAssumption ==
    /\ \A p \in {"vim", "plain"} :
          /\ DOMAIN Preset[p] = Command
          /\ \A c \in Command : Preset[p][c] \in Seq(Triggers) /\ ~ Conflicting(Preset[p], c)
          /\ \A c \in Command : \A i \in DOMAIN Preset[p][c] :
                Preset[p][c][i].kind = "count" => c = "JumpToTab"
    /\ \A q \in Patches :
          /\ q.preset \in {"vim", "plain"} /\ IsText(q.slots)
          /\ \A i \in DOMAIN q.slots :
                LET v == q.slots[i].value IN
                IsText(v) /\ (v = <<"true">> \/ \A j \in DOMAIN v : IsText(v[j]))

----------------------------------------------------------------------------
(* Properties                                                              *)

\* Whatever the user's patch says, the keymap that is used gives no key to
\* two commands of one context: rejecting a rebind brings a default back,
\* which may collide with a rebind that was kept (from_patch).
UniqueKeys == stage = "ready" => \A c \in Command : ~ Conflicting(bind, c)

\* The key strings shown to the user are those the configuration accepts.
GrammarRoundTrips ==
    \A c \in Command : \A i \in DOMAIN bind[c] :
        bind[c][i].kind # "count" => ParseKey(RenderGrammar(bind[c][i])) = bind[c][i]

\* The number a sequence of digits stands for.
Decimal(s) == FoldLeft(LAMBDA n, d : 10 * n + d, 0, s)

\* The count that a {count}gt will use is the number typed right before it, at
\* most 65535: no digit of an abandoned count is left over (PendingSeq).
CountIsTyped ==
    pending.count = IF typed = <<>> THEN NoCount
                    ELSE IF Decimal(typed) > 65535 THEN 65535 ELSE Decimal(typed)

\* A key of the hint bar fires its command: the first trigger of a command
\* of the bar, if it is one key that no count and no sequence takes.
HintsFire ==
    stage = "ready" /\ ctx \in WorkspaceCtx \cup {"unlock-list"} =>
      \A c \in QuickBar : ctx \in ContextsOf(c) /\ bind[c] # <<>> =>
         LET t == bind[c][1] k == t.keys[1] IN
         t.kind = "key" /\ ~ PlainDigit(k) /\ ~ Starts(k) /\ ~ (ctx = "tree" /\ k.code = "space")
           => Dispatch(k) = {c}

\* The which-key menu names the command that its key fires when no count was
\* typed: "derived from the same Keymap continuations dispatch uses, so it can
\* never drift" (widgets/which_key.rs:3-6).  continuations takes the first row
\* of the map and completed_command a plain motion before a count, which part
\* when a rebind has moved the motion behind the count.
WhichKeyTells ==
    \A row \in Continuations : CompletedCommand(Append(pending.prefix, row[1]), NoCount) = {row[2]}

\* What holds of the menu with any patch: each key that continues the chord has
\* one row, and its command is the one the key fires either without a count or
\* with one.  While no motion is behind the count the menu never drifts.
MenuIsFair ==
    /\ \A s \in ContinuingRows : \E row \in Continuations :
          /\ KeyEq(row[1], s[3][2])
          /\ \A rival \in Continuations : KeyEq(rival[1], s[3][2]) => rival[2] = row[2]
    /\ \A row \in Continuations : \E n \in {NoCount, 1} :
          row[2] \in CompletedCommand(Append(pending.prefix, row[1]), n)
    /\ (\A c \in TabCommand : rowPlace[c] <= rowPlace["JumpToTab"]) => WhichKeyTells

\* A row of the palette that is enabled acts, and one that is disabled would
\* not have, also while a sync has the vault or in a read-only session.
PaletteTells == fired.by # "mismatch"

\* With any patch a key means one command, and what hints, the palette and the
\* count say of a key is what it does; the which-key menu says so until a rebind
\* of a tab motion reorders the map (MenuIsFair).
KeysTellTheTruth ==
    /\ UniqueKeys /\ GrammarRoundTrips /\ CountIsTyped
    /\ HintsFire /\ MenuIsFair /\ PaletteTells
=============================================================================
