------------------------------ MODULE Workspace ------------------------------
(***************************************************************************)
(* The unlocked workspace of the TUI: the tree with its selection, marks   *)
(* and visual mode (widgets/entry_tree.rs), the tabs and pins (tabs.rs),   *)
(* the recents (recents.rs), the jump history (jump_history.rs), and the   *)
(* commands of app.rs that move between them, change entries, hand the     *)
(* vault to a sync and take it back, lock and unlock.                      *)
(*                                                                         *)
(* DATA.  An entry is where it lies: a group, the recycle bin, or not (any *)
(* more, or not yet) in the vault.  Left out: the scroll offset, the       *)
(* messages of the status bar and the text of an entry.                    *)
(***************************************************************************)
EXTENDS Naturals, Sequences, SequencesExt, FiniteSets, FiniteSetsExt

CONSTANTS
    TitleOrder, ModifiedOrder, UuidOrder,  \* the entries, in three orders
    Subgroups,      \* the child groups of each group, by name
    Root, Bin,      \* the root group and the recycle bin
    StartPlace,     \* where the entries lie at first
    MaxPins, RecentsCap, JumpCap,  \* MAX_PINS, RECENTS_CAP, JUMP_HISTORY_CAP
    MaxMoves,    \* bound: commands of a behaviour
    Nothing         \* no node

VARIABLES
    place, savedPlace, \* the entries in memory and in the file
    screen,        \* "workspace", "syncing" (the worker has the vault), "locked"
    readOnly,      \* --read-only
    tree,          \* TreeState: expanded, selected, sort
    pane,          \* Focus: "tree" or "detail"
    anchor,        \* TreeMode: the row where visual mode began; 0 is normal
    marks,         \* the marked entries
    reveal,        \* reveal_password
    tabs,          \* TabBar: active, pinned, activation
    recents,       \* Recents, most recent first
    trail,         \* JumpHistory: back, forward
    layer,         \* the open overlay
    stored,        \* the pins and recents of ui_config
    revealedFor,   \* ghost: the entry shown when the user asked to see it
    leftBy,        \* ghost: the node that was jumped back from, until the next step
    spent          \* commands so far

wsVars == <<place, savedPlace, screen, readOnly, tree, pane, anchor, marks, reveal, tabs, recents,
            trail, layer, stored, revealedFor, leftBy, spent>>

Entry == Range(TitleOrder)
Group == DOMAIN Subgroups
Exists(v, e) == e \in Entry /\ v[e] \in Group
NoLayer == [kind |-> "none"]

\* The orders list the entries, finitely many groups hang below the root, and a
\* node, a tab and the state of an entry that lies nowhere are different things.
ASSUME WorkspaceAssumption ==
    /\ TitleOrder \in Seq(Entry) /\ ModifiedOrder \in Seq(Entry) /\ UuidOrder \in Seq(Entry)
    /\ Range(ModifiedOrder) = Entry /\ Range(UuidOrder) = Entry
    /\ IsFiniteSet(Group) /\ Subgroups \in [Group -> Seq(Group)] /\ {Root, Bin} \subseteq Group
    /\ \A part \in SUBSET Group :
          Root \in part /\ (\A p \in part : Range(Subgroups[p]) \subseteq part) => part = Group
    /\ Entry \cap Group = {} /\ Nothing \notin Entry \cup Group
    /\ {"secrets", "settings"} \cap Entry = {} /\ {"gone", "unborn"} \cap Group = {}
    /\ StartPlace \in [Entry -> Group \cup {"gone", "unborn"}]
    /\ MaxPins \in Nat \ {0} /\ RecentsCap \in Nat /\ JumpCap \in Nat \ {0}

----------------------------------------------------------------------------
(* The rows of the tree                                                    *)

InSet(order, S) == FoldLeft(LAMBDA acc, e : IF e \in S THEN Append(acc, e) ELSE acc, <<>>, order)

SortEntries(S, sort, r) ==
    CASE sort = "recently-used" -> InSet(r, S) \o InSet(TitleOrder, S \ Range(r))
      [] sort = "title" -> InSet(TitleOrder, S)
      [] sort = "last-modified" -> InSet(ModifiedOrder, S)
      [] sort = "group" -> InSet(UuidOrder, S)

SortNext(sort) ==
    CASE sort = "recently-used" -> "title"
      [] sort = "title" -> "last-modified"
      [] sort = "last-modified" -> "group"
      [] sort = "group" -> "recently-used"

\* build_rows: the groups of a group, each with what is in it if it is
\* expanded, then its entries.  The recycle bin is not shown.  "below" holds
\* the rows under each group; a round of the loop goes one group deeper.
Deeper(rows) == [i \in DOMAIN rows |-> [rows[i] EXCEPT !.depth = @ + 1]]
TreeRow(n) == [node |-> n, depth |-> 0]
OfGroup(t, below, c) ==
    IF c = Bin THEN <<>> ELSE <<TreeRow(c)>> \o (IF c \in t.expanded THEN Deeper(below[c]) ELSE <<>>)
Walk(v, t, r, below, g) ==
    LET groups == [i \in DOMAIN Subgroups[g] |-> OfGroup(t, below, Subgroups[g][i])]
        here == SortEntries({e \in Entry : v[e] = g}, t.sort, r)
    IN FoldLeft(LAMBDA acc, rows : acc \o rows, <<>>, groups) \o [i \in DOMAIN here |-> TreeRow(here[i])]
BuildRows(v, t, r) ==
    FoldSet(LAMBDA x, below : [g \in Group |-> Walk(v, t, r, below, g)],
            [g \in Group |-> <<>>], Group)[Root]
Rows == BuildRows(place, tree, recents)

HasChildren(v, g) == Subgroups[g] # <<>> \/ \E e \in Entry : v[e] = g

\* The row of a node, 0 if it is not shown.
IndexOf(rows, n) == SelectInSeq(rows, LAMBDA row : row.node = n)
SelectedIndex(rows) == IndexOf(rows, tree.selected)
First(rows) == IF rows = <<>> THEN Nothing ELSE rows[1].node

\* node_path without the target: the groups to expand, which are the ones
\* that hold the group, at any depth, and the group itself.
Closed(part) == \A p \in part : Range(Subgroups[p]) \subseteq part
Above(g) == {a \in Group \ {Root} : \A part \in SUBSET Group : a \in part /\ Closed(part) => g \in part}
Ancestors(v, n) == IF n \in Group THEN Above(n) \ {n}
                   ELSE IF Exists(v, n) THEN Above(v[n]) ELSE {}

----------------------------------------------------------------------------
(* TabBar                                                                  *)

TabCount(t) == Len(t.pinned) + 2
TabAt(t, i) == IF i = 0 THEN "secrets" ELSE IF i <= Len(t.pinned) THEN t.pinned[i] ELSE "settings"
ActiveTab == TabAt(tabs, tabs.active)
OnPin == ActiveTab \in Entry

Without(s, e) == InSet(s, Range(s) \ {e})
ToFront(s, e) == <<e>> \o Without(s, e)

RecordActivation(t) ==
    IF TabAt(t, t.active) \in Entry
    THEN [t EXCEPT !.activation = ToFront(@, TabAt(t, t.active))] ELSE t
TabNext(t) == RecordActivation([t EXCEPT !.active = (@ + 1) % TabCount(t)])
TabPrev(t) == RecordActivation([t EXCEPT !.active = (@ + TabCount(t) - 1) % TabCount(t)])
TabJump(t, n) == IF n \in 1 .. TabCount(t) THEN RecordActivation([t EXCEPT !.active = n - 1]) ELSE t

ClampActive(t) == [t EXCEPT !.active = IF @ > TabCount(t) - 1 THEN TabCount(t) - 1 ELSE @]

Unpin(t, e) == [t EXCEPT !.pinned = Without(@, e), !.activation = Without(@, e)]

\* toggle_pin: a pin too many evicts the one activated longest ago.
TogglePin(t, e) ==
    LET room == IF Len(t.pinned) >= MaxPins THEN Unpin(t, Last(t.activation)) ELSE t
    IN ClampActive(
         IF e \in Range(t.pinned) THEN Unpin(t, e)
         ELSE [room EXCEPT !.pinned = Append(@, e), !.activation = <<e>> \o @])

Dedup1(s) == FoldLeft(LAMBDA acc, u : IF u \in Range(acc) THEN acc ELSE Append(acc, u), <<>>, s)
Truncate(s, n) == SubSeq(s, 1, IF Len(s) < n THEN Len(s) ELSE n)

\* with_pins: the leftmost pin counts as the one activated longest ago.
WithPins(s) ==
    LET pins == Truncate(Dedup1(s), MaxPins)
    IN [active |-> 0, pinned |-> pins, activation |-> Reverse(pins)]

Bumped(r, e) == Truncate(ToFront(r, e), RecentsCap)
Forget(r, S) == InSet(r, Range(r) \ S)

----------------------------------------------------------------------------
(* JumpHistory                                                             *)

Cap(s) == IF Len(s) > JumpCap THEN SubSeq(s, Len(s) - JumpCap + 1, Len(s)) ELSE s
PushJump(h, n) ==
    IF h.back # <<>> /\ Last(h.back) = n THEN h ELSE [back |-> Cap(Append(h.back, n)), forward |-> <<>>]

\* Faulty variant: a step back forgets the node it leaves.
BugStepBack(h, current) ==
    LET a == PushJump(h, current)
    IN IF Len(a.back) < 2 THEN [h |-> a, to |-> Nothing]
       ELSE [h |-> [a EXCEPT !.back = Front(@)], to |-> Last(Front(a.back))]
\* back: the selection may have moved since, so the trail is first brought
\* to where the user is.
StepBack(h, current) ==
    LET a == PushJump(h, current)
    IN IF Len(a.back) < 2 THEN [h |-> a, to |-> Nothing]
       ELSE [h |-> [back |-> Front(a.back), forward |-> Append(a.forward, Last(a.back))],
             to |-> Last(Front(a.back))]
StepForward(h, current) ==
    IF h.forward = <<>> THEN [h |-> h, to |-> Nothing]
    ELSE LET aligned == IF h.back # <<>> /\ Last(h.back) = current THEN h.back ELSE Append(h.back, current)
         IN [h |-> [back |-> Cap(Append(aligned, Last(h.forward))), forward |-> Front(h.forward)],
             to |-> Last(h.forward)]

----------------------------------------------------------------------------
(* What is on screen, and the pieces of several commands                   *)

Open == screen = "workspace"
AtWork == Open /\ layer = NoLayer
InSecrets == AtWork /\ ActiveTab = "secrets"
InTree == InSecrets /\ pane = "tree"
SelectedEntry == Exists(place, tree.selected)
Current == IF OnPin THEN ActiveTab ELSE tree.selected

\* The entry whose fields the screen shows.
Shown == IF OnPin THEN ActiveTab
         ELSE IF ActiveTab = "secrets" /\ SelectedEntry THEN tree.selected ELSE Nothing

\* persist_ui_state: nothing while no vault is open.
PersistUiState == stored' = IF Open THEN [pinned |-> tabs'.pinned, recents |-> recents'] ELSE stored

Select(n) == tree' = [tree EXCEPT !.selected = n]
ResetView(changed) == reveal' = IF changed THEN FALSE ELSE reveal

\* A command is counted, and the ghosts follow what it shows.
Step == /\ spent < MaxMoves /\ spent' = spent + 1
        /\ leftBy' = Nothing
        /\ revealedFor' = IF reveal' THEN revealedFor ELSE Nothing

\* execute_command: what a read-only session refuses.
RoMutating == {"add", "edit", "delete", "move", "tag", "sync"}

MayExecute(command) == ~ (readOnly /\ command \in RoMutating)

----------------------------------------------------------------------------
(* The tree                                                                *)

\* recompute_visual_marks, after the tree has the selection n.
Span(rows, n) ==
    LET cursor == IF IndexOf(rows, n) = 0 THEN anchor ELSE IndexOf(rows, n)
        lo == IF anchor < cursor THEN anchor ELSE cursor
        hi == IF anchor < cursor THEN cursor ELSE anchor
    IN IF hi > Len(rows) THEN {} ELSE {rows[i].node : i \in lo .. hi} \cap Entry

\* Next and Prev; in visual mode they also mark what they pass, and the keys
\* go to the tree from either pane.  The wheel moves three rows.
MoveSelection(down, wheel) ==
    /\ InSecrets
    /\ pane = "tree" \/ wheel \/ anchor # 0
    /\ LET rows == Rows
           at == IF SelectedIndex(rows) = 0 THEN 1 ELSE SelectedIndex(rows)
           by == IF wheel THEN 3 ELSE 1
           to == IF down THEN (IF at + by < Len(rows) THEN at + by ELSE Len(rows))
                 ELSE (IF at > by THEN at - by ELSE 1)
           n == IF rows = <<>> THEN Nothing ELSE rows[to].node
       IN /\ Select(n)
          /\ ResetView(n # tree.selected)
          /\ marks' = IF anchor # 0 /\ ~wheel THEN Span(rows, n) ELSE marks
    /\ pane' = IF wheel THEN "tree" ELSE pane
    /\ Step
    /\ UNCHANGED <<place, savedPlace, screen, readOnly, anchor, tabs, recents, trail, layer, stored>>

\* collapse_or_parent
Parent ==
    /\ InTree
    /\ LET rows == Rows
           i == SelectedIndex(rows)
           above == {j \in 1 .. i - 1 : rows[j].depth < rows[i].depth}
       IN IF i = 0 THEN UNCHANGED <<tree, reveal>>
          ELSE IF rows[i].node \in tree.expanded
          THEN tree' = [tree EXCEPT !.expanded = @ \ {rows[i].node}] /\ UNCHANGED reveal
          ELSE IF above = {} THEN UNCHANGED <<tree, reveal>>
          ELSE Select(rows[CHOOSE j \in above : \A k \in above : k <= j].node) /\ reveal' = FALSE
    /\ Step
    /\ UNCHANGED <<place, savedPlace, screen, readOnly, pane, anchor, marks, tabs, recents, trail, layer, stored>>

\* enter_detail: Child and Confirm on an entry.
EnterDetail ==
    /\ InTree
    /\ SelectedEntry /\ SelectedIndex(Rows) # 0
    /\ trail' = PushJump(trail, tree.selected)
    /\ pane' = "detail"
    /\ recents' = Bumped(recents, tree.selected)
    /\ UNCHANGED <<place, savedPlace, screen, readOnly, tree, anchor, marks, reveal, tabs, layer>>
    /\ PersistUiState
    /\ Step

\* Child and Confirm on a group: expand_or_child, toggle_expand.
OnGroup(confirm) ==
    /\ InTree
    /\ tree.selected \in Group
    /\ LET rows == Rows
           i == SelectedIndex(rows)
           g == tree.selected
       IN /\ i # 0
          /\ IF confirm
             THEN tree' = [tree EXCEPT !.expanded = IF g \in @ THEN @ \ {g} ELSE @ \cup {g}]
                  /\ UNCHANGED reveal
             ELSE IF g \notin tree.expanded
             THEN tree' = [tree EXCEPT !.expanded = IF HasChildren(place, g) THEN @ \cup {g} ELSE @]
                  /\ UNCHANGED reveal
             ELSE IF i < Len(rows) /\ rows[i + 1].depth > rows[i].depth
             THEN Select(rows[i + 1].node) /\ reveal' = FALSE
             ELSE UNCHANGED <<tree, reveal>>
    /\ Step
    /\ UNCHANGED <<place, savedPlace, screen, readOnly, pane, anchor, marks, tabs, recents, trail, layer, stored>>

\* A click on a row (mouse_select_tree_row).
ClickRow ==
    /\ InSecrets
    /\ \E i \in DOMAIN Rows : Select(Rows[i].node)
    /\ pane' = "tree" /\ reveal' = FALSE
    /\ Step
    /\ UNCHANGED <<place, savedPlace, screen, readOnly, anchor, marks, tabs, recents, trail, layer, stored>>

\* FocusPane, Parent and Cancel in the detail pane, a click on the pane.
TogglePane ==
    /\ InSecrets
    /\ pane' = IF pane = "tree" THEN "detail" ELSE "tree"
    /\ spent < MaxMoves /\ spent' = spent + 1
    /\ UNCHANGED <<place, savedPlace, screen, readOnly, tree, anchor, marks, reveal, tabs, recents, trail, layer, stored,
                   revealedFor, leftBy>>

SortCycle ==
    /\ InSecrets
    /\ tree' = [tree EXCEPT !.sort = SortNext(@)]
    /\ UNCHANGED <<place, savedPlace, screen, readOnly, pane, anchor, marks, reveal, tabs, recents, trail, layer, stored>>
    /\ Step

RevealPassword ==
    /\ AtWork
    /\ OnPin \/ (ActiveTab = "secrets" /\ SelectedEntry)
    /\ reveal' = ~ reveal
    /\ spent < MaxMoves /\ spent' = spent + 1
    /\ leftBy' = Nothing
    /\ revealedFor' = IF reveal' THEN Shown ELSE Nothing
    /\ UNCHANGED <<place, savedPlace, screen, readOnly, tree, pane, anchor, marks, tabs, recents, trail, layer, stored>>

\* enter_visual_mode
VisualMode ==
    /\ InTree
    /\ LET rows == Rows
           i == IF SelectedIndex(rows) = 0 THEN 1 ELSE SelectedIndex(rows)
       IN /\ anchor' = i
          /\ marks' = IF i > Len(rows) THEN {} ELSE {rows[i].node} \cap Entry
    /\ UNCHANGED <<place, savedPlace, screen, readOnly, tree, pane, reveal, tabs, recents, trail, layer, stored>>
    /\ Step

ToggleMark ==
    /\ InSecrets /\ SelectedEntry
    /\ pane = "tree" \/ anchor # 0
    /\ marks' = IF tree.selected \in marks THEN marks \ {tree.selected} ELSE marks \cup {tree.selected}
    /\ UNCHANGED <<place, savedPlace, screen, readOnly, tree, pane, anchor, reveal, tabs, recents, trail, layer, stored>>
    /\ Step

\* Esc leaves visual mode first, then drops the marks.
EscapeLadder ==
    /\ screen \in {"workspace", "syncing"} /\ layer = NoLayer /\ ActiveTab = "secrets"
    /\ anchor # 0 \/ marks # {}
    /\ anchor' = 0
    /\ marks' = IF anchor # 0 THEN marks ELSE {}
    /\ UNCHANGED <<place, savedPlace, screen, readOnly, tree, pane, reveal, tabs, recents, trail, layer, stored>>
    /\ Step

----------------------------------------------------------------------------
(* Tabs, jumps, search                                                     *)

\* on_tab_switched
OnTabSwitched ==
    /\ reveal' = FALSE
    /\ LET to == TabAt(tabs', tabs'.active) IN
       /\ trail' = IF to \in Entry THEN PushJump(trail, to) ELSE trail
       /\ recents' = IF to \in Entry THEN Bumped(recents, to) ELSE recents
       /\ IF to \in Entry THEN PersistUiState ELSE UNCHANGED stored

\* apply_tab_motion, and a click on a tab; also while a sync has the vault.
TabMotion ==
    /\ screen \in {"workspace", "syncing"} /\ layer = NoLayer
    /\ \/ tabs' = TabNext(tabs)
       \/ tabs' = TabPrev(tabs)
       \/ \E n \in 0 .. MaxPins + 3 : tabs' = TabJump(tabs, n)
    /\ OnTabSwitched
    /\ Step
    /\ UNCHANGED <<place, savedPlace, screen, readOnly, tree, pane, anchor, marks, layer>>

PinToggle ==
    /\ InSecrets /\ SelectedEntry
    /\ tabs' = TogglePin(tabs, tree.selected)
    /\ UNCHANGED <<place, savedPlace, screen, readOnly, tree, pane, anchor, marks, reveal, recents, trail, layer>>
    /\ PersistUiState
    /\ Step

\* jump_to_history, jump_to_entry: what they share.
ShowNode(n) ==
    /\ tree' = [tree EXCEPT !.selected = n, !.expanded = @ \cup Ancestors(place, n)]
    /\ tabs' = TabJump(tabs, 1)
    /\ reveal' = FALSE

JumpToHistory(n) ==
    /\ ShowNode(n)
    /\ pane' = IF n \in Group THEN "tree" ELSE "detail"
    /\ recents' = IF n \in Group THEN recents ELSE Bumped(recents, n)
    /\ IF n \in Group THEN UNCHANGED stored ELSE PersistUiState

\* jump_back and jump_forward
Jump(step) ==
    /\ Current # Nothing
    /\ trail' = step.h
    /\ IF step.to = Nothing
       THEN UNCHANGED <<tree, tabs, reveal, pane, recents, stored>>
       ELSE JumpToHistory(step.to)
    /\ revealedFor' = IF reveal' THEN revealedFor ELSE Nothing
    /\ spent < MaxMoves /\ spent' = spent + 1
    /\ UNCHANGED <<place, savedPlace, screen, readOnly, anchor, marks, layer>>
JumpBack ==
    /\ AtWork /\ ActiveTab # "settings"
    /\ Jump(StepBack(trail, Current))
    /\ leftBy' = IF StepBack(trail, Current).to = Nothing THEN Nothing ELSE Current
JumpForward ==
    /\ InTree
    /\ Jump(StepForward(trail, Current))
    /\ leftBy' = Nothing

\* The search overlay: its results are outside the recycle bin.
OpenSearch ==
    /\ InSecrets
    /\ layer' = [kind |-> "search"]
    /\ UNCHANGED <<place, savedPlace, screen, readOnly, tree, pane, anchor, marks, reveal, tabs, recents, trail, stored>>
    /\ Step
Found(e) == Exists(place, e) /\ place[e] # Bin
JumpToEntry ==
    /\ Open /\ layer.kind = "search"
    /\ \E e \in Entry :
          /\ Found(e)
          /\ ShowNode(e)
          /\ trail' = PushJump(trail, e)
          /\ recents' = Bumped(recents, e)
    /\ pane' = "detail" /\ layer' = NoLayer
    /\ PersistUiState
    /\ UNCHANGED <<place, savedPlace, screen, readOnly, anchor, marks>>
    /\ Step

\* copy_field_of, from the tree or from the search overlay.
CopyField ==
    /\ Open
    /\ \E e \in Entry :
          /\ \/ layer.kind = "search" /\ Found(e)
             \/ InSecrets /\ SelectedEntry /\ e = tree.selected
          /\ recents' = Bumped(recents, e)
    /\ layer' = NoLayer
    /\ UNCHANGED <<place, savedPlace, screen, readOnly, tree, pane, anchor, marks, reveal, tabs, trail>>
    /\ PersistUiState
    /\ Step

----------------------------------------------------------------------------
(* Changing entries                                                        *)

\* persist_vault: a save may fail; a read-only session never saves.
Persist(ok) ==
    /\ ok => ~ readOnly
    /\ savedPlace' = IF ok THEN place' ELSE savedPlace

OpenDelete ==
    /\ InSecrets /\ MayExecute("delete")
    /\ marks # {} \/ SelectedEntry
    /\ layer' = [kind |-> "delete", bulk |-> marks # {},
                what |-> IF marks # {} THEN marks ELSE {tree.selected}]
    /\ UNCHANGED <<place, savedPlace, screen, readOnly, tree, pane, anchor, marks, reveal, tabs, recents, trail, stored>>
    /\ Step

\* perform_delete, perform_bulk_delete: into the recycle bin.  A failed save
\* leaves the change in memory and the view as it was; only the deletion of
\* marked entries ends visual mode.
Delete(ok) ==
    /\ Open /\ layer.kind = "delete"
    /\ layer' = NoLayer
    /\ LET gone == layer.what
           known == \A e \in gone : Exists(place, e)
       IN /\ place' = IF known THEN [e \in Entry |-> IF e \in gone THEN Bin ELSE place[e]] ELSE place
          /\ Persist(ok /\ known)
          /\ IF ok /\ known
             THEN /\ recents' = Forget(recents, gone)
                  /\ tabs' = FoldLeft(LAMBDA t, e : IF e \in Range(t.pinned) THEN TogglePin(t, e) ELSE t,
                                      tabs, InSet(UuidOrder, gone))
                  /\ marks' = (IF layer.bulk THEN {} ELSE marks)
                  /\ anchor' = (IF layer.bulk THEN 0 ELSE anchor)
                  /\ Select(IF tree.selected \in gone THEN First(BuildRows(place', tree, recents')) ELSE tree.selected)
                  /\ PersistUiState
             ELSE UNCHANGED <<recents, tabs, marks, anchor, tree, stored>>
    /\ UNCHANGED <<screen, readOnly, pane, reveal, trail>>
    /\ Step

\* The group picker and the tag input over the marked entries.
OpenBulk ==
    /\ InTree /\ marks # {}
    /\ \E command \in {"move", "tag"} : MayExecute(command) /\ layer' = [kind |-> command]
    /\ UNCHANGED <<place, savedPlace, screen, readOnly, tree, pane, anchor, marks, reveal, tabs, recents, trail, stored>>
    /\ Step
\* collect_group_choices
GroupChoices == Group \ {Bin}
\* apply_move_to_group, apply_tag, finish_bulk_op
BulkChange(ok) ==
    /\ Open /\ layer.kind \in {"move", "tag"}
    /\ layer' = NoLayer
    /\ LET known == \A e \in marks : Exists(place, e) IN
       /\ \E g \in GroupChoices :
             place' = IF layer.kind = "move" /\ known
                      THEN [e \in Entry |-> IF e \in marks THEN g ELSE place[e]] ELSE place
       /\ Persist(ok /\ known)
       /\ IF ok /\ known
          THEN marks' = {} /\ anchor' = 0 /\ UNCHANGED <<tabs, recents>> /\ PersistUiState
          ELSE UNCHANGED <<marks, anchor, tabs, recents, stored>>
    /\ UNCHANGED <<screen, readOnly, tree, pane, reveal, trail>>
    /\ Step

\* add_target_group
AddTarget ==
    IF tree.selected \in Group THEN tree.selected
    ELSE LET rows == Rows
             i == SelectedIndex(rows)
             above == {j \in 1 .. i - 1 : rows[j].depth < rows[i].depth}
         IN IF i = 0 \/ above = {} THEN Root
            ELSE rows[CHOOSE j \in above : \A k \in above : k <= j].node

OpenForm(command) ==
    /\ InSecrets /\ MayExecute(command)
    /\ command = "edit" => SelectedEntry
    /\ layer' = [kind |-> "form", isNew |-> command = "add",
                 target |-> IF command = "edit" THEN tree.selected ELSE Nothing,
                 group |-> IF command = "add" THEN AddTarget ELSE Nothing]
    /\ UNCHANGED <<place, savedPlace, screen, readOnly, tree, pane, anchor, marks, reveal, tabs, recents, trail, stored>>
    /\ Step

\* perform_save: a form whose save failed keeps the entry it has added.
SaveForm(ok) ==
    /\ Open /\ layer.kind = "form"
    /\ \E e \in Entry :
          /\ IF layer.target = Nothing THEN place[e] = "unborn" ELSE e = layer.target /\ Exists(place, e)
          /\ place' = IF layer.target = Nothing THEN [place EXCEPT ![e] = layer.group] ELSE place
          /\ ok => ~ readOnly
          /\ savedPlace' = IF ok THEN place' ELSE [savedPlace EXCEPT ![e] = IF @ = "unborn" THEN "gone" ELSE @]
          /\ IF ok
             THEN /\ tree' = [tree EXCEPT !.selected = e,
                                          !.expanded = IF layer.isNew THEN @ \cup {layer.group} ELSE @]
                  /\ recents' = Bumped(recents, e)
                  /\ layer' = NoLayer
                  /\ UNCHANGED tabs /\ PersistUiState
             ELSE layer' = [layer EXCEPT !.target = e] /\ UNCHANGED <<tree, recents, tabs, stored>>
    /\ UNCHANGED <<screen, readOnly, pane, anchor, marks, reveal, trail>>
    /\ Step

\* Esc on any overlay
CloseLayer ==
    /\ Open /\ layer # NoLayer
    /\ layer' = NoLayer
    /\ UNCHANGED <<place, savedPlace, screen, readOnly, tree, pane, anchor, marks, reveal, tabs, recents, trail, stored>>
    /\ Step

----------------------------------------------------------------------------
(* Sync, lock, unlock                                                      *)

StartSync ==
    /\ InSecrets /\ MayExecute("sync")
    /\ screen' = "syncing"
    /\ UNCHANGED <<place, savedPlace, readOnly, tree, pane, anchor, marks, reveal, tabs, recents, trail, layer, stored>>
    /\ Step

\* Faulty variant: the marks outlive the entries that the sync removed.
BugMarksAfterSync == marks
\* integrate_sync_result: marks of entries that are gone are dropped.
MarksAfterSync == {e \in marks : Exists(place', e)}

LockView == /\ screen' = "locked" /\ layer' = NoLayer
            /\ trail' = [back |-> <<>>, forward |-> <<>>]
            /\ anchor' = 0 /\ marks' = {}

\* What a sync may do to the vault: nothing, or what another device did.
Synced ==
    {place} \cup {[place EXCEPT ![e] = w] : e \in {x \in Entry : Exists(place, x)}, w \in {"gone", Bin, Root}}

SyncDone ==
    /\ screen = "syncing"
    /\ place' \in Synced /\ savedPlace' = place'
    /\ LET rows == BuildRows(place', tree, recents)
           s == tree.selected IN
       Select(IF IndexOf(rows, s) # 0 THEN s ELSE First(rows))
    /\ \/ /\ screen' = "workspace" /\ UNCHANGED <<trail, layer>>
          /\ marks' = MarksAfterSync
          /\ anchor' = IF marks' = {} THEN 0 ELSE anchor
       \/ LockView   \* a lock was asked for, or is what the sync was for
    /\ UNCHANGED <<readOnly, pane, reveal, tabs, recents, stored>>
    /\ Step
SyncFails ==
    /\ screen = "syncing"
    /\ LockView
    /\ UNCHANGED <<place, savedPlace, readOnly, tree, pane, reveal, tabs, recents, stored>>
    /\ Step

LockApp ==
    /\ Open
    /\ LockView
    /\ UNCHANGED <<place, savedPlace, readOnly, tree, pane, reveal, tabs, recents, stored>>
    /\ Step

\* Another program removes an entry while this one has no vault open.
OtherProgram ==
    /\ screen = "locked"
    /\ \E e \in Entry : Exists(savedPlace, e) /\ savedPlace' = [savedPlace EXCEPT ![e] = "gone"]
    /\ UNCHANGED <<place, screen, readOnly, tree, pane, anchor, marks, reveal, tabs, recents, trail, layer, stored>>
    /\ Step

\* try_unlock: hydrate_workspace and reset_secrets_view.
UnlockApp ==
    /\ screen = "locked"
    /\ screen' = "workspace"
    /\ place' = savedPlace /\ UNCHANGED savedPlace
    /\ tabs' = WithPins(InSet(stored.pinned, {e \in Entry : Exists(place', e)}))
    /\ recents' = Truncate(Dedup1(stored.recents), RecentsCap)
    /\ LET fresh == [expanded |-> {}, selected |-> Nothing, sort |-> "recently-used"] IN
       tree' = [fresh EXCEPT !.selected = First(BuildRows(place', fresh, recents'))]
    /\ pane' = "tree" /\ reveal' = FALSE
    /\ UNCHANGED <<readOnly, anchor, marks, trail, layer, stored>>
    /\ Step

----------------------------------------------------------------------------
WorkspaceInit ==
    /\ place = StartPlace /\ savedPlace = StartPlace
    /\ screen = "locked"
    /\ readOnly \in BOOLEAN
    /\ tree = [expanded |-> {}, selected |-> Nothing, sort |-> "recently-used"]
    /\ pane = "tree" /\ anchor = 0 /\ marks = {} /\ reveal = FALSE
    /\ tabs = WithPins(<<>>)
    /\ recents = <<>>
    /\ trail = [back |-> <<>>, forward |-> <<>>]
    /\ layer = NoLayer
    /\ stored = [pinned |-> <<>>, recents |-> <<>>]
    /\ revealedFor = Nothing /\ leftBy = Nothing /\ spent = 0

\* The steps that only move the user around.
Navigate ==
    \/ \E down, wheel \in BOOLEAN : MoveSelection(down, wheel)
    \/ Parent \/ EnterDetail \/ ClickRow \/ TogglePane \/ SortCycle
    \/ \E confirm \in BOOLEAN : OnGroup(confirm)
    \/ VisualMode \/ ToggleMark \/ EscapeLadder
    \/ TabMotion \/ PinToggle
    \/ JumpBack \/ JumpForward
    \/ OpenSearch \/ JumpToEntry \/ CopyField \/ CloseLayer

WorkspaceNext ==
    \/ Navigate
    \/ RevealPassword
    \/ OpenDelete \/ OpenBulk
    \/ \E command \in {"add", "edit"} : OpenForm(command)
    \/ \E ok \in BOOLEAN : Delete(ok) \/ BulkChange(ok) \/ SaveForm(ok)
    \/ StartSync \/ SyncDone \/ SyncFails
    \/ LockApp \/ OtherProgram \/ UnlockApp

WorkspaceSpec == WorkspaceInit /\ [][WorkspaceNext]_wsVars

----------------------------------------------------------------------------
(* Properties                                                              *)

\* The pins and their activation order hold the same entries, each once and
\* at most MAX_PINS of them, and the active tab is one of the tabs: the
\* eviction of toggle_pin and the expect of active_tab rely on it.
PinsAreConsistent ==
    /\ IsInjective(tabs.pinned) /\ IsInjective(tabs.activation)
    /\ Range(tabs.pinned) = Range(tabs.activation)
    /\ Len(tabs.pinned) <= MaxPins
    /\ tabs.active < TabCount(tabs)

\* Whatever a sync has removed in between, the marked entries a bulk command
\* would act on are in the vault.
MarksAreEntries == Open => \A e \in marks : Exists(place, e)

\* Moving around never carries a revealed password over to another entry
\* (tree motions, tab switches, jumps, clicks).
HidesOnNavigation == reveal' /\ Shown' # Shown => ~ Navigate

\* A jump from the history or from the search makes its target a visible
\* row, so that the next key moves from there.  The root has no row, nor has
\* what lies in the recycle bin.
HasRow(v, n) ==
    \/ n \in Group \ {Root} /\ Bin \notin Above(n)
    \/ Exists(v, n) /\ Bin \notin Above(v[n])
JumpsToVisible ==
       tree'.selected # tree.selected /\ (JumpBack \/ JumpForward \/ JumpToEntry) =>
         LET n == tree'.selected IN
         HasRow(place, n) => IndexOf(BuildRows(place', tree', recents'), n) # 0

\* Forward after back, with at most a change of pane in between, returns to
\* where the user was, also when the selection had moved without a jump.
ReturnsForward == leftBy # Nothing /\ JumpForward => tree'.selected = leftBy

\* The pins of the last session come back at the next unlock, without those
\* of entries that are gone.
KeepsPinsOverLock ==
    UnlockApp => tabs'.pinned = InSet(tabs.pinned, {e \in Entry : Exists(place', e)})

\* A read-only session neither changes entries in memory nor writes them.
KeepsReadOnlyVault == readOnly /\ ~OtherProgram /\ ~UnlockApp => UNCHANGED <<place, savedPlace>>

\* The lists of the workspace agree with themselves, and the marks a bulk
\* command acts on are entries of the vault, whatever was edited, evicted or
\* synchronised away in between.  A pin, a recent or a jump may name an entry
\* that a sync has removed: PinsAreEntries says of pins that they do not.
ListsAreSound == PinsAreConsistent /\ MarksAreEntries

\* A pinned tab has its entry: "a pinned tab (whose entry is always present)"
\* (app.rs:1328-1329).  integrate_sync_result prunes the marks and not the pins.
PinsAreEntries == Open => \A e \in Range(tabs.pinned) : Exists(place, e)

\* Nothing but the end of a sync leaves a pin without its entry: a deletion
\* unpins, and an unlock drops the pins whose entry is gone.
OnlySyncStrandsPins ==
    Open' /\ ~SyncDone =>
      \A e \in Range(tabs'.pinned) :
         Exists(place', e) \/ (Open /\ e \in Range(tabs.pinned) /\ ~Exists(place, e))

\* Moving about is faithful in any sequence of commands, syncs and locks: it
\* shows no secret, leads where it says, comes back, strands no pin, and
\* changes no vault.
MovesAreFaithful ==
    [][HidesOnNavigation /\ JumpsToVisible /\ ReturnsForward
       /\ KeepsPinsOverLock /\ OnlySyncStrandsPins /\ KeepsReadOnlyVault]_wsVars

\* A password is in clear only for the entry that was on screen when the
\* user asked for it: "Reset to `false` whenever the selected entry changes
\* or the vault locks" (app.rs, reveal_password).
RevealIsAsked == Open /\ reveal /\ Shown # Nothing => Shown = revealedFor
=============================================================================
