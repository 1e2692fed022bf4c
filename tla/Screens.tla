------------------------------ MODULE Screens ------------------------------
(***************************************************************************)
(* What the Secrets tab draws and what a key, a click or the wheel does to *)
(* what was drawn: the detail pane (widgets/entry_detail.rs), the search   *)
(* and history overlays (overlay/search.rs, overlay/history.rs), the       *)
(* breadcrumb (screens/secrets.rs), and their handlers in app.rs.          *)
(*                                                                         *)
(* The event loop draws before it reads an event, so an action is a        *)
(* handler and the frame after it: drawing moves the scroll offset of the  *)
(* result list, and the rest of a frame is a function of the state.        *)
(*                                                                         *)
(* DATA.  A title is its length and a match the set of its characters'     *)
(* positions; what a query finds is a constant (Search models the          *)
(* matchers).  Left out: colours, the tree's rows (Workspace has them) and *)
(* the other overlays.                                                     *)
(***************************************************************************)
EXTENDS Integers, Sequences, FiniteSets, SequencesExt, FiniteSetsExt

CONSTANTS
    Card,          \* the entries: group, tags, title, fields, versions
    Hits,          \* for each query the entries it finds, best first
    TreeNodes,     \* the rows of the tree
    TermSizes,     \* the sizes the terminal can be given
    RecentStart,   \* the recents at first
    CrumbParts, CrumbWidths, \* breadcrumbs: the columns of each character of each part
    DetailLines    \* the lines of an entry in the detail pane

VARIABLES
    term,        \* the size of the terminal
    conf,        \* [search]: default-scope and enter-action
    node,        \* the selected node of the tree
    focus,       \* Focus: "tree" or "detail"
    scrolled,    \* detail_scroll
    shows,       \* reveal_password
    used,        \* recents, most recent first
    overlay,        \* the open overlay
    crumb,       \* a breadcrumb: its parts and the columns it may take
    viewAtOpen,      \* ghost: node, focus and scroll when the search was opened
    acted        \* ghost: the entry a search acted on, and how it was chosen

screenVars == <<term, conf, node, focus, scrolled, shows, used, overlay, crumb, viewAtOpen, acted>>

Item == DOMAIN Card
NoOverlay == [kind |-> "none"]
NoItem == "none"
NoAct == [key |-> "none", label |-> 0, item |-> NoItem]
NoQuery == ""
AllScope == [kind |-> "all", of |-> "-"]

\* A row of the results: an entry, and the characters of its title that match.
IsRow(r) == r.item \in Item /\ r.marks \subseteq 0 .. Card[r.item].title - 1
IsList(s) == s \in Seq(Range(s))

\* Sizes and widths are numbers, no entry has the name of none, every query
\* finds a list of entries with the matches in their titles, the empty one
\* too, and a breadcrumb has parts, of characters of at most two columns.
ASSUME ScreensAssumption ==
    /\ NoItem \notin Item /\ \A i \in Item : Card[i].title \in Nat
    /\ NoQuery \in DOMAIN Hits
    /\ \A q \in DOMAIN Hits : IsList(Hits[q]) /\ \A r \in Range(Hits[q]) : IsRow(r)
    /\ \A t \in TermSizes : t.w \in Nat /\ t.h \in Nat
    /\ \A recents \in RecentStart : IsList(recents)
    /\ \A parts \in CrumbParts : parts # <<>> /\ IsList(parts) /\ Range(parts) \subseteq Seq(0 .. 2)
    /\ CrumbWidths \subseteq Nat

----------------------------------------------------------------------------
(* search_layout: the size of the modal, its rows and its title column     *)

SearchMinWidth == 60
SearchMinHeight == 16
PreviewMinWidth == 70

Refuses(t) == t.w < SearchMinWidth \/ t.h < SearchMinHeight
ModalWidth(t) == Min({Max({(t.w * 4) \div 5, SearchMinWidth}), t.w})
ModalHeight(t) == Min({Max({(t.h * 7) \div 10, SearchMinHeight}), t.h})
HasPreview(t) == ModalWidth(t) >= PreviewMinWidth

\* Three rows of query, and the border of the results.
Viewport(t) == ModalHeight(t) - 3 - 2
ResultsWidth(t) == IF HasPreview(t) THEN (ModalWidth(t) * 55) \div 100 ELSE ModalWidth(t)
TitleWidth(t) == (Max({ResultsWidth(t) - 10, 8}) * 2) \div 3

----------------------------------------------------------------------------
(* SearchState                                                             *)

ClampSelection(o) ==
    IF o.results = <<>> THEN [o EXCEPT !.selected = 0, !.scroll = 0]
    ELSE LET s == Min({o.selected, Len(o.results) - 1})
         IN [o EXCEPT !.selected = s, !.scroll = Min({@, s})]

SelectNext(o) == IF o.results = <<>> THEN o
                 ELSE [o EXCEPT !.selected = Min({@ + 1, Len(o.results) - 1})]
SelectPrev(o) == [o EXCEPT !.selected = Max({@ - 1, 0})]

EnsureSelectedVisible(o, viewport) ==
    IF o.selected < o.scroll THEN [o EXCEPT !.scroll = o.selected]
    ELSE IF o.selected >= o.scroll + viewport THEN [o EXCEPT !.scroll = o.selected + 1 - viewport]
    ELSE o

\* The entry of a row, counted from 0.
RowItem(o, i) == IF i \in 0 .. Len(o.results) - 1 THEN o.results[i + 1].item ELSE NoItem
SelectedItem(o) == RowItem(o, o.selected)
\* Faulty variant: the labels are taken to count from the first result.
BugQuickSelect(o, n) == RowItem(o, n - 1)
QuickSelect(o, n) == RowItem(o, o.scroll + n - 1)

\* The frame: nothing but a note in a small terminal; else the rows from the
\* offset, the first nine of them with a label.
IsDrawn(o, t) == o.kind = "search" /\ ~Refuses(t) /\ o.results # <<>>
DrawnRows(o, t) == {i \in 0 .. Len(o.results) - 1 : i >= o.scroll /\ i < o.scroll + Viewport(t)}
Label(o, i) == IF i - o.scroll \in 0 .. 8 THEN i - o.scroll + 1 ELSE 0
Drawn(o, t) == IF IsDrawn(o, t) THEN EnsureSelectedVisible(o, Viewport(t)) ELSE o

\* truncate_around_match: the window of the title that is drawn and the
\* positions in it that are highlighted.  0 stands for an ellipsis, and
\* c + 1 for the title's character at c.
Adjusted(marks, start, end, lead) == {m - start + lead : m \in {k \in marks : k >= start /\ k < end}}
TruncateAroundMatch(len, marks, max) ==
    IF len <= max \/ max < 3 THEN [text |-> [i \in 1 .. len |-> i], marks |-> marks]
    ELSE LET first == Min({len - 1} \cup (IF marks = {} THEN {0} ELSE marks))
             last == Min({len - 1, IF marks = {} THEN first ELSE Max(marks)})
             window == max - 2
             mid == first + ((last - first) \div 2)
             start == Min({Max({mid - (window \div 2), 0}), len - window})
             end == start + window
             lead == IF start > 0 THEN 1 ELSE 0
         IN [text |-> (IF start > 0 THEN <<0>> ELSE <<>>) \o [i \in 1 .. window |-> start + i]
                      \o (IF end < len THEN <<0>> ELSE <<>>),
             marks |-> Adjusted(marks, start, end, lead)]

----------------------------------------------------------------------------
(* The vault as the overlay sees it                                        *)

\* current_tree_group: the selected group, or the group of the selected
\* entry unless that is the root.
CurrentGroup(n) == IF n \notin Item THEN n ELSE Card[n].group

ScopeHolds(i, scope) ==
    CASE scope.kind = "all" -> TRUE
      [] scope.kind = "group" -> Card[i].group = scope.of
      [] scope.kind = "tag" -> scope.of \in Range(Card[i].tags)

\* What of a list is in a set.
Filtered(list, kept) == FoldLeft(LAMBDA s, x : IF x \in kept THEN Append(s, x) ELSE s, <<>>, list)

\* browse_results puts the recents first; a query ranks.
FoundRows(query, recents) ==
    IF query # NoQuery THEN Hits[query]
    ELSE Filtered([i \in DOMAIN recents |-> [item |-> recents[i], marks |-> {}]], [item : Item, marks : {{}}])
         \o Filtered(Hits[NoQuery], {r \in Range(Hits[NoQuery]) : r.item \notin Range(recents)})
ScopedRows(rows, scope) == Filtered(rows, {r \in Range(rows) : ScopeHolds(r.item, scope)})
RunSearch(o, recents) ==
    ClampSelection([o EXCEPT !.results = ScopedRows(FoundRows(o.query, recents), o.scope)])

GroupScope(n) == IF CurrentGroup(n) = "root" THEN AllScope
                 ELSE [kind |-> "group", of |-> CurrentGroup(n)]
TagScope(i) == IF i \in Item /\ Card[i].tags # <<>>
               THEN [kind |-> "tag", of |-> Card[i].tags[1]] ELSE AllScope
DefaultScope(n) ==
    CASE conf.scope = "group" -> GroupScope(n)
      [] conf.scope = "tag" -> TagScope(n)
      [] OTHER -> AllScope
NextSearchScope(o, n) ==
    CASE o.scope.kind = "all" /\ GroupScope(n) # AllScope -> GroupScope(n)
      [] o.scope.kind = "tag" -> AllScope
      [] OTHER -> TagScope(SelectedItem(o))

----------------------------------------------------------------------------
(* The values a frame shows.  "seed" is the otpauth URI in the field otp,  *)
(* "code" the one-time password made from it; "plain" and "protected" are  *)
(* custom fields.                                                          *)

\* detail_data_for: a field that holds a seed is left out, its code is not.
DetailData(i) ==
    LET f == Card[i].fields IN (f \ {"seed"}) \cup (IF "seed" \in f THEN {"code"} ELSE {})

\* detail_lines masks the password and the protected fields.
\* Faulty variant: only the password is masked.
BugMasked == {"password"}
Masked == {"password", "protected"}
DetailValues(i, reveal) == DetailData(i) \ (IF reveal THEN {} ELSE Masked)
\* build_preview: of the seed and the notes it says only that they are there.
PreviewValues(i) == Card[i].fields \cap {"username", "url", "tags", "attachments"}
\* HistorySnapshot: of the password it says only whether there is one.
HistoryValues(i) == Card[i].fields \cap {"username", "url", "notes"}

ShownValues ==
    (IF node \in Item
     THEN {[where |-> "detail", item |-> node, field |-> f] : f \in DetailValues(node, shows)} ELSE {})
    \cup (IF IsDrawn(overlay, term) /\ HasPreview(term)
          THEN {[where |-> "preview", item |-> SelectedItem(overlay), field |-> f] :
                   f \in PreviewValues(SelectedItem(overlay))} ELSE {})
    \cup (IF overlay.kind = "history" /\ Card[overlay.item].versions > 0
          THEN {[where |-> "history", item |-> overlay.item, field |-> f] :
                   f \in HistoryValues(overlay.item)} ELSE {})

----------------------------------------------------------------------------
(* middle_truncate: a part is the columns of its characters                *)

Columns(s) == FoldLeft(LAMBDA x, y : x + y, 0, s)
TruncateCols(s, width) == SubSeq(s, 1, Max({k \in 0 .. Len(s) : Columns(SubSeq(s, 1, k)) <= width}))
TruncateColsFromEnd(s, width) ==
    SubSeq(s, Min({k \in 1 .. Len(s) + 1 : Columns(SubSeq(s, k, Len(s))) <= width}), Len(s))
FirstColumns(s) == IF s = <<>> THEN 0 ELSE s[1]
LastColumns(s) == IF s = <<>> THEN 0 ELSE s[Len(s)]

\* What is left of the first and of the last part, and the columns taken.
Shortened(f, l, separators) == [last |-> l, columns |-> Columns(f) + Columns(l) + separators]
ComponentBudget(width, divider) == width - divider
MiddleTruncate(parts, width) ==
    LET n == Len(parts)
        head == parts[1]
        tail == parts[n]
        full == FoldLeft(LAMBDA x, p : x + Columns(p), 3 * (n - 1), parts)
        wide == IF n > 2 THEN 7 ELSE 3  \* the separators around an ellipsis
        tight == IF n > 2 THEN 5 ELSE 3
        budget == ComponentBudget(width, tight)
        flexible == budget - FirstColumns(head) - LastColumns(tail)
        most == FirstColumns(head) + (flexible \div 2)
        rest == LastColumns(tail) + flexible - (flexible \div 2)
    IN CASE width = 0 -> Shortened(<<>>, <<>>, 0)
         [] width > 0 /\ n = 1 -> Shortened(<<>>, TruncateCols(head, width), 0)
         [] width > 0 /\ n > 1 /\ full <= width -> Shortened(<<>>, tail, full - Columns(tail))
         [] width > 0 /\ n > 1 /\ full > width /\ Columns(head) + wide + Columns(tail) <= width ->
                Shortened(head, tail, wide)
         [] OTHER -> IF width <= tight + 1 \/ flexible < 0 THEN Shortened(<<>>, TruncateCols(tail, width), 0)
                     ELSE Shortened(TruncateCols(head, most), TruncateColsFromEnd(tail, rest), tight)

----------------------------------------------------------------------------
(* Events.  Each ends with the next frame.                                 *)

\* The bound: a behaviour ends with the entry a search acts on.
MayAct == acted = NoAct

Put(o, t) == term' = t /\ overlay' = Drawn(o, t)
Resize == \E t \in TermSizes \ {term} :
    /\ MayAct /\ Put(overlay, t)
    /\ UNCHANGED <<conf, node, focus, scrolled, shows, used, crumb, viewAtOpen, acted>>

\* tree_command and detail_command: another node hides the password and
\* starts the detail pane at its top.
MoveTo(n) == IF n = node THEN UNCHANGED <<node, shows, scrolled>>
             ELSE node' = n /\ shows' = FALSE /\ scrolled' = 0
RowAfter(k, i) == Max({1, Min({i + k, Len(TreeNodes)})})
Place(n) == SelectInSeq(TreeNodes, LAMBDA m : m = n)
ContextNav(k, pane) ==
    IF pane = "tree" THEN MoveTo(TreeNodes[RowAfter(k, Place(node))])
    ELSE /\ scrolled' = Max({0, Min({scrolled + k, IF node \in Item THEN DetailLines ELSE 0})})
         /\ UNCHANGED <<node, shows>>

PaneKey ==
    /\ MayAct /\ overlay.kind = "none"
    /\ \/ \E k \in {-1, 1} : ContextNav(k, focus) /\ UNCHANGED focus
       \/ \* FocusPane
          /\ focus' = IF focus = "tree" THEN "detail" ELSE "tree"
          /\ UNCHANGED <<node, shows, scrolled>>
       \/ \* RevealPassword; Space marks when the tree has the focus
          /\ focus = "detail" /\ node \in Item
          /\ shows' = ~shows
          /\ UNCHANGED <<node, focus, scrolled>>
    /\ UNCHANGED <<term, conf, used, overlay, crumb, viewAtOpen, acted>>

SavedView == [node |-> node, focus |-> focus, scrolled |-> scrolled]
OpenSearchOverlay ==
    /\ MayAct /\ overlay.kind = "none"
    /\ Put(RunSearch([kind |-> "search", query |-> NoQuery, results |-> <<>>, selected |-> 0, scroll |-> 0,
                      scope |-> DefaultScope(node), saved |-> SavedView], used), term)
    /\ viewAtOpen' = SavedView
    /\ UNCHANGED <<conf, node, focus, scrolled, shows, used, crumb, acted>>

OpenHistory ==
    /\ MayAct /\ overlay.kind = "none" /\ node \in Item
    /\ overlay' = [kind |-> "history", item |-> node, at |-> 0]
    /\ UNCHANGED <<term, conf, node, focus, scrolled, shows, used, crumb, viewAtOpen, acted>>

HistoryKey ==
    /\ MayAct /\ overlay.kind = "history"
    /\ overlay' \in {NoOverlay, [overlay EXCEPT !.at = Max({@ - 1, 0})],
                  [overlay EXCEPT !.at = Max({0, Min({@ + 1, Card[overlay.item].versions - 1})})]}
    /\ UNCHANGED <<term, conf, node, focus, scrolled, shows, used, crumb, viewAtOpen, acted>>

RestoreSavedView(saved) == node' = saved.node /\ focus' = saved.focus /\ scrolled' = saved.scrolled

CancelSearch ==
    /\ MayAct /\ overlay.kind = "search"
    /\ RestoreSavedView(overlay.saved)
    /\ overlay' = NoOverlay
    /\ UNCHANGED <<term, conf, shows, used, crumb, viewAtOpen, acted>>

\* copy_field_of and jump_to_entry, on the entry the search names.
Bump(i) == <<i>> \o Filtered(used, Range(used) \ {i})
CopyPassword(i) ==
    /\ used' \in IF "password" \in Card[i].fields THEN {used, Bump(i)} ELSE {used}
    /\ UNCHANGED <<node, focus, scrolled, shows>>
OpenFound(i) ==
    /\ node' = i /\ focus' = "detail" /\ scrolled' = 0 /\ shows' = FALSE
    /\ used' = Bump(i)
Act(i, key, n, action) ==
    /\ overlay' = NoOverlay /\ acted' = [key |-> key, label |-> n, item |-> i]
    /\ IF action = "copy" THEN CopyPassword(i) ELSE OpenFound(i)
    /\ UNCHANGED <<term, conf, crumb, viewAtOpen>>
Other(action) == IF action = "copy" THEN "open" ELSE "copy"

SearchActs ==
    /\ MayAct /\ overlay.kind = "search"
    /\ \/ \E key \in {"enter", "tab"} :
             IF SelectedItem(overlay) # NoItem
             THEN Act(SelectedItem(overlay), key, 0, IF key = "enter" THEN conf.enter ELSE Other(conf.enter))
             ELSE /\ overlay' = NoOverlay
                  /\ UNCHANGED <<term, conf, node, focus, scrolled, shows, used, crumb, viewAtOpen, acted>>
       \/ \E n \in 1 .. 9 :
             /\ QuickSelect(overlay, n) # NoItem
             /\ Act(QuickSelect(overlay, n), "alt", n, conf.enter)

SearchKey ==
    /\ MayAct /\ overlay.kind = "search"
    /\ \/ Put(SelectNext(overlay), term)
       \/ Put(SelectPrev(overlay), term)
       \/ Put(RunSearch([overlay EXCEPT !.scope = NextSearchScope(overlay, node)], used), term)
       \/ \E q \in DOMAIN Hits \ {overlay.query} : Put(RunSearch([overlay EXCEPT !.query = q], used), term)
    /\ UNCHANGED <<conf, node, focus, scrolled, shows, used, crumb, viewAtOpen, acted>>

\* mouse_target_at: behind an overlay only its own rows can be hit.
Targets == IF IsDrawn(overlay, term) THEN DrawnRows(overlay, term) ELSE {}
Click ==
    /\ MayAct
    /\ \/ \E i \in Targets : Put([overlay EXCEPT !.selected = i], term)
                             /\ UNCHANGED <<node, focus, scrolled, shows>>
       \/ /\ overlay.kind = "none"
          /\ \/ focus' = "detail" /\ UNCHANGED <<node, scrolled, shows>>
             \/ \E i \in DOMAIN TreeNodes :
                   node' = TreeNodes[i] /\ focus' = "tree" /\ scrolled' = 0 /\ shows' = FALSE
          /\ UNCHANGED <<term, overlay>>
    /\ UNCHANGED <<conf, used, crumb, viewAtOpen, acted>>

\* mouse_scroll: over a row of the results three steps in them; anywhere
\* else, behind an overlay too, three steps in the pane of the workspace.
Thrice(Op(_), o) == Op(Op(Op(o)))
Wheel ==
    /\ MayAct
    /\ \/ Targets # {} /\ UNCHANGED <<node, focus, scrolled, shows>>
          /\ \/ Put(Thrice(SelectNext, overlay), term)
             \/ Put(Thrice(SelectPrev, overlay), term)
       \/ \E k \in {-3, 3} :
          /\ \E pane \in IF overlay.kind = "none" THEN {"tree", "detail"} ELSE {focus} :
                ContextNav(k, pane) /\ focus' = pane
          /\ UNCHANGED <<term, overlay>>
    /\ UNCHANGED <<conf, used, crumb, viewAtOpen, acted>>

----------------------------------------------------------------------------
ScreenInit ==
    /\ term \in TermSizes
    /\ conf \in [scope : {"all", "group", "tag"}, enter : {"copy", "open"}]
    /\ used \in RecentStart
    /\ crumb \in [parts : CrumbParts, width : CrumbWidths]
    /\ node = TreeNodes[1] /\ focus = "tree" /\ scrolled = 0 /\ shows = FALSE
    /\ overlay = NoOverlay /\ acted = NoAct
    /\ viewAtOpen = SavedView

ScreenNext ==
    \/ Resize \/ PaneKey \/ OpenSearchOverlay \/ OpenHistory \/ HistoryKey
    \/ CancelSearch \/ SearchActs \/ SearchKey \/ Click \/ Wheel
ScreenSpec == ScreenInit /\ [][ScreenNext]_screenVars

----------------------------------------------------------------------------
(* Properties                                                              *)

\* Enter and Tab act on the entry that the last frame highlighted, and
\* Alt+n on the one it labelled n, whatever was typed, scrolled, clicked or
\* resized before (quick_select_uuid, ensure_selected_visible).  A terminal
\* too small for the modal shows no rows, and the keys still act.
ActsOnShownRow ==
       (acted' # acted /\ IsDrawn(overlay, term)) =>
         \E i \in DrawnRows(overlay, term) :
            /\ RowItem(overlay, i) = acted'.item
            /\ IF acted'.key = "alt" THEN Label(overlay, i) = acted'.label ELSE i = overlay.selected

\* Esc in the search gives back the selection, focus and scroll offset it
\* was opened over, although the wheel moves the tree behind it
\* (restore_saved_view).
RestoresOnCancel ==
       (overlay.kind = "search" /\ overlay'.kind = "none" /\ overlay.results # <<>> /\ acted' = acted) =>
         [node |-> node', focus |-> focus', scrolled |-> scrolled'] = viewAtOpen

\* A title that is cut fits its column, a highlighted position is the one of
\* a character that matched, and all of a match shorter than the window is
\* shown (truncate_around_match).
MatchIsShown ==
    IsDrawn(overlay, term) =>
        \A i \in DrawnRows(overlay, term) :
            LET row == overlay.results[i + 1]
                cut == TruncateAroundMatch(Card[row.item].title, row.marks, TitleWidth(term))
                seen == {cut.text[m + 1] - 1 : m \in cut.marks}
            IN /\ Len(cut.text) <= TitleWidth(term)
               /\ seen \subseteq row.marks
               /\ (row.marks # {} /\ Max(row.marks) - Min(row.marks) + 1 < TitleWidth(term) - 2)
                    => seen = row.marks

\* No frame shows a password or a protected field but the selected entry's
\* after it was revealed, none shows a seed, and the preview of a search
\* shows no notes and no code either (detail_lines, build_preview,
\* HistoryState::from_views).
NothingSecretUnasked ==
    \A v \in ShownValues :
        /\ v.field \in {"password", "protected"} => v.where = "detail" /\ shows
        /\ v.field # "seed"
        /\ v.field \in {"notes", "code"} => v.where # "preview"

\* The breadcrumb fits its line and keeps a piece of the selected node, if
\* it has a name
\* (middle_truncate).
BreadcrumbFits ==
    crumb.width > 0 =>
        LET cut == MiddleTruncate(crumb.parts, crumb.width)
        IN /\ cut.columns <= crumb.width
           /\ crumb.width >= 2 /\ Last(crumb.parts) # <<>> => cut.last # <<>>

\* A key in an overlay acts on what the user sees, and Esc undoes the rest.
ActsOnWhatIsShown == [][ActsOnShownRow /\ RestoresOnCancel]_screenVars

\* What is drawn fits, shows why it was found, and shows no secret unasked.
FramesAreRight == NothingSecretUnasked /\ MatchIsShown /\ BreadcrumbFits
=============================================================================
