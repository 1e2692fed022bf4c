----------------------------- MODULE Tui_proofs -----------------------------
(***************************************************************************)
(* Proofs about the screens and the workspace of the TUI.                  *)
(***************************************************************************)
EXTENDS Screens, Workspace, FiniteSetTheorems, TLAPS

(***************************************************************************)
(* Screens.                                                                *)
(*                                                                         *)
(* What an event does to the search overlay keeps the selected row in the  *)
(* list, and the frame after it moves the offset to where the row is drawn; *)
(* so every key acts on a row of the last frame.  The widths of a cut title *)
(* and of a breadcrumb are arithmetic, with what FoldFacts says of the loop *)
(* that sums the columns of a text.                                        *)
(***************************************************************************)

\* The rounds of the loops: a filter, the columns of a text, and of its parts.
FilterRound(list, kept, i, s) == IF list[i] \in kept THEN Append(s, list[i]) ELSE s
ColumnRound(text, unused, i, n) == n + text[i]
PartRound(parts, unused, i, n) == n + Columns(parts[i])
IsListOf(kept, s) == s \in Seq(kept)
IsCount(unused, n) == n \in Nat
SomeOf(s) == CHOOSE x \in s : TRUE

Naming == INSTANCE FoldFacts WITH Op <- ColumnRound, Good <- IsCount, Pick <- SomeOf
Filtering == INSTANCE FoldFacts WITH Op <- FilterRound, Good <- IsListOf, Pick <- Max
Counting == INSTANCE FoldFacts WITH Op <- ColumnRound, Good <- IsCount, Pick <- Max
Adding == INSTANCE FoldFacts WITH Op <- PartRound, Good <- IsCount, Pick <- Max

\* The least and the greatest of the numbers of an interval.
LEMMA Extremes ==
    ASSUME NEW m \in Int, NEW n \in Int, NEW s \in SUBSET (m .. n), s # {}
    PROVE  /\ Max(s) \in s /\ \A y \in s : Max(s) >= y
           /\ Min(s) \in s /\ \A y \in s : Min(s) <= y
<1> DEFINE S == m .. n
<1>1. IsFiniteSet(S) /\ S \in SUBSET Int
    BY FS_Interval
<1>2. s \in SUBSET S
    OBVIOUS
<1> HIDE DEF S
<1>3. Naming!IsFiniteSet(S) /\ Naming!PicksFrom(S)
    BY <1>1 DEF IsFiniteSet, Naming!IsFiniteSet, Naming!PicksFrom, SomeOf
<1>4. Naming!Max(s) \in s /\ (\A y \in s : Naming!Max(s) >= y)
      /\ Naming!Min(s) \in s /\ \A y \in s : Naming!Min(s) <= y
    BY <1>1, <1>2, <1>3, Naming!GreatestAndLeast
<1>5. Naming!Max(s) = Max(s) /\ Naming!Min(s) = Min(s)
    BY DEF Max, Naming!Max, Min, Naming!Min
<1> QED BY <1>4, <1>5

\* The lesser and the greater of two numbers.
LEMMA OfTwo ==
    ASSUME NEW a \in Int, NEW b \in Int
    PROVE  /\ Min({a, b}) = IF a <= b THEN a ELSE b
           /\ Max({a, b}) = IF a >= b THEN a ELSE b
<1>1. CASE a <= b
  <2>1. {a, b} \subseteq a .. b
    BY <1>1
  <2>2. Max({a, b}) \in {a, b} /\ Max({a, b}) >= a /\ Max({a, b}) >= b
        /\ Min({a, b}) \in {a, b} /\ Min({a, b}) <= a /\ Min({a, b}) <= b
    BY <2>1, Extremes
  <2> QED BY <1>1, <2>2
<1>2. CASE ~(a <= b)
  <2>1. {a, b} \subseteq b .. a
    BY <1>2
  <2>2. Max({a, b}) \in {a, b} /\ Max({a, b}) >= a /\ Max({a, b}) >= b
        /\ Min({a, b}) \in {a, b} /\ Min({a, b}) <= a /\ Min({a, b}) <= b
    BY <2>1, Extremes
  <2> QED BY <1>2, <2>2
<1> QED BY <1>1, <1>2

\* The positions of a list, as a loop takes them.
LEMMA PositionsArePicked ==
    ASSUME NEW n \in Nat, NEW S, S = 1 .. n
    PROVE  IsFiniteSet(S) /\ \A s \in SUBSET S : s # {} => Max(s) \in s
<1>1. IsFiniteSet(S)
    BY FS_Interval
<1>2. ASSUME NEW s \in SUBSET (1 .. n), s # {} PROVE Max(s) \in s
  <2> DEFINE m == 1
  <2>1. m \in Int /\ n \in Int /\ s \in SUBSET (m .. n)
    BY <1>2
  <2> HIDE DEF m
  <2> QED BY <1>2, <2>1, Extremes
<1> QED BY <1>1, <1>2

\* A filter gives a list of what it keeps.
LEMMA FilterKeeps ==
    ASSUME NEW list, NEW kept, NEW n \in Nat, DOMAIN list = 1 .. n
    PROVE  Filtered(list, kept) \in Seq(kept)
<1> DEFINE S == DOMAIN list
<1>1. Filtered(list, kept) = Filtering!Fold(list, kept, <<>>, S)
    BY DEF Filtered, FoldLeft, Filtering!Fold, MapThenFoldSet, Filtering!MapThenFoldSet, FilterRound
<1>2. \A i \in S : \A s : IsListOf(kept, s) => IsListOf(kept, FilterRound(list, kept, i, s))
    BY DEF IsListOf, FilterRound
<1>3. IsListOf(kept, <<>>)
    BY DEF IsListOf
<1>4. IsFiniteSet(S) /\ \A s \in SUBSET S : s # {} => Max(s) \in s
    BY PositionsArePicked
<1> HIDE DEF S
<1>5. Filtering!IsFiniteSet(S) /\ Filtering!PicksFrom(S)
    BY <1>4 DEF IsFiniteSet, Filtering!IsFiniteSet, Filtering!PicksFrom
<1>6. IsListOf(kept, Filtering!Fold(list, kept, <<>>, S))
    BY <1>2, <1>3, <1>5, Filtering!FoldKeeps
<1> QED BY <1>1, <1>6 DEF IsListOf

\* A text has a number of columns, which for a single character are its own.
LEMMA ColumnsAreCounted ==
    ASSUME NEW s \in Seq(Nat)
    PROVE  /\ Columns(s) \in Nat
           /\ Len(s) = 0 => Columns(s) = 0
           /\ Len(s) = 1 => Columns(s) = s[1]
<1> DEFINE S == DOMAIN s
<1>1. Columns(s) = Counting!Fold(s, 0, 0, S)
    BY DEF Columns, FoldLeft, Counting!Fold, MapThenFoldSet, Counting!MapThenFoldSet, ColumnRound
<1>2. \A i \in S : \A n : IsCount(0, n) => IsCount(0, ColumnRound(s, 0, i, n))
    BY DEF IsCount, ColumnRound
<1>3. IsCount(0, 0)
    BY DEF IsCount
<1>4. IsFiniteSet(S) /\ \A t \in SUBSET S : t # {} => Max(t) \in t
    BY PositionsArePicked
<1>5. Len(s) = 0 => S = {}
    OBVIOUS
<1>6. Len(s) = 1 => S = {1}
    OBVIOUS
<1>7. Max({1}) = 1
  <2> DEFINE m == 1
  <2>1. m \in Int /\ {m} \in SUBSET (m .. m)
    OBVIOUS
  <2>2. m = 1
    OBVIOUS
  <2> HIDE DEF m
  <2>3. Max({m}) \in {m}
    BY <2>1, Extremes
  <2> QED BY <2>2, <2>3
<1> HIDE DEF S
<1>8. Counting!IsFiniteSet(S) /\ Counting!PicksFrom(S)
    BY <1>4 DEF IsFiniteSet, Counting!IsFiniteSet, Counting!PicksFrom
<1>9. IsCount(0, Counting!Fold(s, 0, 0, S))
    BY <1>2, <1>3, <1>8, Counting!FoldKeeps
<1>10. Counting!Fold(s, 0, 0, {}) = 0
    BY Counting!FoldOfNone
<1>12. Counting!Fold(s, 0, 0, {1}) = ColumnRound(s, 0, 1, 0)
    BY <1>7, Counting!FoldOfOne
<1>11. Len(s) = 1 => ColumnRound(s, 0, 1, 0) = s[1]
    BY DEF ColumnRound
<1> QED
    BY <1>1, <1>5, <1>6, <1>7, <1>9, <1>10, <1>11, <1>12 DEF IsCount

----------------------------------------------------------------------------
\* A search overlay: a list of rows, one of them selected if there is any.
IsSearch(o) ==
    /\ o = [kind |-> "search", query |-> o.query, results |-> o.results, selected |-> o.selected,
            scroll |-> o.scroll, scope |-> o.scope, saved |-> o.saved]
    /\ o.query \in DOMAIN Hits
    /\ IsList(o.results) /\ \A r \in Range(o.results) : IsRow(r)
    /\ o.selected \in Nat /\ o.scroll \in Nat
    /\ o.selected < Len(o.results) \/ (o.results = <<>> /\ o.selected = 0)

\* The selected row is among those that a frame draws.
SelectedIsDrawn(o, t) == IsDrawn(o, t) => o.scroll <= o.selected /\ o.selected < o.scroll + Viewport(t)

\* An open overlay: a search goes back to the view it was opened over.
IsOverlay(o, t, view) ==
    /\ o.kind \in {"none", "history", "search"}
    /\ o.kind = "history" => o = [kind |-> "history", item |-> o.item, at |-> o.at]
    /\ o.kind = "search" => IsSearch(o) /\ o.saved = view /\ SelectedIsDrawn(o, t)

\* Every screen.
ScreenInv ==
    /\ term \in TermSizes /\ IsList(used)
    /\ viewAtOpen = [node |-> viewAtOpen.node, focus |-> viewAtOpen.focus, scrolled |-> viewAtOpen.scrolled]
    /\ crumb \in [parts : CrumbParts, width : CrumbWidths]
    /\ IsOverlay(overlay, term, viewAtOpen)

\* The modal is drawn with at least eleven rows of results, in a column for
\* titles of at least five characters.
LEMMA ModalIsLarge ==
    ASSUME NEW t \in TermSizes, ~Refuses(t)
    PROVE  /\ Viewport(t) \in Int /\ Viewport(t) >= 11
           /\ TitleWidth(t) \in Int /\ TitleWidth(t) >= 5
<1>1. t.w \in Nat /\ t.h \in Nat /\ t.w >= 60 /\ t.h >= 16
    BY ScreensAssumption DEF ScreensAssumption, Refuses, SearchMinWidth, SearchMinHeight
<1>2. ModalHeight(t) \in Int /\ ModalHeight(t) >= 16
  <2> DEFINE a == (t.h * 7) \div 10
             b == SearchMinHeight
             c == Max({a, b})
             d == t.h
  <2>1. a \in Int /\ b \in Int /\ b = 16 /\ d \in Int /\ d >= 16
    BY <1>1 DEF SearchMinHeight
  <2> HIDE DEF a, b, d
  <2>2. c \in Int /\ c >= 16
    BY <2>1, OfTwo
  <2> HIDE DEF c
  <2>3. Min({c, d}) \in Int /\ Min({c, d}) >= 16
    BY <2>1, <2>2, OfTwo
  <2> QED BY <2>3 DEF ModalHeight, a, b, c, d
<1>3. ModalWidth(t) \in Int
  <2> DEFINE a == (t.w * 4) \div 5
             b == SearchMinWidth
             c == Max({a, b})
             d == t.w
  <2>1. a \in Int /\ b \in Int /\ d \in Int
    BY <1>1 DEF SearchMinWidth
  <2> HIDE DEF a, b, d
  <2>2. c \in Int
    BY <2>1, OfTwo
  <2> HIDE DEF c
  <2>3. Min({c, d}) \in Int
    BY <2>1, <2>2, OfTwo
  <2> QED BY <2>3 DEF ModalWidth, a, b, c, d
<1>4. ResultsWidth(t) \in Int
    BY <1>3 DEF ResultsWidth
<1>5. Max({ResultsWidth(t) - 10, 8}) \in Int /\ Max({ResultsWidth(t) - 10, 8}) >= 8
  <2> DEFINE a == ResultsWidth(t) - 10
             b == 8
  <2>1. a \in Int /\ b \in Int /\ b = 8
    BY <1>4
  <2> HIDE DEF a, b
  <2>2. Max({a, b}) \in Int /\ Max({a, b}) >= 8
    BY <2>1, OfTwo
  <2> QED BY <2>2 DEF a, b
<1> QED
    BY <1>2, <1>5 DEF Viewport, TitleWidth

\* What is filtered of a list of rows is one.
LEMMA FilterKeepsRows ==
    ASSUME NEW rows, IsList(rows), NEW kept, \A r \in kept : IsRow(r)
    PROVE  IsList(Filtered(rows, kept)) /\ \A r \in Range(Filtered(rows, kept)) : IsRow(r)
<1>1. Filtered(rows, kept) \in Seq(kept)
    BY FilterKeeps DEF IsList
<1>2. \A s \in Seq(kept) : s \in Seq(Range(s)) /\ Range(s) \subseteq kept
    BY DEF Range
<1> QED BY <1>1, <1>2 DEF IsList

\* The entries a query finds, and those of them in a scope.
LEMMA FoundRowsAreRows ==
    ASSUME NEW query \in DOMAIN Hits, NEW lately, IsList(lately)
    PROVE  IsList(FoundRows(query, lately)) /\ \A r \in Range(FoundRows(query, lately)) : IsRow(r)
<1>1. CASE query # NoQuery
    BY <1>1, ScreensAssumption DEF ScreensAssumption, FoundRows
<1>2. CASE query = NoQuery
  <2> DEFINE list == [i \in DOMAIN lately |-> [item |-> lately[i], marks |-> {}]]
             marked == [item : Item, marks : {{}}]
             others == {r \in Range(Hits[NoQuery]) : r.item \notin Range(lately)}
             a == Filtered(list, marked)
             b == Filtered(Hits[NoQuery], others)
  <2>1. FoundRows(query, lately) = a \o b
    BY <1>2 DEF FoundRows
  <2>2. \A r \in marked : IsRow(r)
    BY ScreensAssumption DEF ScreensAssumption, IsRow
  <2>3. \A r \in others : IsRow(r)
    BY ScreensAssumption DEF ScreensAssumption
  <2>4. a \in Seq(marked)
    BY FilterKeeps DEF IsList
  <2>5. b \in Seq(others)
    <3>1. Hits[NoQuery] \in Seq(Range(Hits[NoQuery]))
        BY ScreensAssumption DEF ScreensAssumption, IsList
    <3>2. Len(Hits[NoQuery]) \in Nat /\ DOMAIN Hits[NoQuery] = 1 .. Len(Hits[NoQuery])
        BY <3>1
    <3> QED BY <3>2, FilterKeeps
  <2> HIDE DEF list, marked, others, a, b
  <2> DEFINE c == a \o b
  <2>6. c \in Seq(marked \cup others)
    BY <2>4, <2>5
  <2> HIDE DEF c
  <2>7. c \in Seq(Range(c)) /\ Range(c) \subseteq marked \cup others
    BY <2>6 DEF Range
  <2> QED BY <2>1, <2>2, <2>3, <2>7 DEF IsList, c
<1> QED BY <1>1, <1>2

\* What a scope leaves of a list of rows is one.
LEMMA ScopedRowsAreRows ==
    ASSUME NEW rows, IsList(rows), \A r \in Range(rows) : IsRow(r), NEW scope
    PROVE  IsList(ScopedRows(rows, scope)) /\ \A r \in Range(ScopedRows(rows, scope)) : IsRow(r)
<1>1. \A r \in {r \in Range(rows) : ScopeHolds(r.item, scope)} : IsRow(r)
    OBVIOUS
<1> QED BY <1>1, FilterKeepsRows DEF ScopedRows

----------------------------------------------------------------------------
\* A move in a search overlay leaves it one, over the same view.
Moves(o, p) == IsSearch(p) /\ p.saved = o.saved

\* A search overlay with another selection and offset, which is one if the
\* selection is in the list.
Placed(o, s, c) ==
    [kind |-> "search", query |-> o.query, results |-> o.results, selected |-> s,
     scroll |-> c, scope |-> o.scope, saved |-> o.saved]

\* Such an overlay is a search over the same view.
LEMMA MovedIsSearch ==
    ASSUME NEW o, IsSearch(o), NEW s \in Nat, NEW c \in Nat,
           s < Len(o.results) \/ (o.results = <<>> /\ s = 0)
    PROVE  Moves(o, Placed(o, s, c)) /\ Placed(o, s, c).selected = s /\ Placed(o, s, c).scroll = c
<1> DEFINE p == Placed(o, s, c)
<1>1. p = [kind |-> "search", query |-> o.query, results |-> o.results, selected |-> s,
           scroll |-> c, scope |-> o.scope, saved |-> o.saved]
    BY DEF Placed
<1> HIDE DEF p
<1>2. IsSearch(p) /\ p.saved = o.saved /\ p.selected = s /\ p.scroll = c
    BY <1>1 DEF IsSearch
<1> QED BY <1>2 DEF p, Moves

\* select_next keeps the selection in the list.
LEMMA SelectNextMoves == ASSUME NEW o, IsSearch(o) PROVE Moves(o, SelectNext(o))
<1>1. CASE o.results = <<>>
    BY <1>1 DEF SelectNext, Moves
<1>2. CASE o.results # <<>>
  <2> DEFINE s == Min({o.selected + 1, Len(o.results) - 1})
  <2>1. o.selected \in Nat /\ o.scroll \in Nat /\ Len(o.results) \in Nat /\ o.selected < Len(o.results)
    BY <1>2 DEF IsSearch, IsList
  <2>2. s \in Nat /\ s < Len(o.results)
    BY <2>1, OfTwo
  <2>3. SelectNext(o) = Placed(o, s, o.scroll)
    BY <1>2 DEF SelectNext, IsSearch, Placed
  <2> HIDE DEF s
  <2> QED BY <2>1, <2>2, <2>3, MovedIsSearch
<1> QED BY <1>1, <1>2

\* So does select_prev, at the first row and in an empty list too.
LEMMA SelectPrevMoves == ASSUME NEW o, IsSearch(o) PROVE Moves(o, SelectPrev(o))
<1> DEFINE s == Max({o.selected - 1, 0})
<1>1. o.selected \in Nat /\ o.scroll \in Nat /\ Len(o.results) \in Nat
      /\ (o.selected < Len(o.results) \/ (o.results = <<>> /\ o.selected = 0))
    BY DEF IsSearch, IsList
<1>2. s \in Nat /\ (s < Len(o.results) \/ (o.results = <<>> /\ s = 0))
  <2> DEFINE a == o.selected - 1
             b == 0
  <2>1. a \in Int /\ b \in Int /\ b = 0
    BY <1>1
  <2> HIDE DEF a, b
  <2>2. Max({a, b}) = IF a >= b THEN a ELSE b
    BY <2>1, OfTwo
  <2>3. s = IF o.selected - 1 >= 0 THEN o.selected - 1 ELSE 0
    BY <2>2 DEF a, b
  <2> QED BY <1>1, <2>3
<1>3. SelectPrev(o) = Placed(o, s, o.scroll)
    BY DEF SelectPrev, IsSearch, Placed
<1> HIDE DEF s
<1> QED BY <1>1, <1>2, <1>3, MovedIsSearch

\* A frame moves the offset to where the selected row is drawn.
LEMMA FrameMoves ==
    ASSUME NEW o, IsSearch(o), NEW t \in TermSizes
    PROVE  Moves(o, Drawn(o, t)) /\ SelectedIsDrawn(Drawn(o, t), t)
<1> DEFINE v == Viewport(t)
<1>0. o.selected \in Nat /\ o.scroll \in Nat /\ (o.selected < Len(o.results) \/ (o.results = <<>> /\ o.selected = 0))
    BY DEF IsSearch
<1>1. CASE ~IsDrawn(o, t)
    BY <1>1 DEF Drawn, Moves, SelectedIsDrawn
<1>2. CASE IsDrawn(o, t)
  <2>1. v \in Int /\ v >= 11
    BY <1>2, ModalIsLarge DEF IsDrawn
  <2> DEFINE c == IF o.selected < o.scroll THEN o.selected
                  ELSE IF o.selected >= o.scroll + v THEN o.selected + 1 - v ELSE o.scroll
             p == Placed(o, o.selected, c)
  <2>2. c \in Nat /\ c <= o.selected /\ o.selected < c + v
    BY <1>0, <2>1
  <2>3. Drawn(o, t) = p
    BY <1>2 DEF Drawn, EnsureSelectedVisible, IsSearch, Placed
  <2> HIDE DEF c, v
  <2>4. Moves(o, p) /\ p.scroll = c /\ p.selected = o.selected
    BY <1>0, <2>2, MovedIsSearch
  <2> HIDE DEF p
  <2> QED BY <2>2, <2>3, <2>4 DEF SelectedIsDrawn, v
<1> QED BY <1>1, <1>2

\* A search gives a search overlay, whatever was selected.
LEMMA SearchedIsSearch ==
    ASSUME NEW o, NEW query \in DOMAIN Hits, NEW scope, NEW rows, NEW s \in Nat, NEW c \in Nat, NEW saved,
           o = [kind |-> "search", query |-> query, results |-> rows, selected |-> s,
                scroll |-> c, scope |-> scope, saved |-> saved],
           NEW lately, IsList(lately)
    PROVE  IsSearch(RunSearch(o, lately)) /\ RunSearch(o, lately).saved = saved
<1> DEFINE found == ScopedRows(FoundRows(o.query, lately), o.scope)
           p == [kind |-> "search", query |-> query, results |-> found, selected |-> s,
                 scroll |-> c, scope |-> scope, saved |-> saved]
           last == Len(found) - 1
           s2 == IF found = <<>> THEN 0 ELSE Min({s, last})
           c2 == IF found = <<>> THEN 0 ELSE Min({c, s2})
           q == [kind |-> "search", query |-> query, results |-> found, selected |-> s2,
                 scroll |-> c2, scope |-> scope, saved |-> saved]
<1>1. IsList(found) /\ \A r \in Range(found) : IsRow(r)
  <2>1. o.query \in DOMAIN Hits
    OBVIOUS
  <2> QED BY <2>1, FoundRowsAreRows, ScopedRowsAreRows
<1>2. [o EXCEPT !.results = found] = p
    OBVIOUS
<1>3. RunSearch(o, lately) = ClampSelection(p)
    BY <1>2 DEF RunSearch
<1> HIDE DEF found
<1>4. found # <<>> => last \in Nat
    BY <1>1 DEF IsList
<1> HIDE DEF last
<1>5. s2 \in Nat /\ c2 \in Nat /\ (found # <<>> => s2 <= last)
  <2>1. CASE found = <<>>
    BY <2>1
  <2>2. CASE found # <<>>
    <3>1. s2 \in Nat /\ s2 <= last
        BY <2>2, <1>4, OfTwo
    <3> HIDE DEF s2
    <3>2. c2 \in Nat
        BY <2>2, <3>1, OfTwo
    <3> QED BY <3>1, <3>2
  <2> QED BY <2>1, <2>2
<1>6. ClampSelection(p) = q
    BY DEF ClampSelection, last
<1>7. s2 < Len(found) \/ (found = <<>> /\ s2 = 0)
    BY <1>1, <1>5 DEF last, IsList
<1> HIDE DEF s2, c2
<1>8. IsSearch(q) /\ q.saved = saved
    BY <1>1, <1>5, <1>7 DEF IsSearch
<1> QED BY <1>3, <1>6, <1>8

----------------------------------------------------------------------------
\* At first nothing is open, and a breadcrumb is one of the given ones.
LEMMA ScreenInvInit == ScreenInit => ScreenInv
<1> SUFFICES ASSUME ScreenInit PROVE ScreenInv
    OBVIOUS
<1>1. IsList(used)
    BY ScreensAssumption DEF ScreensAssumption, ScreenInit
<1>2. IsOverlay(overlay, term, viewAtOpen)
    BY DEF ScreenInit, IsOverlay, NoOverlay
<1> QED BY <1>1, <1>2 DEF ScreenInit, ScreenInv, SavedView

\* An entry that the user acts on comes first of the recents.
LEMMA BumpIsList == ASSUME NEW i, IsList(used) PROVE IsList(Bump(i))
<1> DEFINE S == Range(used) \cup {i}
           f == Filtered(used, Range(used) \ {i})
           b == <<i>> \o f
<1>1. f \in Seq(Range(used) \ {i})
    BY FilterKeeps DEF IsList
<1> HIDE DEF f
<1>2. b \in Seq(S)
    BY <1>1
<1> HIDE DEF S, b
<1>3. b \in Seq(Range(b))
    BY <1>2 DEF Range
<1> QED BY <1>3 DEF Bump, IsList, b, f

\* A frame after a move in a search.
LEMMA PutKeeps ==
    ASSUME NEW o, IsSearch(o), NEW t \in TermSizes, NEW view, o.saved = view
    PROVE  IsOverlay(Drawn(o, t), t, view) /\ Drawn(o, t).kind = "search"
<1>1. IsSearch(Drawn(o, t)) /\ Drawn(o, t).saved = view /\ SelectedIsDrawn(Drawn(o, t), t)
    BY FrameMoves DEF Moves
<1>2. Drawn(o, t).kind = "search"
  <2> DEFINE p == Drawn(o, t)
  <2> HIDE DEF p
  <2>1. IsSearch(p) => p.kind = "search"
    BY DEF IsSearch
  <2> QED BY <1>1, <2>1 DEF p
<1> HIDE DEF SelectedIsDrawn
<1> QED BY <1>1, <1>2 DEF IsOverlay

\* The selected row of a search, moved once or three times.
LEMMA ThriceMoves ==
    ASSUME NEW o, IsSearch(o)
    PROVE  Moves(o, Thrice(SelectNext, o)) /\ Moves(o, Thrice(SelectPrev, o))
<1>1. IsSearch(SelectNext(o)) /\ IsSearch(SelectPrev(o))
      /\ SelectNext(o).saved = o.saved /\ SelectPrev(o).saved = o.saved
    BY SelectNextMoves, SelectPrevMoves DEF Moves
<1>2. IsSearch(SelectNext(SelectNext(o))) /\ SelectNext(SelectNext(o)).saved = o.saved
    BY <1>1, SelectNextMoves DEF Moves
<1>3. IsSearch(SelectPrev(SelectPrev(o))) /\ SelectPrev(SelectPrev(o)).saved = o.saved
    BY <1>1, SelectPrevMoves DEF Moves
<1>4. Moves(o, SelectNext(SelectNext(SelectNext(o))))
    BY <1>2, SelectNextMoves DEF Moves
<1>5. Moves(o, SelectPrev(SelectPrev(SelectPrev(o))))
    BY <1>3, SelectPrevMoves DEF Moves
<1> QED BY <1>4, <1>5 DEF Thrice

\* A step that opens, draws or closes an overlay.
LEMMA OverlayStep ==
    ASSUME ScreenInv, ScreenNext
    PROVE  /\ IsOverlay(overlay', term', viewAtOpen') /\ term' \in TermSizes
           /\ overlay.kind = "search" => overlay'.kind = "search" \/ CancelSearch \/ SearchActs
<1> DEFINE OK == /\ IsOverlay(overlay', term', viewAtOpen') /\ term' \in TermSizes
                 /\ overlay.kind = "search" => overlay'.kind = "search" \/ CancelSearch \/ SearchActs
<1>0. /\ term \in TermSizes /\ IsList(used) /\ IsOverlay(overlay, term, viewAtOpen)
      /\ (overlay.kind = "search" => IsSearch(overlay) /\ overlay.saved = viewAtOpen)
    BY DEF ScreenInv, IsOverlay
<1>1. CASE Resize
  <2>1. PICK t \in TermSizes : Put(overlay, t) /\ viewAtOpen' = viewAtOpen
    BY <1>1 DEF Resize
  <2>2. CASE overlay.kind = "search"
    BY <1>0, <2>1, <2>2, PutKeeps DEF Put
  <2>3. CASE overlay.kind # "search"
    BY <1>0, <2>1, <2>3 DEF Put, Drawn, IsDrawn, IsOverlay
  <2> QED BY <2>2, <2>3
<1>2. CASE PaneKey
    BY <1>0, <1>2 DEF PaneKey
<1>3. CASE OpenSearchOverlay
  <2> DEFINE o == [kind |-> "search", query |-> NoQuery, results |-> <<>>, selected |-> 0, scroll |-> 0,
                   scope |-> DefaultScope(node), saved |-> SavedView]
             p == RunSearch(o, used)
  <2>1. Put(p, term) /\ viewAtOpen' = SavedView
    BY <1>3 DEF OpenSearchOverlay
  <2>2. NoQuery \in DOMAIN Hits
    BY ScreensAssumption DEF ScreensAssumption
  <2>3. IsSearch(p) /\ p.saved = SavedView
    <3> DEFINE view == SavedView
               scope == DefaultScope(node)
               none == 0
               rows == <<>>
    <3>1. o = [kind |-> "search", query |-> NoQuery, results |-> rows, selected |-> none,
               scroll |-> none, scope |-> scope, saved |-> view]
        OBVIOUS
    <3>2. none \in Nat
        OBVIOUS
    <3> HIDE DEF view, scope, none, rows, o
    <3> QED BY <1>0, <2>2, <3>1, <3>2, SearchedIsSearch DEF view
  <2> HIDE DEF p
  <2> QED BY <1>0, <2>1, <2>3, PutKeeps DEF Put
<1>4. CASE OpenHistory
    BY <1>0, <1>4 DEF OpenHistory, IsOverlay
<1>5. CASE HistoryKey
  <2>1. overlay = [kind |-> "history", item |-> overlay.item, at |-> overlay.at]
        /\ viewAtOpen' = viewAtOpen /\ term' = term
    BY <1>0, <1>5 DEF HistoryKey, IsOverlay
  <2>2. overlay' = NoOverlay \/ \E n : overlay' = [overlay EXCEPT !.at = n]
    BY <1>5 DEF HistoryKey
  <2>3. CASE overlay' = NoOverlay
    BY <1>0, <2>1, <2>3 DEF NoOverlay, IsOverlay
  <2>4. CASE \E n : overlay' = [overlay EXCEPT !.at = n]
    <3>1. PICK n : overlay' = [overlay EXCEPT !.at = n]
        BY <2>4
    <3>2. overlay' = [kind |-> "history", item |-> overlay.item, at |-> n]
        BY <2>1, <3>1
    <3> QED BY <1>0, <2>1, <3>2 DEF IsOverlay
  <2> QED BY <2>2, <2>3, <2>4
<1>6. CASE CancelSearch
    BY <1>0, <1>6 DEF CancelSearch, NoOverlay, IsOverlay
<1>7. CASE SearchActs
    BY <1>0, <1>7 DEF SearchActs, Act, NoOverlay, IsOverlay
<1>8. CASE SearchKey
  <2>0. IsSearch(overlay) /\ overlay.saved = viewAtOpen /\ viewAtOpen' = viewAtOpen
    BY <1>0, <1>8 DEF SearchKey
  <2>1. ASSUME NEW o, Put(o, term), IsSearch(o), o.saved = overlay.saved PROVE OK
    BY <1>0, <2>0, <2>1, PutKeeps DEF Put
  <2> DEFINE Searched(query, scope) ==
        [kind |-> "search", query |-> query, results |-> overlay.results, selected |-> overlay.selected,
         scroll |-> overlay.scroll, scope |-> scope, saved |-> overlay.saved]
  <2>2. ASSUME NEW query \in DOMAIN Hits, NEW scope
        PROVE  IsSearch(RunSearch(Searched(query, scope), used))
               /\ RunSearch(Searched(query, scope), used).saved = overlay.saved
    <3>1. overlay.selected \in Nat /\ overlay.scroll \in Nat
        BY <2>0 DEF IsSearch
    <3> DEFINE rows == overlay.results
               s == overlay.selected
               c == overlay.scroll
               view == overlay.saved
               o == Searched(query, scope)
    <3>2. o = [kind |-> "search", query |-> query, results |-> rows, selected |-> s,
               scroll |-> c, scope |-> scope, saved |-> view] /\ s \in Nat /\ c \in Nat
        BY <3>1
    <3> HIDE DEF rows, s, c, view, o
    <3>3. IsSearch(RunSearch(o, used)) /\ RunSearch(o, used).saved = view
        BY <1>0, <2>2, <3>2, SearchedIsSearch
    <3> QED BY <3>3 DEF o, view
  <2>3. CASE Put(SelectNext(overlay), term)
    BY <2>0, <2>1, <2>3, SelectNextMoves DEF Moves
  <2>4. CASE Put(SelectPrev(overlay), term)
    BY <2>0, <2>1, <2>4, SelectPrevMoves DEF Moves
  <2>5. CASE Put(RunSearch([overlay EXCEPT !.scope = NextSearchScope(overlay, node)], used), term)
    <3> DEFINE scope == NextSearchScope(overlay, node)
    <3>1. [overlay EXCEPT !.scope = scope] = Searched(overlay.query, scope) /\ overlay.query \in DOMAIN Hits
        BY <2>0 DEF IsSearch
    <3> HIDE DEF scope, Searched
    <3>2. Put(RunSearch(Searched(overlay.query, scope), used), term)
        BY <2>5, <3>1 DEF scope
    <3> QED BY <2>1, <2>2, <3>1, <3>2
  <2>6. CASE \E q \in DOMAIN Hits \ {overlay.query} : Put(RunSearch([overlay EXCEPT !.query = q], used), term)
    <3>1. PICK q \in DOMAIN Hits : Put(RunSearch([overlay EXCEPT !.query = q], used), term)
        BY <2>6
    <3>2. [overlay EXCEPT !.query = q] = Searched(q, overlay.scope)
        BY <2>0 DEF IsSearch
    <3> HIDE DEF Searched
    <3> QED BY <2>1, <2>2, <3>1, <3>2
  <2> QED BY <1>8, <2>3, <2>4, <2>5, <2>6 DEF SearchKey
<1>9. CASE Click
  <2>0. viewAtOpen' = viewAtOpen
    BY <1>9 DEF Click
  <2>1. CASE \E i \in Targets : Put([overlay EXCEPT !.selected = i], term)
    <3>1. PICK i \in Targets : Put([overlay EXCEPT !.selected = i], term)
        BY <2>1
    <3>2. i \in 0 .. Len(overlay.results) - 1 /\ IsSearch(overlay) /\ overlay.saved = viewAtOpen
        BY <1>0, <3>1 DEF Targets, DrawnRows, IsDrawn
    <3>3. i \in Nat /\ i < Len(overlay.results)
        BY <3>2 DEF IsSearch, IsList
    <3>4. [overlay EXCEPT !.selected = i] = Placed(overlay, i, overlay.scroll) /\ overlay.scroll \in Nat
        BY <3>2 DEF IsSearch, Placed
    <3>5. Moves(overlay, [overlay EXCEPT !.selected = i])
        BY <3>2, <3>3, <3>4, MovedIsSearch
    <3> QED BY <1>0, <2>0, <3>1, <3>2, <3>5, PutKeeps DEF Put, Moves
  <2>2. CASE UNCHANGED <<term, overlay>>
    BY <1>0, <2>0, <2>2
  <2> QED BY <1>9, <2>1, <2>2 DEF Click
<1>10. CASE Wheel
  <2>0. viewAtOpen' = viewAtOpen
    BY <1>10 DEF Wheel
  <2>1. CASE Targets # {} /\ (Put(Thrice(SelectNext, overlay), term) \/ Put(Thrice(SelectPrev, overlay), term))
    <3>1. IsSearch(overlay) /\ overlay.saved = viewAtOpen
        BY <1>0, <2>1 DEF Targets, IsDrawn
    <3>2. PICK o : Moves(overlay, o) /\ Put(o, term)
        BY <2>1, <3>1, ThriceMoves
    <3> QED BY <1>0, <2>0, <3>1, <3>2, PutKeeps DEF Put, Moves
  <2>2. CASE UNCHANGED <<term, overlay>>
    BY <1>0, <2>0, <2>2
  <2> QED BY <1>10, <2>1, <2>2 DEF Wheel
<1> QED
    BY <1>1, <1>2, <1>3, <1>4, <1>5, <1>6, <1>7, <1>8, <1>9, <1>10 DEF ScreenNext

\* The row that a key names is a row of the list.
LEMMA NamedRowIsItem ==
    ASSUME NEW o, IsSearch(o), NEW i \in Int, RowItem(o, i) # NoItem
    PROVE  i \in 0 .. Len(o.results) - 1 /\ RowItem(o, i) \in Item
<1>1. i \in 0 .. Len(o.results) - 1 /\ RowItem(o, i) = o.results[i + 1].item
    BY DEF RowItem
<1>2. i + 1 \in DOMAIN o.results
    BY <1>1 DEF IsSearch, IsList
<1>3. o.results[i + 1] \in Range(o.results)
    BY <1>2 DEF Range
<1> QED BY <1>1, <1>3 DEF IsSearch, IsRow

\* In a list that is not empty the selected row is an entry.
LEMMA SelectedIsItem ==
    ASSUME NEW o, IsSearch(o), o.results # <<>>
    PROVE  SelectedItem(o) # NoItem
<1>1. o.selected \in 0 .. Len(o.results) - 1 /\ o.selected + 1 \in DOMAIN o.results
    BY DEF IsSearch, IsList
<1>2. o.results[o.selected + 1] \in Range(o.results)
    BY <1>1 DEF Range
<1>3. o.results[o.selected + 1].item \in Item
    BY <1>2 DEF IsSearch, IsRow
<1> QED BY <1>1, <1>3, ScreensAssumption DEF ScreensAssumption, SelectedItem, RowItem

\* What a search does with an entry: it is the one that the key names.
LEMMA WhatSearchActsOn ==
    ASSUME IsSearch(overlay), SearchActs
    PROVE  \/ /\ overlay.results = <<>>
              /\ UNCHANGED <<acted, used>>
           \/ \E i \in Int : \E key, n :
                 /\ RowItem(overlay, i) # NoItem
                 /\ acted' = [key |-> key, label |-> n, item |-> RowItem(overlay, i)]
                 /\ IF key = "alt" THEN n \in 1 .. 9 /\ i = overlay.scroll + n - 1
                                   ELSE key \in {"enter", "tab"} /\ i = overlay.selected
                 /\ used' \in {used, Bump(RowItem(overlay, i))}
<1>0. overlay.selected \in Int /\ overlay.scroll \in Int
    BY DEF IsSearch
<1>1. ASSUME NEW i, NEW key, NEW n, NEW action, Act(i, key, n, action)
      PROVE  acted' = [key |-> key, label |-> n, item |-> i] /\ used' \in {used, Bump(i)}
    BY <1>1 DEF Act, CopyPassword, OpenFound
<1>2. CASE \E key \in {"enter", "tab"} :
             IF SelectedItem(overlay) # NoItem
             THEN Act(SelectedItem(overlay), key, 0, IF key = "enter" THEN conf.enter ELSE Other(conf.enter))
             ELSE UNCHANGED <<used, acted>>
  <2>1. CASE SelectedItem(overlay) # NoItem
    <3>1. PICK key \in {"enter", "tab"} :
             \E action : Act(SelectedItem(overlay), key, 0, action)
        BY <1>2, <2>1
    <3>2. acted' = [key |-> key, label |-> 0, item |-> SelectedItem(overlay)]
          /\ used' \in {used, Bump(SelectedItem(overlay))}
        BY <1>1, <3>1
    <3> QED BY <1>0, <2>1, <3>2 DEF SelectedItem
  <2>2. CASE SelectedItem(overlay) = NoItem
    BY <1>2, <2>2, SelectedIsItem
  <2> QED BY <2>1, <2>2
<1>3. CASE \E n \in 1 .. 9 : QuickSelect(overlay, n) # NoItem /\ Act(QuickSelect(overlay, n), "alt", n, conf.enter)
  <2>1. PICK n \in 1 .. 9 : QuickSelect(overlay, n) # NoItem /\ Act(QuickSelect(overlay, n), "alt", n, conf.enter)
    BY <1>3
  <2>2. acted' = [key |-> "alt", label |-> n, item |-> QuickSelect(overlay, n)]
        /\ used' \in {used, Bump(QuickSelect(overlay, n))}
    BY <1>1, <2>1
  <2>3. overlay.scroll + n - 1 \in Int
    BY <1>0
  <2> QED BY <2>1, <2>2, <2>3 DEF QuickSelect
<1> QED BY <1>2, <1>3 DEF SearchActs

\* Every key, click, turn of the wheel and resize keeps the invariant.
LEMMA ScreenInvStep == ScreenInv /\ [ScreenNext]_screenVars => ScreenInv'
<1> SUFFICES ASSUME ScreenInv, [ScreenNext]_screenVars PROVE ScreenInv'
    OBVIOUS
<1>1. CASE UNCHANGED screenVars
    BY <1>1 DEF screenVars, ScreenInv
<1>2. CASE ScreenNext
  <2>1. IsOverlay(overlay', term', viewAtOpen') /\ term' \in TermSizes
    BY <1>2, OverlayStep
  <2>2. crumb' = crumb
    BY <1>2 DEF ScreenNext, Resize, PaneKey, OpenSearchOverlay, OpenHistory, HistoryKey, CancelSearch,
                SearchActs, Act, SearchKey, Click, Wheel
  <2>3. IsList(used')
    <3>0. IsList(used)
        BY DEF ScreenInv
    <3>1. CASE SearchActs
      <4>1. IsSearch(overlay)
        BY <3>1 DEF SearchActs, ScreenInv, IsOverlay
      <4>2. used' = used \/ \E i : used' = Bump(i)
        BY <3>1, <4>1, WhatSearchActsOn
      <4> QED BY <3>0, <4>2, BumpIsList
    <3>2. CASE ~SearchActs
      <4>1. used' = used
        BY <1>2, <3>2 DEF ScreenNext, Resize, PaneKey, OpenSearchOverlay, OpenHistory, HistoryKey, CancelSearch,
                SearchKey, Click, Wheel
      <4> QED BY <3>0, <4>1
    <3> QED BY <3>1, <3>2
  <2>4. viewAtOpen' \in {viewAtOpen, SavedView}
    BY <1>2 DEF ScreenNext, Resize, PaneKey, OpenSearchOverlay, OpenHistory, HistoryKey, CancelSearch,
                SearchActs, Act, SearchKey, Click, Wheel
  <2>5. viewAtOpen' = [node |-> viewAtOpen'.node, focus |-> viewAtOpen'.focus, scrolled |-> viewAtOpen'.scrolled]
    BY <2>4 DEF ScreenInv, SavedView
  <2> QED BY <2>1, <2>2, <2>3, <2>5 DEF ScreenInv
<1> QED BY <1>1, <1>2

\* A key acts on a row that was drawn, with the label it was drawn with.
LEMMA ActsOnDrawnRow == ScreenInv /\ [ScreenNext]_screenVars => ActsOnShownRow
<1> SUFFICES ASSUME ScreenInv, [ScreenNext]_screenVars, acted' # acted, IsDrawn(overlay, term)
             PROVE  \E i \in DrawnRows(overlay, term) :
                       /\ RowItem(overlay, i) = acted'.item
                       /\ IF acted'.key = "alt" THEN Label(overlay, i) = acted'.label ELSE i = overlay.selected
    BY DEF ActsOnShownRow
<1> DEFINE v == Viewport(term)
<1>1. SearchActs
    BY DEF screenVars, ScreenNext, Resize, PaneKey, OpenSearchOverlay, OpenHistory, HistoryKey, CancelSearch,
           SearchKey, Click, Wheel
<1>2. IsSearch(overlay) /\ SelectedIsDrawn(overlay, term) /\ term \in TermSizes
    BY DEF ScreenInv, IsOverlay, IsDrawn
<1>3. v \in Int /\ v >= 11
    BY <1>2, ModalIsLarge DEF IsDrawn
<1>4. overlay.scroll \in Nat /\ overlay.selected \in Nat
      /\ overlay.scroll <= overlay.selected /\ overlay.selected < overlay.scroll + v
    BY <1>2 DEF SelectedIsDrawn, IsSearch
<1>5. PICK i \in Int : \E key, n :
         /\ RowItem(overlay, i) # NoItem
         /\ acted' = [key |-> key, label |-> n, item |-> RowItem(overlay, i)]
         /\ IF key = "alt" THEN n \in 1 .. 9 /\ i = overlay.scroll + n - 1
                           ELSE key \in {"enter", "tab"} /\ i = overlay.selected
    BY <1>1, <1>2, WhatSearchActsOn
<1>6. PICK key, n :
         /\ RowItem(overlay, i) # NoItem
         /\ acted' = [key |-> key, label |-> n, item |-> RowItem(overlay, i)]
         /\ IF key = "alt" THEN n \in 1 .. 9 /\ i = overlay.scroll + n - 1
                           ELSE key \in {"enter", "tab"} /\ i = overlay.selected
    BY <1>5
<1>7. i \in 0 .. Len(overlay.results) - 1
    BY <1>2, <1>6, NamedRowIsItem
<1>8. i >= overlay.scroll /\ i < overlay.scroll + v
  <2>1. CASE key = "alt"
    BY <1>3, <1>4, <1>6, <2>1
  <2>2. CASE key # "alt"
    BY <1>4, <1>6, <2>2
  <2> QED BY <2>1, <2>2
<1>9. i \in DrawnRows(overlay, term)
    BY <1>7, <1>8 DEF DrawnRows
<1>10. key = "alt" => Label(overlay, i) = n
    BY <1>4, <1>6 DEF Label
<1> QED BY <1>6, <1>9, <1>10

\* Esc goes back to the view that the search was opened over.
LEMMA EscRestores == ScreenInv /\ [ScreenNext]_screenVars => RestoresOnCancel
<1> SUFFICES ASSUME ScreenInv, [ScreenNext]_screenVars,
                    overlay.kind = "search", overlay'.kind = "none", overlay.results # <<>>, acted' = acted
             PROVE  [node |-> node', focus |-> focus', scrolled |-> scrolled'] = viewAtOpen
    BY DEF RestoresOnCancel
<1>1. IsSearch(overlay) /\ overlay.saved = viewAtOpen /\ term \in TermSizes
    BY DEF ScreenInv, IsOverlay
<1>2. ~UNCHANGED overlay
    OBVIOUS
<1>3. ~SearchActs
  <2> SUFFICES ASSUME SearchActs PROVE FALSE
    OBVIOUS
  <2>1. PICK key : acted'.key = key /\ key \in {"alt", "enter", "tab"}
    BY <1>1, WhatSearchActsOn
  <2>2. acted = NoAct
    BY DEF SearchActs, MayAct
  <2> QED BY <2>1, <2>2 DEF NoAct
<1>4. CASE CancelSearch
    BY <1>1, <1>4 DEF CancelSearch, RestoreSavedView, ScreenInv
<1>5. CASE ~CancelSearch
  <2>1. overlay'.kind = "search"
    BY <1>2, <1>3, <1>5, OverlayStep DEF screenVars
  <2> QED BY <2>1
<1> QED BY <1>4, <1>5

\* What a key does in an overlay is what the user sees, and Esc undoes it.
THEOREM KeysActOnWhatIsShown == ScreenSpec => ActsOnWhatIsShown
<1>1. ScreenInv /\ [ScreenNext]_screenVars => [ActsOnShownRow /\ RestoresOnCancel]_screenVars
    BY ActsOnDrawnRow, EscRestores
<1> QED
    BY ScreenInvInit, ScreenInvStep, <1>1, PTL DEF ScreenSpec, ActsOnWhatIsShown

----------------------------------------------------------------------------
\* The values a frame shows: the password and the protected fields only in the
\* pane, and only revealed.
LEMMA NoSecretIsShown == NothingSecretUnasked
<1> SUFFICES ASSUME NEW v \in ShownValues
             PROVE  /\ v.field \in {"password", "protected"} => v.where = "detail" /\ shows
                    /\ v.field # "seed"
                    /\ v.field \in {"notes", "code"} => v.where # "preview"
    BY DEF NothingSecretUnasked
<1>1. CASE v.where = "detail"
  <2>1. v.field \in DetailValues(node, shows)
    BY <1>1 DEF ShownValues
  <2>2. v.field # "seed" /\ (v.field \in {"password", "protected"} => shows)
    BY <2>1 DEF DetailValues, DetailData, Masked
  <2> QED BY <1>1, <2>2
<1>2. CASE v.where = "preview"
  <2>1. v.field \in {"username", "url", "tags", "attachments"}
    BY <1>2 DEF ShownValues, PreviewValues
  <2> QED BY <2>1
<1>3. CASE v.where = "history"
  <2>1. v.field \in {"username", "url", "notes"}
    BY <1>3 DEF ShownValues, HistoryValues
  <2> QED BY <1>3, <2>1
<1> QED BY <1>1, <1>2, <1>3 DEF ShownValues

\* The window of a title that is too long for its column: where it starts,
\* with a match at first .. last.
LEMMA WindowHoldsMatch ==
    ASSUME NEW len \in Nat, NEW window \in Nat, window > 0, window < len,
           NEW first \in Nat, NEW last \in Nat, first <= last, last < len
    PROVE  LET mid == first + ((last - first) \div 2)
               start == Min({Max({mid - (window \div 2), 0}), len - window})
           IN /\ start \in Nat /\ start + window <= len
              /\ last - first + 1 < window => start <= first /\ last < start + window
<1> DEFINE mid == first + ((last - first) \div 2)
           left == Max({mid - (window \div 2), 0})
           start == Min({left, len - window})
<1>1. mid - (window \div 2) \in Int /\ len - window \in Nat
    OBVIOUS
<1>2. left = IF mid - (window \div 2) >= 0 THEN mid - (window \div 2) ELSE 0
    BY <1>1, OfTwo
<1>3. left \in Nat
    BY <1>1, <1>2
<1>4. start = IF left <= len - window THEN left ELSE len - window
  <2> HIDE DEF left
  <2> QED BY <1>1, <1>3, OfTwo
<1>5. start \in Nat /\ start + window <= len
    BY <1>1, <1>3, <1>4
<1>6. ASSUME last - first + 1 < window PROVE start <= first /\ last < start + window
  <2>1. (last - first) \div 2 <= window \div 2 /\ (last - first) - ((last - first) \div 2) < window - (window \div 2)
        /\ window \div 2 < window
    BY <1>6
  <2>2. left <= first
    BY <1>2, <2>1
  <2>3. last < left + window
    BY <1>2, <2>1
  <2> HIDE DEF left
  <2> QED BY <1>1, <1>3, <1>4, <2>2, <2>3
<1> QED BY <1>5, <1>6

\* truncate_around_match: what is drawn fits, and shows the match if it is
\* shorter than the window.
CutIsRight(len, matched, max) ==
    LET cut == TruncateAroundMatch(len, matched, max)
        seen == {cut.text[m + 1] - 1 : m \in cut.marks}
    IN /\ Len(cut.text) <= max
       /\ seen \subseteq matched
       /\ (matched # {} /\ Max(matched) - Min(matched) + 1 < max - 2) => seen = matched

\* Every title, wherever it matches, in every column of three characters or more.
LEMMA CutShowsMatch ==
    ASSUME NEW len \in Nat, NEW matched, matched \subseteq 0 .. len - 1, NEW max \in Int, max >= 3
    PROVE  CutIsRight(len, matched, max)
<1> SUFFICES LET cut == TruncateAroundMatch(len, matched, max)
                 seen == {cut.text[m + 1] - 1 : m \in cut.marks}
             IN /\ Len(cut.text) <= max
                /\ seen \subseteq matched
                /\ (matched # {} /\ Max(matched) - Min(matched) + 1 < max - 2) => seen = matched
    BY DEF CutIsRight
<1> DEFINE cut == TruncateAroundMatch(len, matched, max)
           seen == {cut.text[m + 1] - 1 : m \in cut.marks}
<1>1. CASE len <= max
  <2>1. cut.text = [i \in 1 .. len |-> i] /\ cut.marks = matched
    BY <1>1 DEF TruncateAroundMatch
  <2>2. Len(cut.text) = len
    BY <2>1
  <2>3. \A m \in matched : cut.text[m + 1] - 1 = m
    BY <2>1
  <2> HIDE DEF cut
  <2>4. seen = matched
    BY <2>1, <2>3
  <2> QED BY <1>1, <2>2, <2>4 DEF cut
<1>2. CASE len > max
  <2> DEFINE places == IF matched = {} THEN {0} ELSE matched
             first == Min({len - 1} \cup places)
             last == Min({len - 1, IF matched = {} THEN first ELSE Max(matched)})
             window == max - 2
             mid == first + ((last - first) \div 2)
             start == Min({Max({mid - (window \div 2), 0}), len - window})
             end == start + window
             lead == IF start > 0 THEN 1 ELSE 0
             before == IF start > 0 THEN <<0>> ELSE <<>>
             inside == [i \in 1 .. window |-> start + i]
             after == IF end < len THEN <<0>> ELSE <<>>
  <2>1. cut.text = before \o inside \o after /\ cut.marks = Adjusted(matched, start, end, lead)
    <3>1. ~(len <= max \/ max < 3)
        BY <1>2
    <3>2. cut = [text |-> before \o inside \o after, marks |-> Adjusted(matched, start, end, lead)]
        BY <3>1, Zenon DEF TruncateAroundMatch
    <3> HIDE DEF before, inside, after, cut, end, lead
    <3> QED BY <3>2
  <2>2. first \in Nat /\ first <= len - 1 /\ (matched # {} => first = Min(matched) /\ last = Max(matched))
        /\ last \in Nat /\ first <= last /\ last < len
    <3> HIDE DEF cut
    <3>1. {len - 1} \cup places \subseteq 0 .. len - 1 /\ len \in Nat /\ len > 3
        BY <1>2
    <3>2. first \in {len - 1} \cup places /\ \A y \in {len - 1} \cup places : first <= y
      <4> DEFINE S == {len - 1} \cup places
                 low == 0
                 high == len - 1
      <4>1. low \in Int /\ high \in Int /\ S \in SUBSET (low .. high) /\ S # {}
        BY <3>1
      <4> HIDE DEF S, low, high
      <4>2. Min(S) \in S /\ \A y \in S : Min(S) <= y
        BY <4>1, Extremes
      <4> QED BY <4>2 DEF S
    <3> HIDE DEF first
    <3>3. CASE matched = {}
      <4>1. last = Min({len - 1, first})
        BY <3>3
      <4>2. first = 0
        BY <3>1, <3>2, <3>3
      <4>3. last = 0
        BY <3>1, <4>1, <4>2, OfTwo
      <4> HIDE DEF last
      <4> QED BY <3>1, <3>3, <4>2, <4>3
    <3>4. CASE matched # {}
      <4> DEFINE low == 0
                 high == len - 1
      <4>1. low \in Int /\ high \in Int /\ matched \in SUBSET (low .. high)
        BY <3>1
      <4> HIDE DEF low, high
      <4>2. Max(matched) \in matched /\ (\A y \in matched : Max(matched) >= y)
            /\ Min(matched) \in matched /\ \A y \in matched : Min(matched) <= y
        BY <3>4, <4>1, Extremes
      <4>3. Max(matched) \in 0 .. len - 1 /\ Min(matched) \in 0 .. len - 1
        BY <4>2
      <4>4. last = Min({len - 1, Max(matched)})
        BY <3>4
      <4>5. last = Max(matched)
        BY <3>1, <4>3, <4>4, OfTwo
      <4>6. first \in matched \cup {len - 1} /\ (\A y \in matched : first <= y) /\ first <= len - 1
        BY <3>2, <3>4
      <4>7. first = Min(matched)
        BY <3>1, <4>2, <4>3, <4>6
      <4> HIDE DEF last
      <4> QED BY <3>1, <4>2, <4>3, <4>5, <4>7
    <3> QED BY <3>3, <3>4
  <2>3. window \in Nat /\ window > 0 /\ window < len
    BY <1>2
  <2>4. /\ start \in Nat /\ start + window <= len
        /\ last - first + 1 < window => start <= first /\ last < start + window
    <3> HIDE DEF first, last, window, cut
    <3> QED BY <2>2, <2>3, WindowHoldsMatch
  <2> HIDE DEF start
  <2>5. before \in Seq(Int) /\ inside \in Seq(Int) /\ after \in Seq(Int)
        /\ Len(before) = lead /\ Len(inside) = window /\ Len(after) \in Nat /\ Len(after) <= 1
        /\ lead \in Nat /\ lead <= 1
    BY <2>3, <2>4
  <2>6. \A i \in 1 .. window : inside[i] = start + i
    OBVIOUS
  <2> HIDE DEF before, inside, after, lead, end
  <2>7. Len(before \o inside \o after) = lead + window + Len(after)
        /\ \A i \in 1 .. window : (before \o inside \o after)[lead + i] = inside[i]
    <3> HIDE DEF window, cut, first, last
    <3> DEFINE front == before \o inside
    <3>0. front \in Seq(Int) /\ Len(front) = lead + window
        BY <2>3, <2>5
    <3>5. ASSUME NEW i \in 1 .. window PROVE lead + i \in 1 .. Len(front) /\ front[lead + i] = inside[i]
      <4>1. lead + i \in 1 .. Len(front) /\ ~(lead + i <= lead) /\ lead + i - lead = i
        BY <2>3, <2>5, <3>0
      <4>2. front[lead + i] = inside[lead + i - lead]
        BY <2>5, <3>0, <4>1
      <4> QED BY <4>1, <4>2
    <3>1. front \in Seq(Int) /\ Len(front) = lead + window
          /\ \A i \in 1 .. window : lead + i \in 1 .. Len(front) /\ front[lead + i] = inside[i]
        BY <3>0, <3>5
    <3> HIDE DEF front
    <3>2. Len(front \o after) = lead + window + Len(after)
        BY <2>5, <3>1
    <3>3. ASSUME NEW i \in 1 .. Len(front) PROVE (front \o after)[i] = front[i]
        BY <2>5, <3>1
    <3>4. \A i \in 1 .. window : (front \o after)[lead + i] = inside[i]
        BY <3>1, <3>3
    <3> QED BY <3>2, <3>4 DEF front
  <2>8. Len(cut.text) <= max
    <3>0. window + 2 = max
        OBVIOUS
    <3> HIDE DEF cut, window, first, last
    <3>1. lead + window + Len(after) <= max
        BY <2>3, <2>5, <3>0
    <3> QED BY <2>1, <2>7, <3>1
  <2>9. \A m \in matched : m >= start /\ m < end => cut.text[(m - start + lead) + 1] - 1 = m
    <3> HIDE DEF cut, first, last, window
    <3> SUFFICES ASSUME NEW m \in matched, m >= start, m < end
                 PROVE  cut.text[(m - start + lead) + 1] - 1 = m
        OBVIOUS
    <3>0. m \in Nat /\ start \in Nat /\ window \in Nat /\ lead \in Nat /\ m < start + window
        BY <2>3, <2>4, <2>5 DEF end
    <3>1. m \in Nat /\ m - start + 1 \in 1 .. window /\ (m - start + lead) + 1 = lead + (m - start + 1)
        BY <3>0
    <3>2. (before \o inside \o after)[lead + (m - start + 1)] = start + (m - start + 1)
        BY <2>6, <2>7, <3>1
    <3>3. start + (m - start + 1) - 1 = m
        BY <2>4, <3>1
    <3>4. cut.text[(m - start + lead) + 1] = start + (m - start + 1)
        BY <2>1, <3>1, <3>2
    <3> DEFINE x == cut.text[(m - start + lead) + 1]
    <3>5. x = m + 1 /\ m \in Nat
        BY <3>0, <3>3, <3>4
    <3> HIDE DEF x
    <3>6. x - 1 = m
        BY <3>5
    <3> QED BY <3>6 DEF x
  <2>10. seen = {m \in matched : m >= start /\ m < end}
    <3> DEFINE text == cut.text
               kept == {m \in matched : m >= start /\ m < end}
    <3>1. seen = {text[k + 1] - 1 : k \in Adjusted(matched, start, end, lead)}
        BY <2>1
    <3>2. \A m \in kept : text[(m - start + lead) + 1] - 1 = m
        BY <2>9
    <3> HIDE DEF cut, seen, text, first, last, window
    <3>3. Adjusted(matched, start, end, lead) = {m - start + lead : m \in kept}
        BY DEF Adjusted
    <3> HIDE DEF kept
    <3>4. seen = kept
        BY <3>1, <3>2, <3>3
    <3> QED BY <3>4 DEF kept
  <2>11. ASSUME matched # {}, Max(matched) - Min(matched) + 1 < max - 2 PROVE seen = matched
    <3> HIDE DEF cut, seen, first, last
    <3>1. start <= first /\ last < start + window
        BY <2>2, <2>4, <2>11
    <3> DEFINE low == 0
               high == len - 1
    <3>2. low \in Int /\ high \in Int /\ matched \in SUBSET (low .. high)
        BY <1>2
    <3> HIDE DEF low, high
    <3>3. \A m \in matched : Max(matched) >= m /\ Min(matched) <= m
        BY <2>11, <3>2, Extremes
    <3>4. \A m \in matched : m >= start /\ m < start + window
        BY <2>2, <2>3, <2>4, <2>11, <3>1, <3>3
    <3> QED BY <2>10, <3>4 DEF end
  <2> HIDE DEF cut, seen
  <2> QED BY <2>8, <2>10, <2>11 DEF cut, seen
<1> QED BY <1>1, <1>2

\* Every title that a frame draws.
LEMMA MatchesAreShown == ScreenInv => MatchIsShown
<1> SUFFICES ASSUME ScreenInv, IsDrawn(overlay, term), NEW i \in DrawnRows(overlay, term)
             PROVE  LET row == overlay.results[i + 1]
                        cut == TruncateAroundMatch(Card[row.item].title, row.marks, TitleWidth(term))
                        seen == {cut.text[m + 1] - 1 : m \in cut.marks}
                    IN /\ Len(cut.text) <= TitleWidth(term)
                       /\ seen \subseteq row.marks
                       /\ (row.marks # {} /\ Max(row.marks) - Min(row.marks) + 1 < TitleWidth(term) - 2)
                            => seen = row.marks
    BY DEF MatchIsShown
<1> DEFINE row == overlay.results[i + 1]
           len == Card[row.item].title
           matched == row.marks
           max == TitleWidth(term)
<1>1. IsSearch(overlay) /\ term \in TermSizes
    BY DEF ScreenInv, IsOverlay, IsDrawn
<1>2. i + 1 \in DOMAIN overlay.results
    BY <1>1 DEF DrawnRows, IsSearch, IsList
<1>3. row \in Range(overlay.results)
    BY <1>2 DEF Range
<1>4. row.item \in Item /\ matched \subseteq 0 .. len - 1
    BY <1>1, <1>3 DEF IsSearch, IsRow
<1>5. len \in Nat
    BY <1>4, ScreensAssumption DEF ScreensAssumption
<1>6. max \in Int /\ max >= 3
    BY <1>1, ModalIsLarge DEF IsDrawn
<1> HIDE DEF len, matched, max
<1>7. CutIsRight(len, matched, max)
    BY <1>4, <1>5, <1>6, CutShowsMatch
<1> QED BY <1>7 DEF len, matched, max, CutIsRight

----------------------------------------------------------------------------
\* A text cut to a width fits it, and if there is room for a character it
\* keeps one.
LEMMA CutFits ==
    ASSUME NEW s \in Seq(0 .. 2), NEW width \in Nat
    PROVE  /\ Columns(TruncateCols(s, width)) \in Nat /\ Columns(TruncateCols(s, width)) <= width
           /\ width >= 2 /\ s # <<>> => TruncateCols(s, width) # <<>>
<1> DEFINE K == {k \in 0 .. Len(s) : Columns(SubSeq(s, 1, k)) <= width}
           low == 0
           high == Len(s)
<1>0. s \in Seq(Nat) /\ Len(s) \in Nat
    OBVIOUS
<1>1. \A k \in 0 .. Len(s) : SubSeq(s, 1, k) \in Seq(Nat) /\ Len(SubSeq(s, 1, k)) = k
    BY <1>0
<1>2. \A k \in 0 .. Len(s) : Columns(SubSeq(s, 1, k)) \in Nat
    BY <1>1, ColumnsAreCounted
<1>3. 0 \in K
  <2>1. SubSeq(s, 1, 0) \in Seq(Nat) /\ Len(SubSeq(s, 1, 0)) = 0
    BY <1>0
  <2>2. Columns(SubSeq(s, 1, 0)) = 0
    BY <2>1, ColumnsAreCounted
  <2> QED BY <1>0, <2>2
<1>4. s # <<>> /\ width >= 2 => 1 \in K
  <2> SUFFICES ASSUME s # <<>>, width >= 2 PROVE 1 \in K
    OBVIOUS
  <2>1. 1 \in 0 .. Len(s) /\ SubSeq(s, 1, 1)[1] = s[1] /\ s[1] \in 0 .. 2
    OBVIOUS
  <2>2. Columns(SubSeq(s, 1, 1)) = s[1]
    BY <1>1, <2>1, ColumnsAreCounted
  <2> QED BY <2>1, <2>2
<1>5. low \in Int /\ high \in Int /\ K \in SUBSET (low .. high) /\ K # {}
    BY <1>3
<1>6. TruncateCols(s, width) = SubSeq(s, 1, Max(K))
    BY DEF TruncateCols
<1>7. Max(K) \in 0 .. Len(s) /\ Columns(SubSeq(s, 1, Max(K))) <= width /\ \A y \in K : Max(K) >= y
  <2> HIDE DEF K, low, high
  <2>1. Max(K) \in K /\ \A y \in K : Max(K) >= y
    BY <1>5, Extremes
  <2> QED BY <2>1 DEF K
<1> HIDE DEF K
<1>8. 1 \in K => SubSeq(s, 1, Max(K)) # <<>>
    BY <1>1, <1>7
<1> QED BY <1>2, <1>4, <1>6, <1>7, <1>8

\* The same from the end: what is kept is the end of the text.
LEMMA CutFromEndFits ==
    ASSUME NEW s \in Seq(0 .. 2), NEW width \in Nat
    PROVE  /\ Columns(TruncateColsFromEnd(s, width)) \in Nat /\ Columns(TruncateColsFromEnd(s, width)) <= width
           /\ width >= LastColumns(s) /\ s # <<>> => TruncateColsFromEnd(s, width) # <<>>
<1> DEFINE n == Len(s)
           K == {k \in 1 .. n + 1 : Columns(SubSeq(s, k, n)) <= width}
           low == 1
           high == n + 1
<1>0. s \in Seq(Nat) /\ n \in Nat
    OBVIOUS
<1>1. \A k \in 1 .. n + 1 : SubSeq(s, k, n) \in Seq(Nat) /\ Len(SubSeq(s, k, n)) = n + 1 - k
    BY <1>0
<1>2. \A k \in 1 .. n + 1 : Columns(SubSeq(s, k, n)) \in Nat
    BY <1>1, ColumnsAreCounted
<1>3. n + 1 \in K
  <2>1. n + 1 \in 1 .. n + 1 /\ Len(SubSeq(s, n + 1, n)) = 0
    BY <1>0, <1>1
  <2>2. Columns(SubSeq(s, n + 1, n)) = 0
    BY <1>1, <2>1, ColumnsAreCounted
  <2> QED BY <2>1, <2>2
<1>4. s # <<>> /\ width >= LastColumns(s) => n \in K
  <2> SUFFICES ASSUME s # <<>>, width >= LastColumns(s) PROVE n \in K
    OBVIOUS
  <2>1. n \in 1 .. n + 1 /\ SubSeq(s, n, n)[1] = s[n] /\ Len(SubSeq(s, n, n)) = 1
    BY <1>0, <1>1
  <2>2. Columns(SubSeq(s, n, n)) = s[n]
    BY <1>1, <2>1, ColumnsAreCounted
  <2> QED BY <2>1, <2>2 DEF LastColumns
<1>5. low \in Int /\ high \in Int /\ K \in SUBSET (low .. high) /\ K # {}
    BY <1>0, <1>3
<1>6. TruncateColsFromEnd(s, width) = SubSeq(s, Min(K), n)
    BY DEF TruncateColsFromEnd
<1>7. Min(K) \in 1 .. n + 1 /\ Columns(SubSeq(s, Min(K), n)) <= width /\ \A y \in K : Min(K) <= y
  <2> HIDE DEF K, low, high
  <2>1. Min(K) \in K /\ \A y \in K : Min(K) <= y
    BY <1>5, Extremes
  <2> QED BY <2>1 DEF K
<1> HIDE DEF K
<1>8. n \in K => SubSeq(s, Min(K), n) # <<>>
  <2>1. n \in K => Min(K) <= n
    BY <1>7
  <2>2. Len(SubSeq(s, Min(K), n)) = n + 1 - Min(K)
    BY <1>1, <1>7
  <2>3. n \in Nat /\ Min(K) \in Nat /\ Len(<<>>) = 0
    BY <1>0, <1>7
  <2> HIDE DEF n
  <2>4. n \in K => n + 1 - Min(K) # Len(<<>>)
    BY <2>1, <2>3
  <2> QED BY <2>2, <2>4
<1> QED BY <1>2, <1>4, <1>6, <1>7, <1>8

\* The parts of a breadcrumb have a number of columns together.
LEMMA PartsAreCounted ==
    ASSUME NEW parts \in Seq(Seq(0 .. 2)), NEW base \in Nat
    PROVE  FoldLeft(LAMBDA x, p : x + Columns(p), base, parts) \in Nat
<1> DEFINE S == DOMAIN parts
<1>1. FoldLeft(LAMBDA x, p : x + Columns(p), base, parts) = Adding!Fold(parts, 0, base, S)
    BY DEF FoldLeft, Adding!Fold, MapThenFoldSet, Adding!MapThenFoldSet, PartRound
<1>2. \A i \in S : Columns(parts[i]) \in Nat
  <2> SUFFICES ASSUME NEW i \in S PROVE Columns(parts[i]) \in Nat
    OBVIOUS
  <2>1. parts[i] \in Seq(0 .. 2)
    OBVIOUS
  <2>2. parts[i] \in Seq(Nat)
    BY <2>1
  <2> QED BY <2>2, ColumnsAreCounted
<1>3. \A i \in S : \A n : IsCount(0, n) => IsCount(0, PartRound(parts, 0, i, n))
    BY <1>2 DEF IsCount, PartRound
<1>4. IsCount(0, base)
    BY DEF IsCount
<1>5. IsFiniteSet(S) /\ \A t \in SUBSET S : t # {} => Max(t) \in t
  <2>1. Len(parts) \in Nat /\ S = 1 .. Len(parts)
    OBVIOUS
  <2> HIDE DEF S
  <2> QED BY <2>1, PositionsArePicked
<1> HIDE DEF S
<1>6. Adding!IsFiniteSet(S) /\ Adding!PicksFrom(S)
    BY <1>5 DEF IsFiniteSet, Adding!IsFiniteSet, Adding!PicksFrom
<1>7. IsCount(0, Adding!Fold(parts, 0, base, S))
    BY <1>3, <1>4, <1>6, Adding!FoldKeeps
<1> QED BY <1>1, <1>7 DEF IsCount

\* middle_truncate: each of its results fits, and keeps of the last part.
LEMMA CrumbFits ==
    ASSUME NEW parts \in Seq(Seq(0 .. 2)), parts # <<>>, NEW width \in Nat, width > 0
    PROVE  /\ MiddleTruncate(parts, width).columns <= width
           /\ width >= 2 /\ parts[Len(parts)] # <<>> => MiddleTruncate(parts, width).last # <<>>
<1> DEFINE n == Len(parts)
           head == parts[1]
           tail == parts[n]
           full == FoldLeft(LAMBDA x, p : x + Columns(p), 3 * (n - 1), parts)
           wide == IF n > 2 THEN 7 ELSE 3
           tight == IF n > 2 THEN 5 ELSE 3
           budget == ComponentBudget(width, tight)
           flexible == budget - FirstColumns(head) - LastColumns(tail)
           most == FirstColumns(head) + (flexible \div 2)
           rest == LastColumns(tail) + flexible - (flexible \div 2)
           cut == MiddleTruncate(parts, width)
           Fits(c) == c.columns <= width /\ (width >= 2 /\ tail # <<>> => c.last # <<>>)
<1>1. n \in Nat /\ n >= 1 /\ head \in Seq(0 .. 2) /\ tail \in Seq(0 .. 2)
    OBVIOUS
<1>2. Columns(head) \in Nat /\ Columns(tail) \in Nat /\ Columns(<<>>) = 0
  <2>1. head \in Seq(Nat) /\ tail \in Seq(Nat) /\ <<>> \in Seq(Nat) /\ Len(<<>>) = 0
    BY <1>1
  <2> QED BY <2>1, ColumnsAreCounted
<1>3. full \in Nat
  <2>1. 3 * (n - 1) \in Nat
    BY <1>1
  <2> QED BY <2>1, PartsAreCounted
<1>4. FirstColumns(head) \in Nat /\ LastColumns(tail) \in Nat
    BY <1>1 DEF FirstColumns, LastColumns
<1>5. wide \in Nat /\ tight \in Nat
    BY <1>1
<1>6. ASSUME NEW s \in Seq(0 .. 2) PROVE
        /\ Columns(TruncateCols(s, width)) \in Nat /\ Columns(TruncateCols(s, width)) <= width
        /\ width >= 2 /\ s # <<>> => TruncateCols(s, width) # <<>>
    BY CutFits
<1>7. cut = CASE width = 0 -> Shortened(<<>>, <<>>, 0)
         [] width > 0 /\ n = 1 -> Shortened(<<>>, TruncateCols(head, width), 0)
         [] width > 0 /\ n > 1 /\ full <= width -> Shortened(<<>>, tail, full - Columns(tail))
         [] width > 0 /\ n > 1 /\ full > width /\ Columns(head) + wide + Columns(tail) <= width ->
                Shortened(head, tail, wide)
         [] OTHER -> IF width <= tight + 1 \/ flexible < 0 THEN Shortened(<<>>, TruncateCols(tail, width), 0)
                     ELSE Shortened(TruncateCols(head, most), TruncateColsFromEnd(tail, rest), tight)
    BY Zenon DEF MiddleTruncate
<1> HIDE DEF n, full, wide, tight, cut
<1>8. CASE n = 1
  <2>1. cut = Shortened(<<>>, TruncateCols(head, width), 0)
    BY <1>7, <1>8
  <2>2. tail = head
    BY <1>8
  <2> HIDE DEF head, tail
  <2>3. Fits(cut)
    BY <1>1, <1>2, <1>6, <2>1, <2>2 DEF Shortened
  <2> QED BY <2>3 DEF cut, tail, n
<1>9. CASE n > 1 /\ full <= width
  <2>1. cut = Shortened(<<>>, tail, full - Columns(tail))
    BY <1>7, <1>9, <1>3
  <2> HIDE DEF head, tail
  <2>2. Fits(cut)
    BY <1>2, <1>3, <1>9, <2>1 DEF Shortened
  <2> QED BY <2>2 DEF cut, tail, n
<1>10. CASE n > 1 /\ full > width /\ Columns(head) + wide + Columns(tail) <= width
  <2>1. cut = Shortened(head, tail, wide)
    BY <1>7, <1>10, <1>3
  <2> HIDE DEF head, tail
  <2>2. Fits(cut)
    BY <1>2, <1>5, <1>10, <2>1 DEF Shortened
  <2> QED BY <2>2 DEF cut, tail, n
<1>11. CASE n > 1 /\ full > width /\ ~(Columns(head) + wide + Columns(tail) <= width)
  <2> HIDE DEF flexible, most, rest
  <2>1. cut = IF width <= tight + 1 \/ flexible < 0 THEN Shortened(<<>>, TruncateCols(tail, width), 0)
              ELSE Shortened(TruncateCols(head, most), TruncateColsFromEnd(tail, rest), tight)
    BY <1>7, <1>11, <1>3
  <2>2. CASE width <= tight + 1 \/ flexible < 0
    <3>1. cut = Shortened(<<>>, TruncateCols(tail, width), 0)
        BY <2>1, <2>2
    <3> HIDE DEF head, tail
    <3>2. Fits(cut)
        BY <1>1, <1>2, <1>6, <3>1 DEF Shortened
    <3> QED BY <3>2 DEF cut, tail, n
  <2>3. CASE ~(width <= tight + 1 \/ flexible < 0)
    <3>1. cut = Shortened(TruncateCols(head, most), TruncateColsFromEnd(tail, rest), tight)
        BY <2>1, <2>3
    <3> HIDE DEF head, tail
    <3> DEFINE a == FirstColumns(head)
               b == LastColumns(tail)
               half == flexible \div 2
    <3>2. flexible = width - tight - a - b
        BY DEF flexible, ComponentBudget
    <3>3. most = a + half /\ rest = b + flexible - half
        BY DEF most, rest
    <3>4. flexible \in Nat
      <4> HIDE DEF a, b
      <4>1. a \in Nat /\ b \in Nat
        BY <1>4 DEF a, b
      <4>2. flexible \in Int
        BY <1>5, <3>2, <4>1
      <4> QED BY <2>3, <4>2
    <3>5. half \in Nat /\ half <= flexible
        BY <3>4
    <3> HIDE DEF a, b, half
    <3>6. most \in Nat /\ rest \in Nat /\ rest >= b /\ most + rest + tight = width
      <4>1. a \in Nat /\ b \in Nat
        BY <1>4 DEF a, b
      <4> QED BY <1>5, <3>2, <3>3, <3>4, <3>5, <4>1
    <3>7. /\ Columns(TruncateCols(head, most)) \in Nat /\ Columns(TruncateCols(head, most)) <= most
          /\ Columns(TruncateColsFromEnd(tail, rest)) \in Nat /\ Columns(TruncateColsFromEnd(tail, rest)) <= rest
          /\ tail # <<>> => TruncateColsFromEnd(tail, rest) # <<>>
        BY <1>1, <3>6, CutFits, CutFromEndFits DEF b
    <3>8. Fits(cut)
        BY <1>5, <3>1, <3>6, <3>7 DEF Shortened
    <3> QED BY <3>8 DEF cut, tail, n
  <2> QED BY <2>2, <2>3
<1> QED BY <1>1, <1>3, <1>8, <1>9, <1>10, <1>11

\* Every breadcrumb that a frame draws.
LEMMA CrumbsFit == ScreenInv => BreadcrumbFits
<1> SUFFICES ASSUME ScreenInv, crumb.width > 0
             PROVE  LET cut == MiddleTruncate(crumb.parts, crumb.width)
                    IN /\ cut.columns <= crumb.width
                       /\ crumb.width >= 2 /\ Last(crumb.parts) # <<>> => cut.last # <<>>
    BY DEF BreadcrumbFits
<1> DEFINE parts == crumb.parts
           width == crumb.width
<1>1. parts \in CrumbParts /\ width \in CrumbWidths
    BY DEF ScreenInv
<1>2. parts # <<>> /\ parts \in Seq(Range(parts)) /\ Range(parts) \subseteq Seq(0 .. 2) /\ width \in Nat
    BY <1>1, ScreensAssumption DEF ScreensAssumption, IsList
<1>3. parts \in Seq(Seq(0 .. 2))
    BY <1>2
<1> HIDE DEF parts, width
<1>4. width > 0
    BY DEF width
<1>5. Last(parts) = parts[Len(parts)]
    BY DEF Last
<1>6. /\ MiddleTruncate(parts, width).columns <= width
      /\ width >= 2 /\ parts[Len(parts)] # <<>> => MiddleTruncate(parts, width).last # <<>>
    BY <1>2, <1>3, <1>4, CrumbFits
<1> QED BY <1>5, <1>6 DEF parts, width

\* Every frame fits, shows why it was found, and shows no secret unasked.
THEOREM EveryFrameIsRight == ScreenSpec => []FramesAreRight
<1>1. ScreenInv => FramesAreRight
    BY NoSecretIsShown, MatchesAreShown, CrumbsFit DEF FramesAreRight
<1> QED
    BY ScreenInvInit, ScreenInvStep, <1>1, PTL DEF ScreenSpec

(***************************************************************************)
(* Workspace.                                                              *)
(*                                                                         *)
(* The filters and the loops over tabs, marks and rows come first, then    *)
(* the tree's rows and the jump history, each with what it promises of its *)
(* result.  The invariant relates memory, file and stored pins: a stored   *)
(* pin that no tab shows is of an entry that is gone for good, so that the *)
(* pins an unlock brings back are the ones there were.                     *)
(***************************************************************************)

\* A set of numbers that holds 0, and with a number the next one, up to n.
LEMMA UpTo ==
    ASSUME NEW n \in Nat, NEW T, 0 \in T, \A i \in 0 .. (n - 1) : i \in T => i + 1 \in T
    PROVE  0 .. n \subseteq T
<1> SUFFICES ASSUME (0 .. n) \ T # {} PROVE FALSE
    OBVIOUS
<1> DEFINE zero == 0
           s == (zero .. n) \ T
           m == Min(s)
<1>1. zero \in Int /\ n \in Int /\ s \in SUBSET (zero .. n) /\ s # {}
    OBVIOUS
<1>2. m \in s /\ \A y \in s : m <= y
  <2> HIDE DEF zero, s
  <2> QED BY <1>1, Extremes
<1> HIDE DEF m
<1>3. m \in 1 .. n /\ m \notin T
    BY <1>2
<1>4. m - 1 \in 0 .. (n - 1) /\ m - 1 \notin s
    BY <1>2, <1>3
<1> QED BY <1>3, <1>4

\* The rounds of the loops over a list: a filter, and one that drops what it has.
DedupRound(list, unused, i, s) == IF list[i] \in Range(s) THEN s ELSE Append(s, list[i])
Deduping == INSTANCE FoldFacts WITH Op <- DedupRound, Good <- IsListOf, Pick <- Max

\* The last position of a list up to i is taken last.
LEMMA LastPosition ==
    ASSUME NEW n \in Nat, NEW S, S = 1 .. n
    PROVE  /\ IsFiniteSet(S) /\ \A s \in SUBSET S : s # {} => Max(s) \in s
           /\ \A i \in 1 .. n : Max(1 .. i) = i
<1>1. ASSUME NEW i \in 1 .. n PROVE Max(1 .. i) = i
  <2> DEFINE one == 1
             s == one .. i
             m == Max(s)
  <2>1. one \in Int /\ i \in Int /\ s \in SUBSET (one .. i) /\ i \in s
    OBVIOUS
  <2>2. m \in s /\ \A y \in s : m >= y
    <3> HIDE DEF one, s
    <3> QED BY <2>1, Extremes
  <2>3. m = i
    <3> HIDE DEF m
    <3> QED BY <2>2
  <2> QED BY <2>3
<1> QED BY <1>1, PositionsArePicked

\* InSet and Dedup1 as loops that have seen the first i entries of the list.
Filters(order, S, f) ==
    /\ f[0] = <<>>
    /\ \A i \in 1 .. Len(order) : f[i] = IF order[i] \in S THEN Append(f[i - 1], order[i]) ELSE f[i - 1]
    /\ f[Len(order)] = InSet(order, S)
FirstOnes(s, f) ==
    /\ f[0] = <<>>
    /\ \A i \in 1 .. Len(s) : f[i] = IF s[i] \in Range(f[i - 1]) THEN f[i - 1] ELSE Append(f[i - 1], s[i])
    /\ f[Len(s)] = Dedup1(s)

LEMMA InSetUnfolds ==
    ASSUME NEW A, NEW order \in Seq(A), NEW S
    PROVE  \E f : Filters(order, S, f)
<1> DEFINE D == DOMAIN order
           n == Len(order)
<1>1. InSet(order, S) = Filtering!Fold(order, S, <<>>, D)
    BY DEF InSet, FoldLeft, Filtering!Fold, MapThenFoldSet, Filtering!MapThenFoldSet, FilterRound
<1>2. n \in Nat /\ D = 1 .. n /\ n = Len(order)
    OBVIOUS
<1> HIDE DEF D, n
<1>3. Filtering!IsFiniteSet(D) /\ Filtering!PicksFrom(D) /\ \A i \in 1 .. n : Max(1 .. i) = i
  <2>1. IsFiniteSet(D) /\ (\A t \in SUBSET D : t # {} => Max(t) \in t) /\ \A i \in 1 .. n : Max(1 .. i) = i
    BY <1>2, LastPosition
  <2> QED BY <2>1 DEF IsFiniteSet, Filtering!IsFiniteSet, Filtering!PicksFrom
<1>4. PICK f : Filtering!Steps(order, S, <<>>, n, D, f)
    BY <1>2, <1>3, Filtering!FoldByPosition
<1>5. Filters(order, S, f)
    BY <1>1, <1>2, <1>4 DEF Filters, FilterRound, Filtering!Steps
<1> QED BY <1>5

LEMMA DedupUnfolds ==
    ASSUME NEW A, NEW s \in Seq(A)
    PROVE  \E f : FirstOnes(s, f)
<1> DEFINE D == DOMAIN s
           n == Len(s)
<1>1. Dedup1(s) = Deduping!Fold(s, {}, <<>>, D)
    BY DEF Dedup1, FoldLeft, Deduping!Fold, MapThenFoldSet, Deduping!MapThenFoldSet, DedupRound
<1>2. n \in Nat /\ D = 1 .. n /\ n = Len(s)
    OBVIOUS
<1> HIDE DEF D, n
<1>3. Deduping!IsFiniteSet(D) /\ Deduping!PicksFrom(D) /\ \A i \in 1 .. n : Max(1 .. i) = i
  <2>1. IsFiniteSet(D) /\ (\A t \in SUBSET D : t # {} => Max(t) \in t) /\ \A i \in 1 .. n : Max(1 .. i) = i
    BY <1>2, LastPosition
  <2> QED BY <2>1 DEF IsFiniteSet, Deduping!IsFiniteSet, Deduping!PicksFrom
<1>4. PICK f : Deduping!Steps(s, {}, <<>>, n, D, f)
    BY <1>2, <1>3, Deduping!FoldByPosition
<1>5. FirstOnes(s, f)
    BY <1>1, <1>2, <1>4 DEF FirstOnes, DedupRound, Deduping!Steps
<1> QED BY <1>5

\* What a filter leaves of a list.
FilterFacts(order, S, u) ==
    /\ u \in Seq(S \cap Range(order))
    /\ Range(u) = Range(order) \cap S
    /\ Len(u) <= Len(order)
    /\ (\E x \in Range(order) : x \notin S) => Len(u) < Len(order)
    /\ IsInjective(order) => IsInjective(u)

LEMMA AppendFacts ==
    ASSUME NEW A, NEW u \in Seq(A), NEW e
    PROVE  /\ Append(u, e) \in Seq(A \cup {e})
           /\ Len(Append(u, e)) = Len(u) + 1
           /\ \A i \in 1 .. Len(u) : Append(u, e)[i] = u[i]
           /\ Append(u, e)[Len(u) + 1] = e
           /\ Range(Append(u, e)) = Range(u) \cup {e}
           /\ IsInjective(u) /\ e \notin Range(u) => IsInjective(Append(u, e))
<1> DEFINE w == Append(u, e)
<1>1. u \in Seq(A \cup {e}) /\ e \in A \cup {e}
    OBVIOUS
<1>2. w \in Seq(A \cup {e}) /\ Len(w) = Len(u) + 1
    BY <1>1
<1>3. (\A i \in 1 .. Len(u) : w[i] = u[i]) /\ w[Len(u) + 1] = e
    BY <1>1
<1>4. DOMAIN w = 1 .. (Len(u) + 1) /\ DOMAIN u = 1 .. Len(u) /\ Len(u) \in Nat
    BY <1>2
<1> HIDE DEF w
<1>5. Range(w) = Range(u) \cup {e}
  <2>1. ASSUME NEW x \in Range(w) PROVE x \in Range(u) \cup {e}
    <3>1. PICK i \in DOMAIN w : x = w[i]
        BY DEF Range
    <3> QED BY <1>3, <1>4, <3>1 DEF Range
  <2>2. ASSUME NEW x \in Range(u) PROVE x \in Range(w)
    <3>1. PICK i \in DOMAIN u : x = u[i]
        BY DEF Range
    <3> QED BY <1>3, <1>4, <3>1 DEF Range
  <2>3. e \in Range(w)
    <3>1. Len(u) + 1 \in DOMAIN w
        BY <1>4
    <3> QED BY <1>3, <3>1 DEF Range
  <2> QED BY <2>1, <2>2, <2>3
<1>6. ASSUME IsInjective(u), e \notin Range(u) PROVE IsInjective(w)
  <2> SUFFICES ASSUME NEW i \in DOMAIN w, NEW j \in DOMAIN w, w[i] = w[j] PROVE i = j
    BY DEF IsInjective
  <2>1. CASE i = Len(u) + 1 /\ j # i
    BY <1>3, <1>4, <1>6, <2>1 DEF Range
  <2>2. CASE j = Len(u) + 1 /\ j # i
    BY <1>3, <1>4, <1>6, <2>2 DEF Range
  <2>3. CASE i # Len(u) + 1 /\ j # Len(u) + 1
    BY <1>3, <1>4, <1>6, <2>3 DEF IsInjective
  <2> QED BY <2>1, <2>2, <2>3
<1>7. w = Append(u, e)
    BY DEF w
<1> QED BY <1>2, <1>3, <1>5, <1>6, <1>7

LEMMA InSetFacts ==
    ASSUME NEW A, NEW order \in Seq(A), NEW S
    PROVE  FilterFacts(order, S, InSet(order, S))
<1> DEFINE n == Len(order)
           Seen(i) == {order[j] : j \in 1 .. i}
           Ok(i, u) == /\ u \in Seq(S \cap Range(order))
                       /\ Range(u) = Seen(i) \cap S
                       /\ Len(u) <= i
                       /\ (\E x \in Seen(i) : x \notin S) => Len(u) < i
                       /\ IsInjective(order) => IsInjective(u)
<1>1. PICK f : Filters(order, S, f)
    BY InSetUnfolds
<1>2. n \in Nat /\ DOMAIN order = 1 .. n /\ Range(order) = Seen(n)
    BY DEF Range
<1> DEFINE T == {i \in 0 .. n : Ok(i, f[i])}
<1>3. 0 \in T
  <2>1. f[0] = <<>> /\ Range(<<>>) = {} /\ IsInjective(<<>>) /\ Len(<<>>) = 0
    BY <1>1 DEF Filters, Range, IsInjective
  <2>2. Seen(0) = {} /\ 0 \in 0 .. n /\ <<>> \in Seq(S \cap Range(order))
    BY <1>2
  <2>3. Ok(0, <<>>)
    BY <2>1, <2>2
  <2> QED BY <2>1, <2>2, <2>3
<1>4. ASSUME NEW i \in 0 .. (n - 1), i \in T PROVE i + 1 \in T
  <2> DEFINE e == order[i + 1]
             u == f[i]
  <2>1. i + 1 \in 1 .. n /\ Seen(i + 1) = Seen(i) \cup {e} /\ e \in Range(order) /\ (i + 1) - 1 = i
    <3>1. i + 1 \in 1 .. n /\ (i + 1) - 1 = i /\ 1 .. (i + 1) = (1 .. i) \cup {i + 1}
        BY <1>2
    <3> QED BY <1>2, <3>1 DEF Range
  <2>2. f[i + 1] = IF e \in S THEN Append(u, e) ELSE u
    BY <1>1, <2>1 DEF Filters
  <2>3. Ok(i, u)
    BY <1>4
  <2>4. CASE e \notin S
    <3>1. f[i + 1] = u
        BY <2>2, <2>4
    <3>2. Len(u) \in Nat /\ Len(u) < i + 1
        BY <2>3, <1>2
    <3>3. Ok(i + 1, u)
        BY <2>1, <2>3, <2>4, <3>2
    <3> QED BY <2>1, <3>1, <3>3
  <2>5. CASE e \in S
    <3>1. f[i + 1] = Append(u, e)
        BY <2>2, <2>5
    <3> DEFINE w == Append(u, e)
               B == S \cap Range(order)
    <3>2. u \in Seq(B) /\ e \in B
        BY <2>1, <2>3, <2>5
    <3> HIDE DEF Seen, u, e, B
    <3>3. /\ w \in Seq(B \cup {e}) /\ Len(w) = Len(u) + 1 /\ Range(w) = Range(u) \cup {e}
          /\ IsInjective(u) /\ e \notin Range(u) => IsInjective(w)
        BY <3>2, AppendFacts
    <3>4. B \cup {e} = B
        BY <3>2
    <3>5. IsInjective(order) => e \notin Range(u)
      <4>1. ASSUME IsInjective(order), e \in Range(u) PROVE FALSE
        <5>1. e \in Seen(i)
            BY <2>3, <4>1
        <5>2. PICK j \in 1 .. i : order[j] = order[i + 1]
            BY <5>1 DEF Seen, e
        <5>3. j \in DOMAIN order /\ i + 1 \in DOMAIN order /\ j # i + 1
            BY <1>2, <2>1
        <5> QED BY <4>1, <5>2, <5>3 DEF IsInjective
      <4> QED BY <4>1
    <3> HIDE DEF w
    <3>6. Range(w) = Seen(i + 1) \cap S
        BY <2>1, <2>3, <2>5, <3>3
    <3>7. (\E x \in Seen(i + 1) : x \notin S) => Len(u) < i
        BY <2>1, <2>3, <2>5
    <3>8. Len(u) \in Nat /\ Len(u) <= i /\ i \in Nat
        BY <1>2, <2>3
    <3>9. Ok(i + 1, w)
        BY <2>3, <3>3, <3>4, <3>5, <3>6, <3>7, <3>8 DEF B
    <3>10. f[i + 1] = w /\ i + 1 \in 0 .. n
        BY <1>2, <2>1, <3>1 DEF w
    <3> HIDE DEF Ok
    <3> QED BY <3>9, <3>10
  <2> QED BY <2>4, <2>5
<1>5. 0 .. n \subseteq T
  <2> HIDE DEF T
  <2> QED BY <1>2, <1>3, <1>4, UpTo
<1>6. n \in T /\ f[n] = InSet(order, S)
  <2>1. n \in 0 .. n
    BY <1>2
  <2>2. f[n] = InSet(order, S)
    BY <1>1 DEF Filters
  <2> HIDE DEF T, n
  <2> QED BY <1>5, <2>1, <2>2
<1>7. Ok(n, f[n])
    BY <1>6
<1> HIDE DEF T
<1> QED BY <1>2, <1>6, <1>7 DEF FilterFacts

\* A filter asks only about the entries of the list.
LEMMA InSetAgrees ==
    ASSUME NEW A, NEW order \in Seq(A), NEW S, NEW R, S \cap Range(order) = R \cap Range(order)
    PROVE  InSet(order, S) = InSet(order, R)
<1> DEFINE n == Len(order)
<1>1. PICK f : Filters(order, S, f)
    BY InSetUnfolds
<1>2. PICK h : Filters(order, R, h)
    BY InSetUnfolds
<1>3. n \in Nat /\ n \in 0 .. n /\ \A i \in 1 .. n : order[i] \in Range(order)
    BY DEF Range
<1> DEFINE T == {i \in 0 .. n : f[i] = h[i]}
<1>4. 0 \in T
    BY <1>1, <1>2, <1>3 DEF Filters
<1>5. ASSUME NEW i \in 0 .. (n - 1), i \in T PROVE i + 1 \in T
  <2>1. i + 1 \in 1 .. n /\ (i + 1) - 1 = i
    BY <1>3
  <2>2. order[i + 1] \in S <=> order[i + 1] \in R
    BY <1>3, <2>1
  <2> QED BY <1>1, <1>2, <1>5, <2>1, <2>2 DEF Filters
<1>6. 0 .. n \subseteq T
  <2> HIDE DEF T, n
  <2> QED BY <1>3, <1>4, <1>5, UpTo
<1>7. f[n] = h[n]
    BY <1>3, <1>6
<1> QED BY <1>1, <1>2, <1>7 DEF Filters

\* A filter that keeps everything leaves the list.
LEMMA InSetOfAll ==
    ASSUME NEW A, NEW order \in Seq(A), NEW S, Range(order) \subseteq S
    PROVE  InSet(order, S) = order
<1> DEFINE n == Len(order)
<1>1. PICK f : Filters(order, S, f)
    BY InSetUnfolds
<1>2. n \in Nat /\ n \in 0 .. n /\ \A i \in 1 .. n : order[i] \in S
    BY DEF Range
<1> DEFINE T == {i \in 0 .. n : f[i] = SubSeq(order, 1, i)}
<1>3. 0 \in T
  <2>1. f[0] = <<>> /\ SubSeq(order, 1, 0) = <<>> /\ 0 \in 0 .. n
    BY <1>1, <1>2 DEF Filters
  <2> QED BY <2>1
<1>4. ASSUME NEW i \in 0 .. (n - 1), i \in T PROVE i + 1 \in T
  <2>1. i + 1 \in 1 .. n /\ (i + 1) - 1 = i
    BY <1>2
  <2>2. SubSeq(order, 1, i + 1) = Append(SubSeq(order, 1, i), order[i + 1])
    BY <2>1
  <2>3. f[i + 1] = SubSeq(order, 1, i + 1)
    BY <1>1, <1>2, <1>4, <2>1, <2>2 DEF Filters
  <2> QED BY <2>1, <2>3, <1>2
<1>5. 0 .. n \subseteq T
  <2> HIDE DEF T, n
  <2> QED BY <1>2, <1>3, <1>4, UpTo
<1>6. f[n] = SubSeq(order, 1, n)
    BY <1>2, <1>5
<1> QED BY <1>1, <1>6 DEF Filters

\* Two filters one after the other keep what both keep.
LEMMA InSetTwice ==
    ASSUME NEW A, NEW order \in Seq(A), NEW S, NEW R
    PROVE  InSet(InSet(order, S), R) = InSet(order, S \cap R)
<1> DEFINE n == Len(order)
           u == InSet(order, S)
           m == Len(u)
           B == S \cap R
<1>1. PICK f : Filters(order, S, f)
    BY InSetUnfolds
<1>2. u \in Seq(S)
  <2>1. u \in Seq(S \cap Range(order))
    BY InSetFacts DEF FilterFacts
  <2> QED BY <2>1
<1>3. PICK h : Filters(u, R, h)
  <2> HIDE DEF u
  <2> QED BY <1>2, InSetUnfolds
<1>4. PICK k : Filters(order, B, k)
    BY InSetUnfolds
<1>5. n \in Nat /\ n \in 0 .. n /\ m \in Nat /\ 0 \in 0 .. n
    BY <1>2
<1> HIDE DEF u
\* From the end: what the loop has found is where the whole result begins.
<1> DEFINE Begins(w) == w \in Seq(S) /\ Len(w) <= m /\ \A j \in 1 .. Len(w) : w[j] = u[j]
           P == {i \in 0 .. n : Begins(f[n - i])}
<1>6. 0 \in P
  <2>1. f[n - 0] = u
    BY <1>1, <1>5 DEF Filters, u
  <2>2. Begins(u)
    BY <1>2
  <2> QED BY <1>5, <2>1, <2>2
<1>7. \A i \in 0 .. n : f[i] \in Seq(S)
  <2> DEFINE Q == {i \in 0 .. n : f[i] \in Seq(S)}
  <2>1. 0 \in Q
    <3>1. f[0] = <<>> /\ <<>> \in Seq(S)
        BY <1>1 DEF Filters
    <3> QED BY <1>5, <3>1
  <2>2. ASSUME NEW i \in 0 .. (n - 1), i \in Q PROVE i + 1 \in Q
    <3>1. i + 1 \in 1 .. n /\ (i + 1) - 1 = i /\ i + 1 \in 0 .. n
        BY <1>5
    <3>2. f[i + 1] = IF order[i + 1] \in S THEN Append(f[i], order[i + 1]) ELSE f[i]
        BY <1>1, <3>1 DEF Filters
    <3>3. f[i] \in Seq(S)
        BY <2>2
    <3>4. f[i + 1] \in Seq(S)
        BY <3>2, <3>3
    <3> QED BY <3>1, <3>4
  <2>3. 0 .. n \subseteq Q
    <3> HIDE DEF Q, n
    <3> QED BY <1>5, <2>1, <2>2, UpTo
  <2> QED BY <2>3
<1>8. ASSUME NEW i \in 0 .. (n - 1), i \in P PROVE i + 1 \in P
  <2> DEFINE j == n - i
  <2>1. j \in 1 .. n /\ j - 1 \in 0 .. n /\ n - (i + 1) = j - 1 /\ i + 1 \in 0 .. n
    BY <1>5
  <2>2. f[j] = IF order[j] \in S THEN Append(f[j - 1], order[j]) ELSE f[j - 1]
    BY <1>1, <2>1 DEF Filters
  <2>3. Begins(f[j])
    BY <1>8
  <2> HIDE DEF j, n, m
  <2>4. f[j - 1] \in Seq(S)
    BY <1>7, <2>1
  <2>5. Begins(f[j - 1])
    <3>1. CASE order[j] \notin S
        BY <2>2, <2>3, <3>1
    <3>2. CASE order[j] \in S
      <4> DEFINE w == f[j - 1]
                 e == order[j]
      <4>1. f[j] = Append(w, e) /\ e \in S /\ w \in Seq(S)
        BY <2>2, <2>4, <3>2
      <4> HIDE DEF w, e
      <4>2. Len(f[j]) = Len(w) + 1 /\ \A l \in 1 .. Len(w) : f[j][l] = w[l]
        BY <4>1
      <4>3. Len(w) \in Nat /\ m \in Nat
        BY <1>5, <4>1
      <4>4. Begins(w)
        BY <2>3, <4>1, <4>2, <4>3
      <4> QED BY <4>4 DEF w
    <3> QED BY <3>1, <3>2
  <2> QED BY <2>1, <2>5
<1>9. 0 .. n \subseteq P
  <2> HIDE DEF P, n
  <2> QED BY <1>5, <1>6, <1>8, UpTo
<1>10. ASSUME NEW i \in 0 .. n PROVE Begins(f[i])
  <2>1. n - i \in 0 .. n /\ n - (n - i) = i
    BY <1>5
  <2>2. n - i \in P
    BY <1>9, <2>1
  <2> QED BY <2>1, <2>2
\* The second loop is at the entry that the first one has found.
<1> DEFINE T == {i \in 0 .. n : k[i] = h[Len(f[i])]}
<1>11. 0 \in T
    BY <1>1, <1>3, <1>4, <1>5 DEF Filters
<1>12. ASSUME NEW i \in 0 .. (n - 1), i \in T PROVE i + 1 \in T
  <2> DEFINE e == order[i + 1]
             w == f[i]
  <2>1. i + 1 \in 1 .. n /\ (i + 1) - 1 = i /\ i \in 0 .. n /\ i + 1 \in 0 .. n
    BY <1>5
  <2>2. /\ f[i + 1] = IF e \in S THEN Append(w, e) ELSE w
        /\ k[i + 1] = IF e \in B THEN Append(k[i], e) ELSE k[i]
    BY <1>1, <1>4, <2>1 DEF Filters
  <2>3. Begins(f[i + 1]) /\ Begins(w)
    BY <1>10, <2>1
  <2>4. k[i] = h[Len(w)]
    BY <1>12
  <2> HIDE DEF e, w
  <2>5. CASE e \notin S
    <3>1. k[i + 1] = h[Len(f[i + 1])]
        BY <2>2, <2>4, <2>5
    <3> QED BY <2>1, <3>1
  <2>6. CASE e \in S
    <3>1. f[i + 1] = Append(w, e) /\ w \in Seq(S)
        BY <2>2, <2>3, <2>6
    <3> DEFINE l == Len(w) + 1
    <3>2. Len(f[i + 1]) = l /\ f[i + 1][l] = e /\ Len(w) \in Nat
        BY <2>6, <3>1
    <3>3. l \in 1 .. m /\ u[l] = e /\ l - 1 = Len(w)
        BY <1>5, <2>3, <3>2
    <3>4. h[l] = IF u[l] \in R THEN Append(h[l - 1], u[l]) ELSE h[l - 1]
        BY <1>3, <3>3 DEF Filters
    <3> HIDE DEF l
    <3>5. k[i + 1] = h[l]
        BY <2>2, <2>4, <2>6, <3>3, <3>4
    <3> QED BY <2>1, <3>2, <3>5
  <2> QED BY <2>5, <2>6
<1>13. 0 .. n \subseteq T
  <2> HIDE DEF T, n
  <2> QED BY <1>5, <1>11, <1>12, UpTo
<1>14. k[n] = h[Len(f[n])]
    BY <1>5, <1>13
<1>15. f[n] = u /\ k[n] = InSet(order, B) /\ h[m] = InSet(u, R)
    BY <1>1, <1>3, <1>4 DEF Filters, u
<1> QED BY <1>14, <1>15 DEF u

\* The first occurrences of a list: each entry once, and a list without
\* repetitions is left as it is.
LEMMA DedupFacts ==
    ASSUME NEW A, NEW s \in Seq(A)
    PROVE  /\ Dedup1(s) \in Seq(A) /\ IsInjective(Dedup1(s))
           /\ IsInjective(s) => Dedup1(s) = s
<1> DEFINE n == Len(s)
           Ok(i, u) == /\ u \in Seq(A) /\ IsInjective(u)
                       /\ IsInjective(s) => u = SubSeq(s, 1, i)
<1>1. PICK f : FirstOnes(s, f)
    BY DedupUnfolds
<1>2. n \in Nat /\ n \in 0 .. n /\ 0 \in 0 .. n /\ n = Len(s) /\ DOMAIN s = 1 .. n
    OBVIOUS
<1> DEFINE T == {i \in 0 .. n : Ok(i, f[i])}
<1>3. 0 \in T
  <2>1. f[0] = <<>> /\ SubSeq(s, 1, 0) = <<>>
    BY <1>1 DEF FirstOnes
  <2>2. <<>> \in Seq(A) /\ IsInjective(<<>>)
    BY DEF IsInjective
  <2>3. Ok(0, <<>>)
    BY <2>1, <2>2
  <2> QED BY <1>2, <2>1, <2>3
<1>4. ASSUME NEW i \in 0 .. (n - 1), i \in T PROVE i + 1 \in T
  <2> DEFINE e == s[i + 1]
             u == f[i]
  <2>1. i + 1 \in 1 .. n /\ (i + 1) - 1 = i /\ i + 1 \in 0 .. n /\ e \in A /\ i \in Nat
    BY <1>2
  <2>2. f[i + 1] = IF e \in Range(u) THEN u ELSE Append(u, e)
    BY <1>1, <1>2, <2>1 DEF FirstOnes
  <2>3. Ok(i, u)
    BY <1>4
  <2>4. SubSeq(s, 1, i + 1) = Append(SubSeq(s, 1, i), e)
    BY <1>2, <2>1
  <2>5. IsInjective(s) => e \notin Range(u)
    <3> SUFFICES ASSUME IsInjective(s), e \in Range(u) PROVE FALSE
        OBVIOUS
    <3>1. u = SubSeq(s, 1, i)
        BY <2>3
    <3>2. PICK j \in DOMAIN u : u[j] = e
        BY DEF Range
    <3>3. DOMAIN u = 1 .. i /\ \A l \in 1 .. i : u[l] = s[l]
        BY <1>2, <2>1, <3>1
    <3>4. j \in DOMAIN s /\ i + 1 \in DOMAIN s /\ s[j] = s[i + 1] /\ j # i + 1
        BY <1>2, <2>1, <3>2, <3>3
    <3> QED BY <3>4 DEF IsInjective
  <2> HIDE DEF e, u, n
  <2>6. CASE e \in Range(u)
    <3>1. Ok(i + 1, u)
        BY <2>3, <2>5, <2>6
    <3> QED BY <2>1, <2>2, <2>6, <3>1
  <2>7. CASE e \notin Range(u)
    <3> DEFINE w == Append(u, e)
    <3>1. w \in Seq(A \cup {e}) /\ IsInjective(w)
        BY <2>1, <2>3, <2>7, AppendFacts
    <3>2. A \cup {e} = A
        BY <2>1
    <3>3. IsInjective(s) => w = SubSeq(s, 1, i + 1)
        BY <2>3, <2>4
    <3> HIDE DEF w
    <3>4. Ok(i + 1, w)
        BY <3>1, <3>2, <3>3
    <3>5. f[i + 1] = w
        BY <2>2, <2>7 DEF w
    <3> QED BY <2>1, <3>4, <3>5
  <2> QED BY <2>6, <2>7
<1>5. 0 .. n \subseteq T
  <2> HIDE DEF T, n
  <2> QED BY <1>2, <1>3, <1>4, UpTo
<1>6. n \in T
  <2> HIDE DEF T, n
  <2> QED BY <1>2, <1>5
<1>7. Ok(n, f[n]) /\ SubSeq(s, 1, n) = s /\ f[n] = Dedup1(s)
    BY <1>1, <1>6 DEF FirstOnes
<1> QED BY <1>7

\* What truncation, reversal and moving to the front do to a list.
LEMMA TruncateFacts ==
    ASSUME NEW A, NEW s \in Seq(A), NEW n \in Nat
    PROVE  /\ Truncate(s, n) \in Seq(A) /\ Len(Truncate(s, n)) <= n
           /\ IsInjective(s) => IsInjective(Truncate(s, n))
           /\ Len(s) <= n => Truncate(s, n) = s
<1> DEFINE k == IF Len(s) < n THEN Len(s) ELSE n
           u == Truncate(s, n)
<1>1. k \in 0 .. Len(s) /\ k <= n /\ k \in Nat /\ (Len(s) <= n => k = Len(s))
    OBVIOUS
<1>2. u = SubSeq(s, 1, k)
    BY DEF Truncate
<1> HIDE DEF u, k
<1>3. u \in Seq(A) /\ Len(u) = k /\ \A i \in 1 .. k : u[i] = s[i]
    BY <1>1, <1>2
<1>4. DOMAIN u = 1 .. k /\ 1 .. k \subseteq DOMAIN s
    BY <1>1, <1>3
<1>5. IsInjective(s) => IsInjective(u)
    BY <1>3, <1>4 DEF IsInjective
<1>6. Len(s) <= n => u = s
    BY <1>1, <1>2
<1> QED BY <1>1, <1>3, <1>5, <1>6 DEF u

LEMMA ReverseFacts ==
    ASSUME NEW A, NEW s \in Seq(A)
    PROVE  /\ Reverse(s) \in Seq(A) /\ Range(Reverse(s)) = Range(s)
           /\ IsInjective(s) => IsInjective(Reverse(s))
<1> DEFINE n == Len(s)
           u == Reverse(s)
<1>1. n \in Nat /\ DOMAIN s = 1 .. n /\ \A i \in 1 .. n : s[i] \in A
    OBVIOUS
<1>2. u = [i \in 1 .. n |-> s[(n - i) + 1]]
    BY DEF Reverse
<1>3. \A i \in 1 .. n : (n - i) + 1 \in 1 .. n /\ (n - ((n - i) + 1)) + 1 = i
    BY <1>1
<1> HIDE DEF n, u
<1>4. u \in Seq(A) /\ DOMAIN u = 1 .. n /\ \A i \in 1 .. n : u[i] = s[(n - i) + 1]
    BY <1>1, <1>2, <1>3
<1>5. Range(u) = Range(s)
  <2>1. ASSUME NEW i \in 1 .. n PROVE u[i] \in Range(s) /\ s[i] \in Range(u)
    <3> DEFINE j == (n - i) + 1
    <3>1. j \in 1 .. n /\ u[i] = s[j] /\ u[j] = s[i]
        BY <1>3, <1>4
    <3> HIDE DEF j
    <3> QED BY <1>1, <1>4, <3>1 DEF Range
  <2> QED BY <1>1, <1>4, <2>1 DEF Range
<1>6. ASSUME IsInjective(s) PROVE IsInjective(u)
  <2> SUFFICES ASSUME NEW i \in 1 .. n, NEW j \in 1 .. n, u[i] = u[j] PROVE i = j
    BY <1>4 DEF IsInjective
  <2>1. (n - i) + 1 = (n - j) + 1
    BY <1>1, <1>3, <1>4, <1>6 DEF IsInjective
  <2> QED BY <1>1, <2>1
<1> QED BY <1>4, <1>5, <1>6 DEF u

LEMMA ToFrontFacts ==
    ASSUME NEW A, NEW s \in Seq(A), NEW e \in A
    PROVE  /\ ToFront(s, e) \in Seq(A) /\ Range(ToFront(s, e)) = Range(s) \cup {e}
           /\ IsInjective(s) => IsInjective(ToFront(s, e))
<1> DEFINE u == Without(s, e)
           w == ToFront(s, e)
           S == Range(s) \ {e}
<1>1. FilterFacts(s, S, InSet(s, S))
    BY InSetFacts
<1>2. u = InSet(s, S) /\ S \cap Range(s) = S /\ S \subseteq A /\ w = <<e>> \o u
    BY DEF Without, ToFront, Range
<1> HIDE DEF u, w, S
<1>3. u \in Seq(S) /\ Range(u) = S /\ (IsInjective(s) => IsInjective(u))
    BY <1>1, <1>2 DEF FilterFacts
<1>4. u \in Seq(A)
    BY <1>2, <1>3
<1>5. w \in Seq(A) /\ Len(w) = Len(u) + 1 /\ w[1] = e /\ \A i \in 1 .. Len(u) : w[i + 1] = u[i]
    BY <1>2, <1>4
<1>6. DOMAIN w = 1 .. (Len(u) + 1) /\ DOMAIN u = 1 .. Len(u) /\ Len(u) \in Nat
    BY <1>4, <1>5
<1>7. \A i \in 2 .. (Len(u) + 1) : i - 1 \in 1 .. Len(u) /\ w[i] = u[i - 1]
  <2> SUFFICES ASSUME NEW i \in 2 .. (Len(u) + 1) PROVE i - 1 \in 1 .. Len(u) /\ w[i] = u[i - 1]
    OBVIOUS
  <2>1. i - 1 \in 1 .. Len(u) /\ (i - 1) + 1 = i
    BY <1>6
  <2> QED BY <1>5, <2>1
<1>8. \A i \in 1 .. Len(u) : u[i] # e
    BY <1>3, <1>6 DEF Range, S
<1>9. Range(w) = Range(u) \cup {e}
  <2>1. ASSUME NEW i \in DOMAIN w PROVE w[i] \in Range(u) \cup {e}
    <3>1. i = 1 \/ i \in 2 .. (Len(u) + 1)
        BY <1>6
    <3> QED BY <1>5, <1>6, <1>7, <3>1 DEF Range
  <2>2. ASSUME NEW i \in DOMAIN u PROVE u[i] \in Range(w)
    <3>1. i + 1 \in DOMAIN w /\ w[i + 1] = u[i]
        BY <1>5, <1>6
    <3> QED BY <3>1 DEF Range
  <2>3. e \in Range(w)
    <3>1. 1 \in DOMAIN w
        BY <1>6
    <3> QED BY <1>5, <3>1 DEF Range
  <2> QED BY <2>1, <2>2, <2>3 DEF Range
<1>10. ASSUME IsInjective(u) PROVE IsInjective(w)
  <2> SUFFICES ASSUME NEW i \in DOMAIN w, NEW j \in DOMAIN w, w[i] = w[j], i < j PROVE FALSE
    BY <1>6 DEF IsInjective
  <2>1. j \in 2 .. (Len(u) + 1)
    BY <1>6
  <2>2. CASE i = 1
    BY <1>5, <1>7, <1>8, <2>1, <2>2
  <2>3. CASE i # 1
    <3>1. i \in 2 .. (Len(u) + 1)
        BY <1>6, <2>3
    <3>2. u[i - 1] = u[j - 1] /\ i - 1 \in DOMAIN u /\ j - 1 \in DOMAIN u
        BY <1>6, <1>7, <2>1, <3>1
    <3>3. i - 1 = j - 1
        BY <1>10, <3>2 DEF IsInjective
    <3> QED BY <1>6, <3>3
  <2> QED BY <2>2, <2>3
<1>11. Range(w) = Range(s) \cup {e}
    BY <1>3, <1>9 DEF S
<1> QED BY <1>3, <1>5, <1>10, <1>11 DEF w

\* A tab bar as PinsAreConsistent wants it.
TabBar == [active: Nat, pinned: Seq(Entry), activation: Seq(Entry)]
Consistent(t) ==
    /\ t \in TabBar
    /\ IsInjective(t.pinned) /\ IsInjective(t.activation)
    /\ Range(t.pinned) = Range(t.activation)
    /\ Len(t.pinned) <= MaxPins
    /\ t.active < TabCount(t)

LEMMA TabParts ==
    ASSUME NEW t, Consistent(t)
    PROVE  /\ t = [active |-> t.active, pinned |-> t.pinned, activation |-> t.activation]
           /\ t.active \in Nat /\ t.pinned \in Seq(Entry) /\ t.activation \in Seq(Entry)
           /\ Len(t.pinned) \in Nat /\ DOMAIN t.pinned = 1 .. Len(t.pinned)
           /\ TabCount(t) = Len(t.pinned) + 2 /\ MaxPins \in Nat
    BY WorkspaceAssumption DEF Consistent, TabBar, TabCount

\* The tab at a place of the bar.
LEMMA TabIsPin ==
    ASSUME NEW t, Consistent(t), NEW i \in Nat
    PROVE  /\ TabAt(t, i) \in Entry <=> i \in 1 .. Len(t.pinned)
           /\ TabAt(t, i) \in Entry => TabAt(t, i) \in Range(t.pinned)
           /\ TabAt(t, i) = "secrets" <=> i = 0
<1>1. t.pinned \in Seq(Entry) /\ Len(t.pinned) \in Nat /\ DOMAIN t.pinned = 1 .. Len(t.pinned)
    BY TabParts
<1>2. "secrets" \notin Entry /\ "settings" \notin Entry
    BY WorkspaceAssumption
<1>3. CASE i = 0
    BY <1>2, <1>3 DEF TabAt
<1>4. CASE i \in 1 .. Len(t.pinned)
    BY <1>1, <1>2, <1>4 DEF TabAt, Range
<1>5. CASE i > Len(t.pinned)
    BY <1>1, <1>2, <1>5 DEF TabAt
<1> QED BY <1>1, <1>3, <1>4, <1>5

LEMMA ActivatedIsConsistent ==
    ASSUME NEW t, Consistent(t)
    PROVE  /\ Consistent(RecordActivation(t))
           /\ RecordActivation(t).active = t.active /\ RecordActivation(t).pinned = t.pinned
<1> DEFINE e == TabAt(t, t.active)
           a == ToFront(t.activation, e)
           w == RecordActivation(t)
<1>1. t.active \in Nat /\ t.pinned \in Seq(Entry) /\ t.activation \in Seq(Entry)
    BY TabParts
<1>2. CASE e \notin Entry
    BY <1>2 DEF RecordActivation
<1>3. CASE e \in Entry
  <2>1. e \in Range(t.pinned) /\ Range(t.pinned) = Range(t.activation) /\ IsInjective(t.activation)
    BY <1>1, <1>3, TabIsPin DEF Consistent
  <2>2. t = [active |-> t.active, pinned |-> t.pinned, activation |-> t.activation]
    BY TabParts
  <2>3. w = [active |-> t.active, pinned |-> t.pinned, activation |-> a]
    BY <1>3, <2>2 DEF RecordActivation
  <2> HIDE DEF e
  <2>4. a \in Seq(Entry) /\ Range(a) = Range(t.activation) \cup {e} /\ (IsInjective(t.activation) => IsInjective(a))
    BY <1>1, <1>3, ToFrontFacts
  <2> HIDE DEF a, w
  <2>5. w.active = t.active /\ w.pinned = t.pinned /\ w.activation = a
    BY <2>3
  <2>6. w \in TabBar /\ TabCount(w) = TabCount(t)
    BY <1>1, <2>3, <2>4, <2>5 DEF TabBar, TabCount
  <2>7. Consistent(w)
    BY <2>1, <2>4, <2>5, <2>6 DEF Consistent
  <2> QED BY <2>5, <2>7 DEF w
<1> QED BY <1>2, <1>3

\* The moves between tabs only choose another tab.
LEMMA MovedIsConsistent ==
    ASSUME NEW t, Consistent(t), NEW i \in Nat, i < TabCount(t)
    PROVE  LET w == [t EXCEPT !.active = i] IN
               Consistent(RecordActivation(w)) /\ RecordActivation(w).pinned = t.pinned
               /\ RecordActivation(w).active = i
<1> DEFINE w == [t EXCEPT !.active = i]
<1>1. t = [active |-> t.active, pinned |-> t.pinned, activation |-> t.activation]
      /\ t.active \in Nat /\ t.pinned \in Seq(Entry) /\ t.activation \in Seq(Entry)
    BY TabParts
<1>2. w = [active |-> i, pinned |-> t.pinned, activation |-> t.activation]
    BY <1>1
<1>3. w.active = i /\ w.pinned = t.pinned /\ w.activation = t.activation /\ TabCount(w) = TabCount(t)
    BY <1>2 DEF TabCount
<1> HIDE DEF w
<1>4. w \in TabBar
    BY <1>1, <1>2 DEF TabBar
<1>5. Consistent(w)
    BY <1>3, <1>4 DEF Consistent
<1>6. Consistent(RecordActivation(w)) /\ RecordActivation(w).pinned = w.pinned
      /\ RecordActivation(w).active = w.active
    BY <1>5, ActivatedIsConsistent
<1> QED BY <1>3, <1>6 DEF w

LEMMA TabMoves ==
    ASSUME NEW t, Consistent(t)
    PROVE  /\ Consistent(TabNext(t)) /\ TabNext(t).pinned = t.pinned
           /\ Consistent(TabPrev(t)) /\ TabPrev(t).pinned = t.pinned
           /\ \A n \in Nat : Consistent(TabJump(t, n)) /\ TabJump(t, n).pinned = t.pinned
           /\ TabJump(t, 1).active = 0
<1>1. t = [active |-> t.active, pinned |-> t.pinned, activation |-> t.activation]
      /\ t.active \in Nat /\ TabCount(t) \in Nat \ {0} /\ t.active < TabCount(t)
  <2>1. Len(t.pinned) \in Nat /\ TabCount(t) = Len(t.pinned) + 2
    BY TabParts
  <2> QED BY <2>1, TabParts DEF Consistent
<1>2. (t.active + 1) % TabCount(t) \in 0 .. (TabCount(t) - 1)
    BY <1>1
<1>3. (t.active + TabCount(t) - 1) % TabCount(t) \in 0 .. (TabCount(t) - 1)
    BY <1>1
<1>4. Consistent(TabNext(t)) /\ TabNext(t).pinned = t.pinned
  <2> DEFINE i == (t.active + 1) % TabCount(t)
  <2>1. i \in Nat /\ i < TabCount(t)
    BY <1>1, <1>2
  <2> HIDE DEF i
  <2>2. TabNext(t) = RecordActivation([t EXCEPT !.active = i])
    BY DEF TabNext, i
  <2> QED BY <2>1, <2>2, MovedIsConsistent
<1>5. Consistent(TabPrev(t)) /\ TabPrev(t).pinned = t.pinned
  <2> DEFINE i == (t.active + TabCount(t) - 1) % TabCount(t)
  <2>1. i \in Nat /\ i < TabCount(t)
    BY <1>1, <1>3
  <2> HIDE DEF i
  <2>2. TabPrev(t) = RecordActivation([t EXCEPT !.active = i])
    BY DEF TabPrev, i
  <2> QED BY <2>1, <2>2, MovedIsConsistent
<1>6. ASSUME NEW n \in Nat PROVE Consistent(TabJump(t, n)) /\ TabJump(t, n).pinned = t.pinned
  <2>1. CASE n \in 1 .. TabCount(t)
    <3> DEFINE i == n - 1
    <3>1. i \in Nat /\ i < TabCount(t)
        BY <1>1, <2>1
    <3> HIDE DEF i
    <3>2. TabJump(t, n) = RecordActivation([t EXCEPT !.active = i])
        BY <2>1 DEF TabJump, i
    <3> QED BY <3>1, <3>2, MovedIsConsistent
  <2>2. CASE n \notin 1 .. TabCount(t)
    BY <2>2 DEF TabJump
  <2> QED BY <2>1, <2>2
<1>7. TabJump(t, 1).active = 0
  <2> DEFINE i == 0
  <2>1. i \in Nat /\ i < TabCount(t) /\ 1 \in 1 .. TabCount(t)
    BY <1>1
  <2>2. i = 1 - 1
    OBVIOUS
  <2> HIDE DEF i
  <2>3. TabJump(t, 1) = RecordActivation([t EXCEPT !.active = i])
    BY <2>1, <2>2 DEF TabJump
  <2>4. TabJump(t, 1).active = i
    BY <2>1, <2>3, MovedIsConsistent
  <2> QED BY <2>4 DEF i
<1> QED BY <1>4, <1>5, <1>6, <1>7

\* Taking a pin away, and the tab that is left active.
LEMMA UnpinFacts ==
    ASSUME NEW t, Consistent(t), NEW e
    PROVE  LET w == Unpin(t, e) IN
           /\ w = [active |-> t.active, pinned |-> w.pinned, activation |-> w.activation]
           /\ w.pinned \in Seq(Entry) /\ w.activation \in Seq(Entry)
           /\ IsInjective(w.pinned) /\ IsInjective(w.activation)
           /\ Range(w.pinned) = Range(t.pinned) \ {e} /\ Range(w.activation) = Range(t.pinned) \ {e}
           /\ Len(w.pinned) <= Len(t.pinned)
           /\ e \in Range(t.pinned) => Len(w.pinned) < Len(t.pinned)
<1> DEFINE w == Unpin(t, e)
           S == Range(t.pinned) \ {e}
           p == InSet(t.pinned, S)
           a == InSet(t.activation, S)
<1>1. t = [active |-> t.active, pinned |-> t.pinned, activation |-> t.activation]
      /\ t.pinned \in Seq(Entry) /\ t.activation \in Seq(Entry)
    BY TabParts
<1>2. Range(t.pinned) = Range(t.activation) /\ IsInjective(t.pinned) /\ IsInjective(t.activation)
    BY DEF Consistent
<1>3. Without(t.pinned, e) = p /\ Without(t.activation, e) = a
    BY <1>2 DEF Without
<1>4. w = [active |-> t.active, pinned |-> p, activation |-> a]
  <2> DEFINE i == t.active
             q == t.pinned
             b == t.activation
  <2>1. t = [active |-> i, pinned |-> q, activation |-> b] /\ Without(q, e) = p /\ Without(b, e) = a
    BY <1>1, <1>3
  <2>2. i = t.active
    OBVIOUS
  <2> HIDE DEF i, q, b, p, a
  <2>3. t.pinned = q /\ t.activation = b
    BY <2>1
  <2>4. w = [t EXCEPT !.pinned = p, !.activation = a]
    BY <2>1, <2>3 DEF Unpin
  <2> DEFINE u == [t EXCEPT !.pinned = p]
  <2>5. u = [active |-> i, pinned |-> p, activation |-> b]
    BY <2>1
  <2>6. w = [u EXCEPT !.activation = a]
    BY <2>4
  <2> HIDE DEF u, w
  <2> QED BY <2>2, <2>5, <2>6
<1>5. FilterFacts(t.pinned, S, p) /\ FilterFacts(t.activation, S, a)
    BY <1>1, InSetFacts
<1>6. S \cap Range(t.pinned) = S /\ S \cap Range(t.activation) = S /\ S \subseteq Entry
    BY <1>1, <1>2 DEF Range
<1>7. e \in Range(t.pinned) => \E x \in Range(t.pinned) : x \notin S
    OBVIOUS
<1> HIDE DEF p, a, w, S
<1>8. w.pinned = p /\ w.activation = a /\ p \in Seq(S) /\ a \in Seq(S)
    BY <1>4, <1>5, <1>6 DEF FilterFacts
<1>9. p \in Seq(Entry) /\ a \in Seq(Entry)
    BY <1>6, <1>8
<1>10. /\ IsInjective(p) /\ IsInjective(a) /\ Range(p) = S /\ Range(a) = S
       /\ Len(p) <= Len(t.pinned) /\ (e \in Range(t.pinned) => Len(p) < Len(t.pinned))
    BY <1>2, <1>5, <1>6, <1>7 DEF FilterFacts
<1> QED BY <1>4, <1>8, <1>9, <1>10 DEF w, S

LEMMA ClampFacts ==
    ASSUME NEW n \in Nat, NEW p \in Seq(Entry), NEW a \in Seq(Entry), NEW t,
           t = [active |-> n, pinned |-> p, activation |-> a],
           IsInjective(p), IsInjective(a), Range(p) = Range(a), Len(p) <= MaxPins
    PROVE  /\ Consistent(ClampActive(t)) /\ ClampActive(t).pinned = p
           /\ n = 0 => ClampActive(t).active = 0
<1> DEFINE i == IF n > Len(p) + 1 THEN Len(p) + 1 ELSE n
           w == ClampActive(t)
<1>1. t.active = n /\ t.pinned = p /\ TabCount(t) = Len(p) + 2 /\ TabCount(t) - 1 = Len(p) + 1 /\ Len(p) \in Nat
    BY DEF TabCount
<1>2. w = [active |-> i, pinned |-> p, activation |-> a]
    BY <1>1 DEF ClampActive
<1>3. i \in Nat /\ i < Len(p) + 2 /\ (n = 0 => i = 0)
    BY <1>1
<1> HIDE DEF i, w
<1>4. w.active = i /\ w.pinned = p /\ w.activation = a /\ TabCount(w) = Len(p) + 2
    BY <1>2 DEF TabCount
<1>5. w \in TabBar
    BY <1>2, <1>3 DEF TabBar
<1> QED BY <1>3, <1>4, <1>5 DEF Consistent, w

PinnedOnto(t, e) == [t EXCEPT !.pinned = Append(@, e), !.activation = <<e>> \o @]
LEMMA PinAdded ==
    ASSUME NEW i, NEW r \in Seq(Entry), NEW b \in Seq(Entry), NEW e, NEW t,
           t = [active |-> i, pinned |-> r, activation |-> b]
    PROVE  PinnedOnto(t, e)
               = [active |-> i, pinned |-> Append(r, e), activation |-> <<e>> \o b]
<1> DEFINE q == Append(r, e)
           a == <<e>> \o b
<1>1. t.pinned = r /\ t.activation = b
    OBVIOUS
<1>2. PinnedOnto(t, e) = [t EXCEPT !.pinned = q, !.activation = a]
    BY <1>1 DEF PinnedOnto
<1> HIDE DEF q, a
<1> DEFINE u == [t EXCEPT !.pinned = q]
<1>3. [t EXCEPT !.pinned = q, !.activation = a] = [u EXCEPT !.activation = a]
    OBVIOUS
<1>4. u = [active |-> i, pinned |-> q, activation |-> b]
    OBVIOUS
<1> HIDE DEF u
<1>5. [u EXCEPT !.activation = a] = [active |-> i, pinned |-> q, activation |-> a]
    BY <1>4
<1> QED BY <1>2, <1>3, <1>5 DEF q, a

\* Pinning an entry, or taking its pin away, keeps the bar consistent: the
\* eviction finds a pin, and leaves room for one.
LEMMA PinnedIsConsistent ==
    ASSUME NEW t, Consistent(t), NEW e \in Entry
    PROVE  /\ Consistent(TogglePin(t, e))
           /\ t.active = 0 => TogglePin(t, e).active = 0
           /\ Range(TogglePin(t, e).pinned) \subseteq Range(t.pinned) \cup {e}
<1> DEFINE p == t.pinned
           l == Last(t.activation)
           room == IF Len(p) >= MaxPins THEN Unpin(t, l) ELSE t
           q == Append(room.pinned, e)
           a == <<e>> \o room.activation
           w == [room EXCEPT !.pinned = Append(@, e), !.activation = <<e>> \o @]
<1>1. /\ t = [active |-> t.active, pinned |-> t.pinned, activation |-> t.activation]
      /\ t.active \in Nat /\ p \in Seq(Entry) /\ t.activation \in Seq(Entry) /\ Len(p) \in Nat /\ MaxPins \in Nat \ {0}
    BY TabParts, WorkspaceAssumption
<1>2. IsInjective(p) /\ IsInjective(t.activation) /\ Range(p) = Range(t.activation) /\ Len(p) <= MaxPins
    BY DEF Consistent
<1>3. CASE e \in Range(p)
  <2> DEFINE u == Unpin(t, e)
  <2>1. /\ u = [active |-> t.active, pinned |-> u.pinned, activation |-> u.activation]
        /\ u.pinned \in Seq(Entry) /\ u.activation \in Seq(Entry)
        /\ IsInjective(u.pinned) /\ IsInjective(u.activation)
        /\ Range(u.pinned) = Range(p) \ {e} /\ Range(u.activation) = Range(p) \ {e}
        /\ Len(u.pinned) <= Len(p)
    BY UnpinFacts
  <2>2. TogglePin(t, e) = ClampActive(u)
    BY <1>3 DEF TogglePin
  <2> HIDE DEF u, p
  <2> DEFINE v == u.pinned
             b == u.activation
  <2>3. /\ v \in Seq(Entry) /\ b \in Seq(Entry) /\ u = [active |-> t.active, pinned |-> v, activation |-> b]
        /\ IsInjective(v) /\ IsInjective(b) /\ Range(v) = Range(b) /\ Len(v) <= MaxPins /\ Len(v) \in Nat
    BY <1>1, <1>2, <2>1
  <2>4. Range(v) \subseteq Range(p)
    BY <2>1
  <2> HIDE DEF v, b
  <2>5. Consistent(ClampActive(u)) /\ ClampActive(u).pinned = v /\ (t.active = 0 => ClampActive(u).active = 0)
    BY <1>1, <2>3, ClampFacts
  <2> QED BY <2>2, <2>4, <2>5 DEF p
<1>4. CASE e \notin Range(p)
  <2>1. /\ room = [active |-> t.active, pinned |-> room.pinned, activation |-> room.activation]
        /\ room.pinned \in Seq(Entry) /\ room.activation \in Seq(Entry)
        /\ IsInjective(room.pinned) /\ IsInjective(room.activation)
        /\ Range(room.pinned) = Range(room.activation) /\ Range(room.pinned) \subseteq Range(p)
        /\ Len(room.pinned) < MaxPins
    <3>1. CASE Len(p) >= MaxPins
      <4>1. l \in Range(p)
        <5>1. 1 \in DOMAIN p
            BY <1>1, <3>1
        <5>2. p[1] \in Range(t.activation)
            BY <1>2, <5>1 DEF Range
        <5>3. PICK i \in DOMAIN t.activation : t.activation[i] = p[1]
            BY <5>2 DEF Range
        <5>4. Len(t.activation) \in DOMAIN t.activation
            BY <1>1, <5>3
        <5>5. l \in Range(t.activation)
            BY <5>4 DEF Last, Range
        <5> QED BY <1>2, <5>5
      <4> DEFINE u == Unpin(t, l)
      <4>2. room = u
        BY <3>1
      <4> HIDE DEF l, room
      <4>3. /\ u = [active |-> t.active, pinned |-> u.pinned, activation |-> u.activation]
            /\ u.pinned \in Seq(Entry) /\ u.activation \in Seq(Entry)
            /\ IsInjective(u.pinned) /\ IsInjective(u.activation)
            /\ Range(u.pinned) = Range(p) \ {l} /\ Range(u.activation) = Range(p) \ {l}
            /\ Len(u.pinned) < Len(p)
        BY <4>1, UnpinFacts
      <4>4. Len(u.pinned) \in Nat
        BY <4>3
      <4> HIDE DEF u
      <4> QED BY <1>1, <1>2, <4>2, <4>3, <4>4
    <3>2. CASE ~(Len(p) >= MaxPins)
      <4>1. room = t
        BY <3>2
      <4> HIDE DEF room
      <4> QED BY <1>1, <1>2, <3>2, <4>1
    <3> QED BY <3>1, <3>2
  <2> HIDE DEF room
  <2>2. w = [active |-> t.active, pinned |-> q, activation |-> a]
    <3> DEFINE i == t.active
               r == room.pinned
               b == room.activation
    <3>1. room = [active |-> i, pinned |-> r, activation |-> b]
        BY <2>1
    <3>2. i = t.active /\ q = Append(r, e) /\ a = <<e>> \o b /\ r \in Seq(Entry) /\ b \in Seq(Entry)
        BY <2>1
    <3> HIDE DEF i, r, b, q, a
    <3>3. w = [active |-> i, pinned |-> Append(r, e), activation |-> <<e>> \o b]
      <4>1. w = PinnedOnto(room, e)
        BY DEF PinnedOnto
      <4>2. PinnedOnto(room, e) = [active |-> i, pinned |-> Append(r, e), activation |-> <<e>> \o b]
        BY <3>1, <3>2, PinAdded
      <4> QED BY <4>1, <4>2
    <3> QED BY <3>2, <3>3
  <2>3. TogglePin(t, e) = ClampActive(w)
    BY <1>4 DEF TogglePin, room
  <2> DEFINE r == room.pinned
             b == room.activation
  <2>4. /\ q \in Seq(Entry \cup {e}) /\ Len(q) = Len(r) + 1 /\ Range(q) = Range(r) \cup {e}
        /\ IsInjective(r) /\ e \notin Range(r) => IsInjective(q)
    <3>1. r \in Seq(Entry)
        BY <2>1
    <3>2. q = Append(r, e)
        OBVIOUS
    <3> HIDE DEF r, q
    <3> QED BY <3>1, <3>2, AppendFacts
  <2>5. a \in Seq(Entry) /\ Range(a) = Range(b) \cup {e} /\ IsInjective(a)
    <3>1. b \in Seq(Entry) /\ e \notin Range(b) /\ IsInjective(b)
        BY <1>4, <2>1
    <3>2. a = <<e>> \o b
        OBVIOUS
    <3>3. Without(b, e) = b
      <4>1. Range(b) \ {e} = Range(b)
        BY <3>1
      <4> HIDE DEF b
      <4> QED BY <3>1, <4>1, InSetOfAll DEF Without
    <3> HIDE DEF b, a
    <3>4. a = ToFront(b, e)
        BY <3>2, <3>3 DEF ToFront
    <3> QED BY <3>1, <3>4, ToFrontFacts
  <2>6. Entry \cup {e} = Entry /\ e \notin Range(r) /\ Len(r) \in Nat /\ Len(r) < MaxPins
    BY <1>4, <2>1
  <2>7. q \in Seq(Entry) /\ IsInjective(q) /\ Range(q) = Range(a) /\ Len(q) <= MaxPins
    BY <1>1, <2>1, <2>4, <2>5, <2>6
  <2>8. Range(q) \subseteq Range(p) \cup {e}
    BY <2>1, <2>4
  <2> HIDE DEF q, a, w
  <2>9. Consistent(ClampActive(w)) /\ ClampActive(w).pinned = q /\ (t.active = 0 => ClampActive(w).active = 0)
    <3> DEFINE i == t.active
    <3>1. i \in Nat /\ w = [active |-> i, pinned |-> q, activation |-> a]
        BY <1>1, <2>2
    <3>2. IsInjective(a) /\ a \in Seq(Entry)
        BY <2>5
    <3> HIDE DEF i, p, l, r, b
    <3>3. Consistent(ClampActive(w)) /\ ClampActive(w).pinned = q /\ (i = 0 => ClampActive(w).active = 0)
        BY <2>7, <3>1, <3>2, ClampFacts
    <3> QED BY <3>3 DEF i
  <2> QED BY <2>3, <2>8, <2>9
<1> QED BY <1>3, <1>4

\* The tabs after an unlock.
LEMMA WithPinsFacts ==
    ASSUME NEW s \in Seq(Entry)
    PROVE  /\ Consistent(WithPins(s))
           /\ IsInjective(s) /\ Len(s) <= MaxPins => WithPins(s).pinned = s
<1> DEFINE d == Dedup1(s)
           p == Truncate(d, MaxPins)
           a == Reverse(p)
           t == WithPins(s)
           i == 0
<1>1. d \in Seq(Entry) /\ IsInjective(d) /\ (IsInjective(s) => d = s)
    BY DedupFacts
<1>2. t = [active |-> i, pinned |-> p, activation |-> a] /\ i \in Nat /\ MaxPins \in Nat
    BY WorkspaceAssumption DEF WithPins
<1> HIDE DEF d, i, t
<1>3. p \in Seq(Entry) /\ Len(p) <= MaxPins /\ IsInjective(p) /\ (Len(d) <= MaxPins => p = d)
    BY <1>1, <1>2, TruncateFacts
<1> HIDE DEF p
<1>4. a \in Seq(Entry) /\ Range(a) = Range(p) /\ IsInjective(a)
    BY <1>3, ReverseFacts
<1> HIDE DEF a
<1>5. t.active = i /\ t.pinned = p /\ t.activation = a /\ TabCount(t) = Len(p) + 2 /\ i < Len(p) + 2
    BY <1>2, <1>3 DEF TabCount, i
<1>6. t \in TabBar
    BY <1>2, <1>3, <1>4 DEF TabBar
<1>7. Consistent(t)
    BY <1>3, <1>4, <1>5, <1>6 DEF Consistent
<1> QED BY <1>1, <1>3, <1>5, <1>7 DEF t

\* The loop of a deletion over the entries that go.
UnpinRound(list, unused, i, t) == IF list[i] \in Range(t.pinned) THEN TogglePin(t, list[i]) ELSE t
IsBarOf(pins, t) == Consistent(t) /\ Range(t.pinned) \subseteq pins
Unpinning == INSTANCE FoldFacts WITH Op <- UnpinRound, Good <- IsBarOf, Pick <- Max

LEMMA UnpinnedIsConsistent ==
    ASSUME NEW t, Consistent(t), NEW list \in Seq(Entry)
    PROVE  LET w == FoldLeft(LAMBDA u, e : IF e \in Range(u.pinned) THEN TogglePin(u, e) ELSE u, t, list) IN
               Consistent(w) /\ Range(w.pinned) \subseteq Range(t.pinned)
<1> DEFINE D == DOMAIN list
           pins == Range(t.pinned)
           w == FoldLeft(LAMBDA u, e : IF e \in Range(u.pinned) THEN TogglePin(u, e) ELSE u, t, list)
<1>1. w = Unpinning!Fold(list, {}, t, D)
    BY DEF FoldLeft, Unpinning!Fold, MapThenFoldSet, Unpinning!MapThenFoldSet, UnpinRound
<1>2. ASSUME NEW i \in D, NEW u, IsBarOf(pins, u) PROVE IsBarOf(pins, UnpinRound(list, {}, i, u))
  <2> DEFINE e == list[i]
  <2>1. e \in Entry /\ UnpinRound(list, {}, i, u) = IF e \in Range(u.pinned) THEN TogglePin(u, e) ELSE u
    BY DEF UnpinRound
  <2>2. Consistent(u) /\ Range(u.pinned) \subseteq pins
    BY <1>2 DEF IsBarOf
  <2> HIDE DEF e, pins
  <2>3. Consistent(TogglePin(u, e)) /\ Range(TogglePin(u, e).pinned) \subseteq Range(u.pinned) \cup {e}
    BY <2>1, <2>2, PinnedIsConsistent
  <2> QED BY <2>1, <2>2, <2>3 DEF IsBarOf
<1>3. Len(list) \in Nat /\ D = 1 .. Len(list) /\ IsBarOf(pins, t)
    BY DEF IsBarOf
<1> HIDE DEF D, w, pins
<1>4. Unpinning!IsFiniteSet(D) /\ Unpinning!PicksFrom(D)
  <2>1. IsFiniteSet(D) /\ \A s \in SUBSET D : s # {} => Max(s) \in s
    BY <1>3, PositionsArePicked
  <2> QED BY <2>1 DEF IsFiniteSet, Unpinning!IsFiniteSet, Unpinning!PicksFrom
<1>5. IsBarOf(pins, Unpinning!Fold(list, {}, t, D))
    BY <1>2, <1>3, <1>4, Unpinning!FoldKeeps
<1>6. Consistent(w) /\ Range(w.pinned) \subseteq pins
    BY <1>1, <1>5 DEF IsBarOf
<1> QED BY <1>6 DEF w, pins

\* The rows of the tree: an entry of a row is in the vault, the first row is
\* at the root, and only under a group does a row lie deeper than the one
\* above it.  (So add_target_group, which takes the nearest row above that is
\* less deep, finds a group.)
Node == Entry \cup Group
TreeRows == [node: Node, depth: Nat]
SoundRows(v, rows) ==
    /\ rows \in Seq(TreeRows)
    /\ \A i \in 1 .. Len(rows) : rows[i].node \in Entry => Exists(v, rows[i].node)
    /\ Len(rows) > 0 => rows[1].depth = 0
    /\ \A i \in 1 .. (Len(rows) - 1) : rows[i + 1].depth > rows[i].depth => rows[i].node \in Group

LEMMA RowsJoin ==
    ASSUME NEW v, NEW a, NEW b, SoundRows(v, a), SoundRows(v, b)
    PROVE  SoundRows(v, a \o b)
<1> DEFINE w == a \o b
           m == Len(a)
           n == Len(b)
<1>1. a \in Seq(TreeRows) /\ b \in Seq(TreeRows) /\ m \in Nat /\ n \in Nat
    BY DEF SoundRows
<1>2. w \in Seq(TreeRows) /\ Len(w) = m + n
    BY <1>1
<1>3. (\A i \in 1 .. m : w[i] = a[i]) /\ \A i \in 1 .. n : w[m + i] = b[i]
    BY <1>1
<1> HIDE DEF w
<1>4. \A i \in (m + 1) .. (m + n) : i - m \in 1 .. n /\ w[i] = b[i - m]
  <2> SUFFICES ASSUME NEW i \in (m + 1) .. (m + n) PROVE i - m \in 1 .. n /\ w[i] = b[i - m]
    OBVIOUS
  <2>1. i - m \in 1 .. n /\ m + (i - m) = i
    BY <1>1
  <2> QED BY <1>3, <2>1
<1>5. ASSUME NEW i \in 1 .. Len(w), w[i].node \in Entry PROVE Exists(v, w[i].node)
  <2>1. CASE i \in 1 .. m
    BY <1>3, <1>5, <2>1 DEF SoundRows
  <2>2. CASE i \in (m + 1) .. (m + n)
    BY <1>4, <1>5, <2>2 DEF SoundRows
  <2> QED BY <1>1, <1>2, <2>1, <2>2
<1>6. ASSUME Len(w) > 0 PROVE w[1].depth = 0
  <2>1. CASE m > 0
    <3>1. w[1] = a[1]
        BY <1>1, <1>3, <2>1
    <3> QED BY <2>1, <3>1 DEF SoundRows
  <2>2. CASE m = 0
    <3>1. w[1] = b[1] /\ n > 0
        BY <1>1, <1>2, <1>4, <1>6, <2>2
    <3> QED BY <3>1 DEF SoundRows
  <2> QED BY <1>1, <2>1, <2>2
<1>7. ASSUME NEW i \in 1 .. (Len(w) - 1), w[i + 1].depth > w[i].depth PROVE w[i].node \in Group
  <2>1. CASE i \in 1 .. (m - 1)
    <3>1. w[i] = a[i] /\ w[i + 1] = a[i + 1]
        BY <1>1, <1>3, <2>1
    <3> QED BY <1>7, <2>1, <3>1 DEF SoundRows
  <2>2. CASE i = m
    <3>1. w[i] = a[m] /\ w[i + 1] = b[1] /\ n > 0 /\ m \in 1 .. m
        BY <1>1, <1>2, <1>3, <2>2
    <3>2. a[m] \in TreeRows
        BY <1>1, <3>1
    <3>3. a[m].depth \in Nat
        BY <3>2 DEF TreeRows
    <3>4. b[1].depth = 0
        BY <3>1 DEF SoundRows
    <3> QED BY <1>7, <3>1, <3>3, <3>4
  <2>3. CASE i \in (m + 1) .. (m + n - 1)
    <3>1. i - m \in 1 .. (n - 1) /\ (i + 1) - m = (i - m) + 1 /\ i + 1 \in (m + 1) .. (m + n) /\ i \in (m + 1) .. (m + n)
        BY <1>1, <2>3
    <3>2. w[i] = b[i - m] /\ w[i + 1] = b[(i - m) + 1]
        BY <1>4, <3>1
    <3> QED BY <1>7, <3>1, <3>2 DEF SoundRows
  <2> QED BY <1>1, <1>2, <2>1, <2>2, <2>3
<1> QED BY <1>2, <1>5, <1>6, <1>7 DEF SoundRows, w

LEMMA FirstAndRest ==
    ASSUME NEW A, NEW r \in A, NEW d \in Seq(A)
    PROVE  /\ <<r>> \o d \in Seq(A) /\ Len(<<r>> \o d) = Len(d) + 1 /\ (<<r>> \o d)[1] = r
           /\ \A i \in 1 .. Len(d) : (<<r>> \o d)[i + 1] = d[i]
    OBVIOUS

\* A group's row, and what is in it one deeper.
LEMMA GroupRows ==
    ASSUME NEW v, NEW b, SoundRows(v, b), NEW c \in Group
    PROVE  SoundRows(v, <<TreeRow(c)>>) /\ SoundRows(v, <<TreeRow(c)>> \o Deeper(b))
<1> DEFINE r == TreeRow(c)
           one == <<r>>
           d == Deeper(b)
           n == Len(b)
           w == one \o d
<1>1. r \in TreeRows /\ r.node = c /\ r.depth = 0 /\ c \notin Entry
    BY WorkspaceAssumption DEF TreeRow, TreeRows, Node
<1> HIDE DEF r
<1>2. one \in Seq(TreeRows) /\ Len(one) = 1 /\ one[1] = r
    BY <1>1
<1>3. SoundRows(v, one)
    BY <1>1, <1>2 DEF SoundRows
<1>4. b \in Seq(TreeRows) /\ n \in Nat /\ DOMAIN b = 1 .. n
    BY DEF SoundRows
<1>5. \A i \in 1 .. n : /\ [b[i] EXCEPT !.depth = @ + 1] \in TreeRows
                        /\ [b[i] EXCEPT !.depth = @ + 1].node = b[i].node
                        /\ [b[i] EXCEPT !.depth = @ + 1].depth = b[i].depth + 1
                        /\ b[i].depth \in Nat
  <2> SUFFICES ASSUME NEW i \in 1 .. n
               PROVE  /\ [b[i] EXCEPT !.depth = @ + 1] \in TreeRows
                      /\ [b[i] EXCEPT !.depth = @ + 1].node = b[i].node
                      /\ [b[i] EXCEPT !.depth = @ + 1].depth = b[i].depth + 1
                      /\ b[i].depth \in Nat
    OBVIOUS
  <2>1. b[i] \in TreeRows
    BY <1>4
  <2> QED BY <2>1 DEF TreeRows
<1>6. d \in Seq(TreeRows) /\ Len(d) = n
      /\ \A i \in 1 .. n : d[i].node = b[i].node /\ d[i].depth = b[i].depth + 1
  <2>1. d = [i \in 1 .. n |-> [b[i] EXCEPT !.depth = @ + 1]]
    BY <1>4 DEF Deeper
  <2>2. d \in [1 .. n -> TreeRows]
    BY <1>5, <2>1
  <2>3. \A i \in 1 .. n : d[i] = [b[i] EXCEPT !.depth = @ + 1]
    BY <2>1
  <2> HIDE DEF d, n
  <2>4. d \in Seq(TreeRows) /\ Len(d) = n
    BY <1>4, <2>2
  <2>5. \A i \in 1 .. n : d[i].node = b[i].node /\ d[i].depth = b[i].depth + 1
    BY <1>5, <2>3
  <2> QED BY <2>4, <2>5
<1> HIDE DEF one, d, n
<1>7. w \in Seq(TreeRows) /\ Len(w) = n + 1 /\ w[1] = r /\ \A i \in 1 .. n : w[i + 1] = d[i]
  <2>1. d \in Seq(TreeRows) /\ Len(d) = n /\ r \in TreeRows /\ w = <<r>> \o d
    BY <1>1, <1>6 DEF one
  <2> HIDE DEF w
  <2> QED BY <2>1, FirstAndRest
<1> HIDE DEF w
<1>8. \A i \in 2 .. (n + 1) : i - 1 \in 1 .. n /\ w[i] = d[i - 1]
  <2> SUFFICES ASSUME NEW i \in 2 .. (n + 1) PROVE i - 1 \in 1 .. n /\ w[i] = d[i - 1]
    OBVIOUS
  <2>1. i - 1 \in 1 .. n /\ (i - 1) + 1 = i
    BY <1>4
  <2> QED BY <1>7, <2>1
<1>9. ASSUME NEW i \in 1 .. Len(w), w[i].node \in Entry PROVE Exists(v, w[i].node)
  <2>1. i # 1 /\ i \in 2 .. (n + 1)
    BY <1>1, <1>4, <1>7, <1>9
  <2>2. w[i].node = b[i - 1].node /\ i - 1 \in 1 .. n
    BY <1>6, <1>8, <2>1
  <2> QED BY <1>9, <2>2 DEF SoundRows, n
<1>10. ASSUME NEW i \in 1 .. (Len(w) - 1), w[i + 1].depth > w[i].depth PROVE w[i].node \in Group
  <2>1. CASE i = 1
    BY <1>1, <1>7, <2>1
  <2>2. CASE i # 1
    <3>1. i \in 2 .. (n + 1) /\ i + 1 \in 2 .. (n + 1) /\ i - 1 \in 1 .. (n - 1) /\ (i + 1) - 1 = (i - 1) + 1
        BY <1>4, <1>7, <2>2
    <3>2. w[i] = d[i - 1] /\ w[i + 1] = d[(i - 1) + 1]
        BY <1>8, <3>1
    <3>3. i - 1 \in 1 .. n /\ (i - 1) + 1 \in 1 .. n
        BY <1>4, <3>1
    <3>4. b[(i - 1) + 1].depth > b[i - 1].depth
      <4> DEFINE j == i - 1
                 l == (i - 1) + 1
      <4>1. j \in 1 .. n /\ l \in 1 .. n /\ w[i] = d[j] /\ w[i + 1] = d[l]
        BY <3>2, <3>3
      <4> HIDE DEF j, l
      <4>2. /\ d[j].depth = b[j].depth + 1 /\ d[l].depth = b[l].depth + 1
            /\ b[j].depth \in Nat /\ b[l].depth \in Nat
        BY <1>5, <1>6, <4>1
      <4>3. d[l].depth > d[j].depth
        BY <1>10, <4>1
      <4>4. b[l].depth > b[j].depth
        BY <4>2, <4>3
      <4> QED BY <4>4 DEF j, l
    <3>5. b[i - 1].node \in Group
        BY <3>1, <3>4 DEF SoundRows, n
    <3> QED BY <1>6, <3>2, <3>3, <3>5
  <2> QED BY <2>1, <2>2
<1>11. SoundRows(v, w)
    BY <1>1, <1>7, <1>9, <1>10 DEF SoundRows
<1>12. <<TreeRow(c)>> = one /\ <<TreeRow(c)>> \o Deeper(b) = w
    BY DEF one, w, d, r
<1> QED BY <1>3, <1>11, <1>12

\* The entries of a group, each in its row.
LEMMA SortedEntries ==
    ASSUME NEW S \in SUBSET Entry, NEW r \in Seq(Entry),
           NEW sort \in {"recently-used", "title", "last-modified", "group"}
    PROVE  SortEntries(S, sort, r) \in Seq(S)
<1>1. TitleOrder \in Seq(Entry) /\ ModifiedOrder \in Seq(Entry) /\ UuidOrder \in Seq(Entry)
    BY WorkspaceAssumption
<1>2. ASSUME NEW o \in Seq(Entry), NEW R, R \subseteq S PROVE InSet(o, R) \in Seq(S)
  <2>1. InSet(o, R) \in Seq(R \cap Range(o))
    BY InSetFacts DEF FilterFacts
  <2>2. R \cap Range(o) \subseteq S
    BY <1>2
  <2> QED BY <2>1, <2>2
<1>3. S \ Range(r) \subseteq S
    OBVIOUS
<1>4. InSet(r, S) \in Seq(S) /\ InSet(TitleOrder, S \ Range(r)) \in Seq(S)
      /\ InSet(TitleOrder, S) \in Seq(S) /\ InSet(ModifiedOrder, S) \in Seq(S) /\ InSet(UuidOrder, S) \in Seq(S)
    BY <1>1, <1>2, <1>3
<1>5. CASE sort = "recently-used"
  <2>1. SortEntries(S, sort, r) = InSet(r, S) \o InSet(TitleOrder, S \ Range(r))
    BY <1>5 DEF SortEntries
  <2> QED BY <1>4, <2>1
<1>6. CASE sort = "title"
    BY <1>4, <1>6 DEF SortEntries
<1>7. CASE sort = "last-modified"
    BY <1>4, <1>7 DEF SortEntries
<1>8. CASE sort = "group"
    BY <1>4, <1>8 DEF SortEntries
<1> QED BY <1>5, <1>6, <1>7, <1>8

LEMMA EntryRows ==
    ASSUME NEW v, NEW g \in Group, NEW here \in Seq({e \in Entry : v[e] = g})
    PROVE  SoundRows(v, [i \in DOMAIN here |-> TreeRow(here[i])])
<1> DEFINE n == Len(here)
           w == [i \in DOMAIN here |-> TreeRow(here[i])]
<1>1. n \in Nat /\ DOMAIN here = 1 .. n /\ \A i \in 1 .. n : here[i] \in Entry /\ v[here[i]] = g
    OBVIOUS
<1>2. \A i \in 1 .. n : w[i] = TreeRow(here[i])
    BY <1>1
<1>3. \A i \in 1 .. n : w[i] \in TreeRows /\ w[i].node = here[i] /\ w[i].depth = 0
    BY <1>1, <1>2 DEF TreeRow, TreeRows, Node
<1>4. DOMAIN w = 1 .. n /\ w = [i \in 1 .. n |-> w[i]]
    BY <1>1
<1> HIDE DEF w, n
<1>5. w \in Seq(TreeRows) /\ Len(w) = n
    BY <1>1, <1>3, <1>4
<1>6. \A i \in 1 .. n : Exists(v, w[i].node)
    BY <1>1, <1>3 DEF Exists
<1>7. Len(w) > 0 => w[1].depth = 0
    BY <1>1, <1>3, <1>5
<1>8. \A i \in 1 .. (Len(w) - 1) : i \in 1 .. n /\ i + 1 \in 1 .. n
    BY <1>1, <1>5
<1>9. \A i \in 1 .. (Len(w) - 1) : ~(w[i + 1].depth > w[i].depth)
    BY <1>3, <1>8
<1> QED BY <1>5, <1>6, <1>7, <1>9 DEF SoundRows, w

\* The loops that build the rows: over the subgroups of a group, and over the
\* depths of the tree.
JoinRound(parts, unused, i, acc) == acc \o parts[i]
LevelRound(v, x, unused, below) == [g \in Group |-> Walk(v, x.tree, x.recents, below, g)]
Levels(v, below) == \A g \in Group : SoundRows(v, below[g])
Walking == INSTANCE FoldFacts WITH Op <- JoinRound, Good <- SoundRows, Pick <- Max
Descending == INSTANCE FoldFacts WITH Op <- LevelRound, Good <- Levels, Pick <- SomeOf

TreeStates == [expanded: SUBSET Group, selected: Node \cup {Nothing},
               sort: {"recently-used", "title", "last-modified", "group"}]

LEMMA WalkIsSound ==
    ASSUME NEW v, NEW t \in TreeStates, NEW r \in Seq(Entry), NEW below, Levels(v, below), NEW g \in Group
    PROVE  SoundRows(v, Walk(v, t, r, below, g))
<1> DEFINE list == Subgroups[g]
           parts == [i \in DOMAIN list |-> OfGroup(t, below, list[i])]
           D == DOMAIN parts
           S == {e \in Entry : v[e] = g}
           here == SortEntries(S, t.sort, r)
           groups == FoldLeft(LAMBDA acc, rows : acc \o rows, <<>>, parts)
           entries == [i \in DOMAIN here |-> TreeRow(here[i])]
<1>1. Walk(v, t, r, below, g) = groups \o entries
    BY DEF Walk, FoldLeft, MapThenFoldSet
<1>2. groups = Walking!Fold(parts, {}, <<>>, D)
    BY DEF FoldLeft, Walking!Fold, MapThenFoldSet, Walking!MapThenFoldSet, JoinRound
<1>3. Len(list) \in Nat /\ DOMAIN list = 1 .. Len(list) /\ \A i \in DOMAIN list : list[i] \in Group
  <2>1. list \in Seq(Group)
    BY WorkspaceAssumption
  <2> HIDE DEF list
  <2> QED BY <2>1
<1>4. D = 1 .. Len(list) /\ \A i \in D : parts[i] = OfGroup(t, below, list[i]) /\ list[i] \in Group
    BY <1>3
<1> HIDE DEF groups, entries, D, parts, list
<1>5. SoundRows(v, <<>>)
  <2>1. <<>> \in Seq(TreeRows) /\ Len(<<>>) = 0
    OBVIOUS
  <2> QED BY <2>1 DEF SoundRows
<1>6. ASSUME NEW i \in D PROVE SoundRows(v, parts[i])
  <2> DEFINE c == list[i]
             b == below[c]
             one == <<TreeRow(c)>>
             rest == IF c \in t.expanded THEN Deeper(b) ELSE <<>>
  <2>1. c \in Group /\ parts[i] = IF c = Bin THEN <<>> ELSE one \o rest
    BY <1>4 DEF OfGroup
  <2>2. SoundRows(v, b)
    BY <2>1 DEF Levels
  <2> HIDE DEF b, c
  <2>3. SoundRows(v, one) /\ SoundRows(v, one \o Deeper(b))
    BY <2>1, <2>2, GroupRows
  <2>4. one \in Seq(TreeRows)
    BY <2>3 DEF SoundRows
  <2> HIDE DEF one
  <2>5. one \o <<>> = one
    BY <2>4
  <2> QED BY <1>5, <2>1, <2>3, <2>5
<1>7. ASSUME NEW i \in D, NEW acc, SoundRows(v, acc) PROVE SoundRows(v, JoinRound(parts, {}, i, acc))
    BY <1>6, <1>7, RowsJoin DEF JoinRound
<1>8. Walking!IsFiniteSet(D) /\ Walking!PicksFrom(D)
  <2>1. IsFiniteSet(D) /\ \A s \in SUBSET D : s # {} => Max(s) \in s
    BY <1>3, <1>4, PositionsArePicked
  <2> QED BY <2>1 DEF IsFiniteSet, Walking!IsFiniteSet, Walking!PicksFrom
<1>9. SoundRows(v, groups)
  <2>1. SoundRows(v, Walking!Fold(parts, {}, <<>>, D))
    BY <1>5, <1>7, <1>8, Walking!FoldKeeps
  <2> QED BY <1>2, <2>1
<1>10. SoundRows(v, entries)
  <2> DEFINE sort == t.sort
  <2>1. sort \in {"recently-used", "title", "last-modified", "group"} /\ S \in SUBSET Entry
    BY DEF TreeStates
  <2>2. here \in Seq(S)
    <3>1. here = SortEntries(S, sort, r)
        OBVIOUS
    <3> HIDE DEF S, sort, here
    <3> QED BY <2>1, <3>1, SortedEntries
  <2>3. entries = [i \in DOMAIN here |-> TreeRow(here[i])]
    BY DEF entries
  <2> HIDE DEF here
  <2> QED BY <2>2, <2>3, EntryRows
<1> QED BY <1>1, <1>9, <1>10, RowsJoin

LEMMA BuildRowsIsSound ==
    ASSUME NEW v, NEW t \in TreeStates, NEW r \in Seq(Entry)
    PROVE  SoundRows(v, BuildRows(v, t, r))
<1> DEFINE x == [tree |-> t, recents |-> r]
           base == [g \in Group |-> <<>>]
           G == Group
<1>1. BuildRows(v, t, r) = Descending!Fold(v, x, base, G)[Root]
  <2>1. x.tree = t /\ x.recents = r
    OBVIOUS
  <2> QED BY <2>1 DEF BuildRows, FoldSet, Descending!Fold, MapThenFoldSet, Descending!MapThenFoldSet, LevelRound, SomeOf
<1>2. Levels(v, base)
  <2>1. <<>> \in Seq(TreeRows) /\ Len(<<>>) = 0
    OBVIOUS
  <2>2. SoundRows(v, <<>>)
    BY <2>1 DEF SoundRows
  <2> QED BY <2>2 DEF Levels
<1>3. ASSUME NEW y \in G, NEW below, Levels(v, below) PROVE Levels(v, LevelRound(v, x, y, below))
  <2>1. x.tree = t /\ x.recents = r
    OBVIOUS
  <2> DEFINE w == LevelRound(v, x, y, below)
  <2>2. \A g \in Group : w[g] = Walk(v, t, r, below, g)
    BY <2>1 DEF LevelRound
  <2> HIDE DEF w
  <2>3. \A g \in Group : SoundRows(v, w[g])
    BY <1>3, <2>2, WalkIsSound
  <2> QED BY <2>3 DEF Levels, w
<1>4. Descending!IsFiniteSet(G) /\ Descending!PicksFrom(G)
    BY WorkspaceAssumption DEF IsFiniteSet, Descending!IsFiniteSet, Descending!PicksFrom, SomeOf
<1> HIDE DEF x, base, G
<1>5. Levels(v, Descending!Fold(v, x, base, G))
    BY <1>2, <1>3, <1>4, Descending!FoldKeeps
<1>6. Root \in Group
    BY WorkspaceAssumption
<1> QED BY <1>1, <1>5, <1>6 DEF Levels

\* The row of a node.
LEMMA IndexIsRow ==
    ASSUME NEW v, NEW rows, SoundRows(v, rows), NEW n
    PROVE  /\ IndexOf(rows, n) \in 0 .. Len(rows) /\ Len(rows) \in Nat
           /\ IndexOf(rows, n) # 0 => rows[IndexOf(rows, n)].node = n
<1> DEFINE m == 1
           l == Len(rows)
           I == {i \in m .. l : rows[i].node = n}
<1>1. l \in Nat
    BY DEF SoundRows
<1>2. IndexOf(rows, n) = IF I # {} THEN Min(I) ELSE 0
    BY DEF IndexOf, SelectInSeq
<1>3. m \in Int /\ l \in Int /\ I \in SUBSET (m .. l) /\ m = 1
    BY <1>1
<1>4. ASSUME I # {} PROVE Min(I) \in I
  <2> HIDE DEF m, l, I
  <2> QED BY <1>3, <1>4, Extremes
<1>5. CASE I = {}
    BY <1>1, <1>2, <1>5
<1>6. CASE I # {}
  <2> DEFINE k == Min(I)
  <2>1. k \in I /\ IndexOf(rows, n) = k
    BY <1>2, <1>4, <1>6
  <2> HIDE DEF k
  <2> QED BY <1>1, <2>1
<1> QED BY <1>5, <1>6

\* The invariant of the workspace.
EntryPlaces == [Entry -> Group \cup {"gone", "unborn"}]
Trails == [back: Seq(Node), forward: Seq(Node)]
\* A form that adds an entry knows the group for it.
Forms == {l \in [kind: {"form"}, isNew: BOOLEAN, target: Entry \cup {Nothing}, group: Group \cup {Nothing}] :
             /\ l.isNew => l.group \in Group
             /\ l.target = Nothing => l.isNew}

WorkspaceTypes ==
    /\ place \in EntryPlaces /\ savedPlace \in EntryPlaces
    /\ screen \in {"workspace", "syncing", "locked"}
    /\ tree \in TreeStates
    /\ anchor \in Nat /\ marks \subseteq Entry
    /\ recents \in Seq(Entry)
    /\ trail \in Trails
    /\ stored \in [pinned: Seq(Entry), recents: Seq(Entry)]
    /\ layer.kind = "form" => layer \in Forms

\* The marks do not outlive the vault, and while it is there, also while the
\* worker has it, they are of entries in it.
MarksHold ==
    /\ screen = "locked" => marks = {} /\ anchor = 0
    /\ screen # "locked" => \A e \in marks : Exists(place, e)

\* A read-only session gives the vault to no sync and opens nothing that changes it.
ReadOnlyHolds ==
    readOnly => screen # "syncing" /\ layer.kind \notin {"delete", "move", "tag", "form"}

\* An entry that the file has not seen is not in it, and pins are of entries
\* that have been in the vault.
BornHolds ==
    /\ \A e \in Entry : savedPlace[e] = "unborn" => place[e] = "unborn"
    /\ \A e \in Range(stored.pinned) : place[e] # "unborn"

\* The pins are the stored ones without those that an unlock has dropped, and
\* an entry that was dropped does not come back.
PinsHold ==
    /\ IsInjective(stored.pinned) /\ Len(stored.pinned) <= MaxPins
    /\ Range(tabs.pinned) \subseteq Range(stored.pinned)
    /\ tabs.pinned = InSet(stored.pinned, Range(tabs.pinned))
    /\ \A e \in Range(stored.pinned) \ Range(tabs.pinned) : place[e] = "gone" /\ savedPlace[e] = "gone"

\* After a step back, the node left is the next one forward.
ReturnHolds == leftBy # Nothing => trail.forward # <<>> /\ Last(trail.forward) = leftBy

WorkspaceInv ==
    /\ WorkspaceTypes /\ Consistent(tabs)
    /\ MarksHold /\ ReadOnlyHolds /\ BornHolds /\ PinsHold /\ ReturnHolds

\* The lists and nodes that the commands make are of the kinds they should be.
LEMMA BumpedIsList == ASSUME NEW r \in Seq(Entry), NEW e \in Entry PROVE Bumped(r, e) \in Seq(Entry)
<1> DEFINE s == ToFront(r, e)
<1>1. s \in Seq(Entry) /\ RecentsCap \in Nat /\ Bumped(r, e) = Truncate(s, RecentsCap)
    BY ToFrontFacts, WorkspaceAssumption DEF Bumped
<1> HIDE DEF s
<1> QED BY <1>1, TruncateFacts

LEMMA ForgottenIsList == ASSUME NEW r \in Seq(Entry), NEW S PROVE Forget(r, S) \in Seq(Entry)
<1> DEFINE R == Range(r) \ S
<1>1. InSet(r, R) \in Seq(R \cap Range(r)) /\ R \cap Range(r) \subseteq Entry
    BY InSetFacts DEF FilterFacts, Range
<1>2. InSet(r, R) \in Seq(Entry)
  <2> HIDE DEF R
  <2> QED BY <1>1
<1> QED BY <1>2 DEF Forget

LEMMA FirstIsNode ==
    ASSUME NEW v, NEW rows, SoundRows(v, rows)
    PROVE  First(rows) \in Node \cup {Nothing}
<1>1. rows \in Seq(TreeRows)
    BY DEF SoundRows
<1>2. CASE rows = <<>>
    BY <1>2 DEF First
<1>3. CASE rows # <<>>
  <2>1. rows[1] \in TreeRows
    BY <1>1, <1>3
  <2> QED BY <1>3, <2>1 DEF First, TreeRows
<1> QED BY <1>2, <1>3

LEMMA RowIsNode ==
    ASSUME NEW v, NEW rows, SoundRows(v, rows), NEW i \in 1 .. Len(rows)
    PROVE  rows[i].node \in Node /\ rows[i].depth \in Nat
<1>1. rows \in Seq(TreeRows)
    BY DEF SoundRows
<1>2. rows[i] \in TreeRows
    BY <1>1
<1> QED BY <1>2 DEF TreeRows

LEMMA AncestorsAreGroups == ASSUME NEW v, NEW n PROVE Ancestors(v, n) \subseteq Group
    BY DEF Ancestors, Above

\* The group for a new entry: the nearest row above that is less deep is a
\* group's, since the row below it lies deeper.
LEMMA ShallowerIsGroup ==
    ASSUME NEW v, NEW rows, SoundRows(v, rows), NEW i \in 1 .. Len(rows),
           NEW above, above = {j \in 1 .. i - 1 : rows[j].depth < rows[i].depth}, above # {}
    PROVE  LET j == CHOOSE k \in above : \A l \in above : l <= k IN
               j \in 1 .. i - 1 /\ rows[j].node \in Group
<1> DEFINE j == CHOOSE k \in above : \A l \in above : l <= k
           one == 1
           top == i - 1
           m == Max(above)
<1>1. Len(rows) \in Nat /\ i \in Nat
    BY DEF SoundRows
<1>2. one \in Int /\ top \in Int /\ above \in SUBSET (one .. top)
    BY <1>1
<1>3. m \in above /\ \A y \in above : m >= y
  <2> HIDE DEF one, top
  <2> QED BY <1>2, Extremes
<1>4. m \in Int /\ \A y \in above : y \in Int
    BY <1>2, <1>3
<1> HIDE DEF m
<1>5. \E k \in above : \A l \in above : l <= k
    BY <1>3, <1>4
<1>6. j \in above /\ \A l \in above : l <= j
    BY <1>5
<1> HIDE DEF j
<1>7. j \in 1 .. i - 1 /\ rows[j].depth < rows[i].depth
    BY <1>6
<1>8. j \in 1 .. (Len(rows) - 1) /\ j + 1 \in 1 .. i /\ j \in 1 .. Len(rows) /\ j + 1 \in 1 .. Len(rows)
    BY <1>1, <1>7
<1>9. rows[j].depth \in Nat /\ rows[j + 1].depth \in Nat /\ rows[i].depth \in Nat
    BY <1>8, RowIsNode
<1>10. rows[j + 1].depth > rows[j].depth
  <2>1. CASE j + 1 = i
    BY <1>7, <1>9, <2>1
  <2>2. CASE j + 1 # i
    <3>1. j + 1 \in 1 .. i - 1 /\ j + 1 \notin above
        BY <1>1, <1>6, <1>7, <1>8, <2>2
    <3> DEFINE k == j + 1
    <3>2. k \in 1 .. i - 1 /\ k \notin above /\ rows[k].depth \in Nat
        BY <1>9, <3>1
    <3> HIDE DEF k
    <3>3. ~(rows[k].depth < rows[i].depth)
        BY <3>2
    <3> DEFINE dj == rows[j].depth
               dk == rows[k].depth
               di == rows[i].depth
    <3>4. dj \in Nat /\ dk \in Nat /\ di \in Nat /\ dj < di /\ ~(dk < di)
        BY <1>7, <1>9, <3>2, <3>3
    <3>5. dk > dj
      <4> HIDE DEF dj, dk, di
      <4> QED BY <3>4
    <3> QED BY <3>5 DEF k
  <2> QED BY <2>1, <2>2
<1>11. rows[j].node \in Group
    BY <1>8, <1>10 DEF SoundRows
<1> QED BY <1>7, <1>11 DEF j

LEMMA RowsAreSound == WorkspaceTypes => SoundRows(place, Rows)
<1> SUFFICES ASSUME WorkspaceTypes PROVE SoundRows(place, Rows)
    OBVIOUS
<1>1. tree \in TreeStates /\ recents \in Seq(Entry)
    BY DEF WorkspaceTypes
<1> QED BY <1>1, BuildRowsIsSound DEF Rows

LEMMA TargetIsGroup == WorkspaceTypes => AddTarget \in Group
<1> SUFFICES ASSUME WorkspaceTypes PROVE AddTarget \in Group
    OBVIOUS
<1> DEFINE rows == Rows
           i == SelectedIndex(rows)
           above == {j \in 1 .. i - 1 : rows[j].depth < rows[i].depth}
           j == CHOOSE k \in above : \A l \in above : l <= k
<1>1. SoundRows(place, rows)
    BY RowsAreSound
<1>2. i \in 0 .. Len(rows) /\ Len(rows) \in Nat
  <2>1. i = IndexOf(rows, tree.selected)
    BY DEF SelectedIndex
  <2> HIDE DEF rows, i
  <2> QED BY <1>1, <2>1, IndexIsRow
<1>3. Root \in Group
    BY WorkspaceAssumption
<1>4. CASE tree.selected \in Group
    BY <1>4 DEF AddTarget
<1>5. CASE tree.selected \notin Group /\ (i = 0 \/ above = {})
    BY <1>3, <1>5 DEF AddTarget
<1>6. CASE tree.selected \notin Group /\ ~(i = 0 \/ above = {})
  <2>1. AddTarget = rows[j].node
    BY <1>6 DEF AddTarget
  <2>2. i \in 1 .. Len(rows) /\ above # {}
    BY <1>2, <1>6
  <2>3. rows[j].node \in Group
    <3>1. above = {k \in 1 .. i - 1 : rows[k].depth < rows[i].depth}
        OBVIOUS
    <3> HIDE DEF rows, i, above
    <3> QED BY <1>1, <2>2, <3>1, ShallowerIsGroup
  <2> QED BY <2>1, <2>3
<1> QED BY <1>4, <1>5, <1>6

\* The trail of jumps.
LEMMA CapFacts ==
    ASSUME NEW s \in Seq(Node), s # <<>>
    PROVE  Cap(s) \in Seq(Node) /\ Cap(s) # <<>> /\ Last(Cap(s)) = Last(s)
<1>1. Len(s) \in Nat \ {0} /\ JumpCap \in Nat \ {0}
    BY WorkspaceAssumption
<1>2. CASE ~(Len(s) > JumpCap)
    BY <1>2 DEF Cap
<1>3. CASE Len(s) > JumpCap
  <2> DEFINE k == Len(s) - JumpCap + 1
             n == Len(s)
             u == SubSeq(s, k, n)
  <2>1. k \in 1 .. n /\ n - k + 1 = JumpCap
    BY <1>1, <1>3
  <2>2. u \in Seq(Node) /\ Len(u) = n - k + 1 /\ \A i \in 1 .. (n - k + 1) : u[i] = s[k + i - 1]
    <3>1. n = Len(s) /\ n \in Nat /\ k \in Int
        BY <1>1, <2>1
    <3> HIDE DEF k
    <3>2. u \in Seq(Node)
        BY <2>1, <3>1
    <3>3. Len(u) = n - k + 1
        BY <2>1, <3>1
    <3>4. \A i \in 1 .. (n - k + 1) : u[i] = s[k + i - 1]
        BY <2>1, <3>1
    <3> QED BY <3>2, <3>3, <3>4
  <2>3. Cap(s) = u
    BY <1>3 DEF Cap
  <2>4. JumpCap \in 1 .. (n - k + 1) /\ k + JumpCap - 1 = n
    BY <1>1, <2>1
  <2> HIDE DEF u, k
  <2>5. u[Len(u)] = s[n] /\ u # <<>>
    BY <1>1, <2>1, <2>2, <2>4
  <2> QED BY <2>2, <2>3, <2>5 DEF Last
<1> QED BY <1>2, <1>3

LEMMA PushFacts ==
    ASSUME NEW h \in Trails, NEW n \in Node
    PROVE  /\ PushJump(h, n) \in Trails
           /\ PushJump(h, n).back # <<>> /\ Last(PushJump(h, n).back) = n
<1>1. h.back \in Seq(Node) /\ h.forward \in Seq(Node)
    BY DEF Trails
<1>2. CASE h.back # <<>> /\ Last(h.back) = n
    BY <1>2 DEF PushJump
<1>3. CASE ~(h.back # <<>> /\ Last(h.back) = n)
  <2> DEFINE b == h.back
             s == Append(b, n)
             c == Cap(s)
             w == [back |-> c, forward |-> <<>>]
  <2>1. s \in Seq(Node) /\ s # <<>> /\ Last(s) = n
    <3>1. b \in Seq(Node)
        BY <1>1
    <3> HIDE DEF b
    <3>2. s \in Seq(Node) /\ Len(s) = Len(b) + 1 /\ s[Len(b) + 1] = n /\ Len(b) \in Nat
        BY <3>1
    <3> QED BY <3>2 DEF Last
  <2> HIDE DEF s
  <2>2. c \in Seq(Node) /\ c # <<>> /\ Last(c) = n
    BY <2>1, CapFacts
  <2>3. PushJump(h, n) = w
    BY <1>3 DEF PushJump, s
  <2> HIDE DEF c
  <2>4. w \in Trails /\ w.back = c
    BY <2>2 DEF Trails
  <2> QED BY <2>2, <2>3, <2>4
<1> QED BY <1>2, <1>3

LEMMA BackFacts ==
    ASSUME NEW h \in Trails, NEW n \in Node, NEW step, step = StepBack(h, n)
    PROVE  /\ step.h \in Trails /\ step.to \in Node \cup {Nothing}
           /\ step.to # Nothing => step.h.forward # <<>> /\ Last(step.h.forward) = n
<1> DEFINE a == PushJump(h, n)
           b == a.back
<1>1. a \in Trails /\ b # <<>> /\ Last(b) = n
    BY PushFacts
<1> HIDE DEF a
<1>2. b \in Seq(Node) /\ a.forward \in Seq(Node)
    BY <1>1 DEF Trails
<1>3. CASE Len(b) < 2
  <2>1. step = [h |-> a, to |-> Nothing]
    BY <1>3 DEF StepBack, a
  <2> QED BY <1>1, <2>1
<1>4. CASE ~(Len(b) < 2)
  <2> DEFINE f == a.forward
             front == Front(b)
             s == Append(f, Last(b))
             w == [back |-> front, forward |-> s]
             to == Last(front)
  <2>1. step = [h |-> w, to |-> to]
    BY <1>4 DEF StepBack, a
  <2>2. front \in Seq(Node) /\ to \in Node
    <3> HIDE DEF b
    <3>1. Len(b) \in Nat /\ Len(b) >= 2
        BY <1>2, <1>4
    <3>2. front = SubSeq(b, 1, Len(b) - 1)
        BY DEF Front
    <3>3. front \in Seq(Node) /\ Len(front) = Len(b) - 1
        BY <1>2, <3>1, <3>2
    <3>4. Len(front) \in 1 .. Len(front)
        BY <3>1, <3>3
    <3> HIDE DEF front
    <3> QED BY <3>3, <3>4 DEF Last
  <2>3. s \in Seq(Node) /\ s # <<>> /\ Last(s) = n
    <3> DEFINE m == Last(b)
    <3>1. f \in Seq(Node) /\ m = n /\ n \in Node /\ s = Append(f, m)
        BY <1>1, <1>2
    <3> HIDE DEF f, m, s
    <3>2. s \in Seq(Node) /\ Len(s) = Len(f) + 1 /\ s[Len(f) + 1] = n /\ Len(f) \in Nat
        BY <3>1
    <3> QED BY <3>2 DEF Last
  <2> HIDE DEF front, s, to, f
  <2>4. w \in Trails /\ w.forward = s
    BY <2>2, <2>3 DEF Trails
  <2> HIDE DEF w
  <2>5. step.h = w /\ step.to = to
    BY <2>1
  <2> QED BY <2>2, <2>3, <2>4, <2>5
<1> QED BY <1>3, <1>4

LEMMA ForwardFacts ==
    ASSUME NEW h \in Trails, NEW n \in Node, NEW step, step = StepForward(h, n)
    PROVE  /\ step.h \in Trails /\ step.to \in Node \cup {Nothing}
           /\ h.forward # <<>> => step.to = Last(h.forward)
<1> DEFINE b == h.back
           f == h.forward
<1>1. b \in Seq(Node) /\ f \in Seq(Node)
    BY DEF Trails
<1>2. CASE f = <<>>
  <2>1. step = [h |-> h, to |-> Nothing]
    BY <1>2 DEF StepForward
  <2> QED BY <1>2, <2>1
<1>3. CASE f # <<>>
  <2> DEFINE aligned == IF b # <<>> /\ Last(b) = n THEN b ELSE Append(b, n)
             to == Last(f)
             s == Append(aligned, to)
             c == Cap(s)
             front == Front(f)
             w == [back |-> c, forward |-> front]
  <2>1. step = [h |-> w, to |-> to]
    BY <1>3 DEF StepForward
  <2> HIDE DEF b, f
  <2>2. Len(f) \in 1 .. Len(f)
    BY <1>1, <1>3
  <2>3. to \in Node
    BY <1>1, <2>2 DEF Last
  <2>4. front \in Seq(Node)
    <3>1. front = SubSeq(f, 1, Len(f) - 1)
        BY DEF Front
    <3> HIDE DEF front
    <3> QED BY <1>1, <2>2, <3>1
  <2>5. aligned \in Seq(Node)
    BY <1>1
  <2> HIDE DEF aligned, to, front
  <2>6. s \in Seq(Node) /\ s # <<>>
    <3>1. s \in Seq(Node) /\ Len(s) = Len(aligned) + 1 /\ Len(aligned) \in Nat
        BY <2>3, <2>5
    <3> QED BY <3>1
  <2> HIDE DEF s
  <2>7. c \in Seq(Node)
    BY <2>6, CapFacts
  <2> HIDE DEF c
  <2>8. w \in Trails
    BY <2>4, <2>7 DEF Trails
  <2> HIDE DEF w
  <2>9. step.h = w /\ step.to = to
    BY <2>1
  <2> QED BY <2>3, <2>8, <2>9 DEF to, f
<1> QED BY <1>2, <1>3

\* Visual mode marks entries of the vault.
LEMMA SpanIsEntries ==
    WorkspaceTypes /\ anchor # 0 =>
        \A n : Span(Rows, n) \subseteq Entry /\ \A e \in Span(Rows, n) : Exists(place, e)
<1> SUFFICES ASSUME WorkspaceTypes, anchor # 0, NEW n
             PROVE  Span(Rows, n) \subseteq Entry /\ \A e \in Span(Rows, n) : Exists(place, e)
    OBVIOUS
<1> DEFINE rows == Rows
           k == IndexOf(rows, n)
           cursor == IF k = 0 THEN anchor ELSE k
           lo == IF anchor < cursor THEN anchor ELSE cursor
           hi == IF anchor < cursor THEN cursor ELSE anchor
<1>1. SoundRows(place, rows) /\ anchor \in Nat
    BY RowsAreSound DEF WorkspaceTypes
<1> HIDE DEF rows
<1>2. Len(rows) \in Nat /\ k \in 0 .. Len(rows)
    BY <1>1, IndexIsRow
<1>3. Span(rows, n) = IF hi > Len(rows) THEN {} ELSE {rows[i].node : i \in lo .. hi} \cap Entry
    BY DEF Span
<1> HIDE DEF k
<1>4. CASE hi > Len(rows)
  <2>1. Span(rows, n) = {}
    BY <1>3, <1>4
  <2> QED BY <2>1 DEF rows
<1>5. CASE ~(hi > Len(rows))
  <2>1. lo \in 1 .. Len(rows) /\ hi \in 1 .. Len(rows) /\ lo .. hi \subseteq 1 .. Len(rows)
    BY <1>1, <1>2, <1>5
  <2> HIDE DEF lo, hi
  <2>2. ASSUME NEW e \in Span(rows, n) PROVE e \in Entry /\ Exists(place, e)
    <3>1. PICK i \in lo .. hi : e = rows[i].node /\ e \in Entry
        BY <1>3, <1>5, <2>2
    <3> QED BY <1>1, <2>1, <3>1 DEF SoundRows
  <2> QED BY <2>2 DEF rows
<1> QED BY <1>4, <1>5

\* What a step may do to the entries and the pins: an entry that has been in
\* the vault has been there ever after, what is gone from memory and file
\* stays away, and the pins are as before or as they are stored.
NoReturn ==
    \A e \in Entry :
        /\ place[e] # "unborn" => place'[e] # "unborn"
        /\ savedPlace'[e] = "unborn" => place'[e] = "unborn"
        /\ place[e] = "gone" /\ savedPlace[e] = "gone" => place'[e] = "gone" /\ savedPlace'[e] = "gone"
PinsFollow ==
    \/ stored' = stored /\ tabs'.pinned = tabs.pinned
    \/ stored'.pinned = tabs'.pinned /\ \A e \in Range(tabs'.pinned) : place'[e] # "unborn"

LEMMA PinsKeepOn ==
    WorkspaceInv /\ Consistent(tabs') /\ NoReturn /\ PinsFollow => BornHolds' /\ PinsHold'
<1> SUFFICES ASSUME WorkspaceInv, Consistent(tabs'), NoReturn, PinsFollow
             PROVE  BornHolds' /\ PinsHold'
    OBVIOUS
<1>1. stored.pinned \in Seq(Entry) /\ tabs.pinned \in Seq(Entry) /\ tabs'.pinned \in Seq(Entry)
    BY TabParts DEF WorkspaceInv, WorkspaceTypes
<1>2. Range(stored.pinned) \subseteq Entry /\ Range(tabs'.pinned) \subseteq Entry
    BY <1>1 DEF Range
<1>3. CASE stored' = stored /\ tabs'.pinned = tabs.pinned
  <2>1. BornHolds'
    BY <1>2, <1>3 DEF WorkspaceInv, BornHolds, NoReturn
  <2>2. PinsHold'
    BY <1>2, <1>3 DEF WorkspaceInv, PinsHold, NoReturn
  <2> QED BY <2>1, <2>2
<1>4. CASE stored'.pinned = tabs'.pinned /\ \A e \in Range(tabs'.pinned) : place'[e] # "unborn"
  <2>1. BornHolds'
    BY <1>4 DEF BornHolds, NoReturn
  <2> DEFINE pins == tabs'.pinned
  <2>2. InSet(pins, Range(pins)) = pins
    <3>1. pins \in Seq(Entry) /\ Range(pins) \subseteq Range(pins)
        BY <1>1
    <3> HIDE DEF pins
    <3> QED BY <3>1, InSetOfAll
  <2>3. PinsHold'
    BY <1>4, <2>2 DEF PinsHold, Consistent
  <2> QED BY <2>1, <2>3
<1> QED BY <1>3, <1>4 DEF PinsFollow

\* The pins that there are have been in the vault.
LEMMA PinsAreBorn == WorkspaceInv /\ NoReturn => \A e \in Range(tabs.pinned) : place'[e] # "unborn"
<1> SUFFICES ASSUME WorkspaceInv, NoReturn, NEW e \in Range(tabs.pinned) PROVE place'[e] # "unborn"
    OBVIOUS
<1>1. tabs.pinned \in Seq(Entry)
    BY TabParts DEF WorkspaceInv
<1>2. e \in Entry
    BY <1>1 DEF Range
<1>3. e \in Range(stored.pinned)
    BY DEF WorkspaceInv, PinsHold
<1> QED BY <1>2, <1>3 DEF WorkspaceInv, BornHolds, NoReturn

\* A step that leaves the vault alone, pins nothing and takes no pin away.
Browses ==
    /\ screen # "locked" /\ UNCHANGED <<place, savedPlace, screen, readOnly>>
    /\ Consistent(tabs') /\ tabs'.pinned = tabs.pinned
    /\ stored' = stored \/ stored' = [pinned |-> tabs'.pinned, recents |-> recents']
    /\ tree' \in TreeStates /\ recents' \in Seq(Entry) /\ trail' \in Trails
    /\ anchor' \in Nat /\ marks' \subseteq Entry /\ \A e \in marks' : Exists(place, e)
    /\ layer'.kind = "form" => layer' \in Forms
    /\ readOnly => layer'.kind \notin {"delete", "move", "tag", "form"}
    /\ ReturnHolds'

LEMMA BrowsingKeeps == WorkspaceInv /\ Browses => WorkspaceInv'
<1> SUFFICES ASSUME WorkspaceInv, Browses PROVE WorkspaceInv'
    OBVIOUS
<1>1. tabs'.pinned \in Seq(Entry)
    BY TabParts DEF Browses
<1>2. WorkspaceTypes'
    BY <1>1 DEF WorkspaceInv, WorkspaceTypes, Browses
<1>3. NoReturn
    BY DEF WorkspaceInv, BornHolds, NoReturn, Browses
<1>4. PinsFollow
  <2>1. CASE stored' = stored
    BY <2>1 DEF PinsFollow, Browses
  <2>2. CASE stored' = [pinned |-> tabs'.pinned, recents |-> recents']
    BY <1>3, <2>2, PinsAreBorn DEF PinsFollow, Browses
  <2> QED BY <2>1, <2>2 DEF Browses
<1>5. BornHolds' /\ PinsHold'
    BY <1>3, <1>4, PinsKeepOn DEF Browses
<1>6. MarksHold' /\ ReadOnlyHolds'
    BY DEF WorkspaceInv, MarksHold, ReadOnlyHolds, Browses, Exists
<1>7. ReturnHolds' /\ Consistent(tabs)'
    BY DEF Browses
<1> QED BY <1>2, <1>5, <1>6, <1>7 DEF WorkspaceInv

\* The tree after a command that selects or expands.
LEMMA TreeSelects ==
    ASSUME NEW t \in TreeStates, NEW n \in Node \cup {Nothing}
    PROVE  [t EXCEPT !.selected = n] \in TreeStates
    BY DEF TreeStates

LEMMA TreeExpands ==
    ASSUME NEW t \in TreeStates, NEW S \in SUBSET Group
    PROVE  [t EXCEPT !.expanded = S] \in TreeStates
    BY DEF TreeStates

LEMMA TreeShows ==
    ASSUME NEW t \in TreeStates, NEW n \in Node \cup {Nothing}, NEW S \in SUBSET Group
    PROVE  [t EXCEPT !.selected = n, !.expanded = S] \in TreeStates
    BY DEF TreeStates

LEMMA TreeSorts == ASSUME NEW t \in TreeStates PROVE [t EXCEPT !.sort = SortNext(@)] \in TreeStates
    BY DEF TreeStates, SortNext

\* What holds of a step that leaves the rest as it is.
LEMMA Still ==
    WorkspaceInv /\ screen # "locked" =>
        /\ tree \in TreeStates /\ recents \in Seq(Entry) /\ trail \in Trails
        /\ anchor \in Nat /\ marks \subseteq Entry /\ \A e \in marks : Exists(place, e)
        /\ Consistent(tabs)
        /\ layer.kind = "form" => layer \in Forms
        /\ readOnly => layer.kind \notin {"delete", "move", "tag", "form"}
    BY DEF WorkspaceInv, WorkspaceTypes, MarksHold, ReadOnlyHolds

\* A step that only moves the tree, the pane, the marks and what they show.
LEMMA TreeCommandBrowses ==
    WorkspaceInv /\ screen # "locked" /\ UNCHANGED <<place, savedPlace, screen, readOnly, tabs, recents, trail, stored>>
    /\ tree' \in TreeStates /\ anchor' \in Nat /\ marks' \subseteq Entry /\ (\A e \in marks' : Exists(place, e))
    /\ (layer' = layer \/ layer'.kind \in {"none", "search"})
    /\ (leftBy' = Nothing \/ leftBy' = leftBy)
    => Browses
<1> SUFFICES ASSUME WorkspaceInv, screen # "locked",
                    UNCHANGED <<place, savedPlace, screen, readOnly, tabs, recents, trail, stored>>,
                    tree' \in TreeStates, anchor' \in Nat, marks' \subseteq Entry,
                    \A e \in marks' : Exists(place, e),
                    layer' = layer \/ layer'.kind \in {"none", "search"},
                    leftBy' = Nothing \/ leftBy' = leftBy
             PROVE  Browses
    OBVIOUS
<1>1. Consistent(tabs') /\ tabs'.pinned = tabs.pinned
    BY Still
<1>2. recents' \in Seq(Entry) /\ trail' \in Trails
    BY Still
<1>3. /\ layer'.kind = "form" => layer' \in Forms
      /\ readOnly => layer'.kind \notin {"delete", "move", "tag", "form"}
    BY Still
<1>4. ReturnHolds'
    BY DEF WorkspaceInv, ReturnHolds
<1> QED BY <1>1, <1>2, <1>3, <1>4 DEF Browses

LEMMA MoveSelectionKeeps ==
    ASSUME NEW down \in BOOLEAN, NEW wheel \in BOOLEAN, WorkspaceInv, MoveSelection(down, wheel)
    PROVE  WorkspaceInv'
<1> DEFINE rows == Rows
           i == SelectedIndex(rows)
           at == IF i = 0 THEN 1 ELSE i
           by == IF wheel THEN 3 ELSE 1
           to == IF down THEN (IF at + by < Len(rows) THEN at + by ELSE Len(rows))
                 ELSE (IF at > by THEN at - by ELSE 1)
           n == IF rows = <<>> THEN Nothing ELSE rows[to].node
<1>1. /\ screen # "locked" /\ tree' = [tree EXCEPT !.selected = n]
      /\ marks' = IF anchor # 0 /\ ~wheel THEN Span(rows, n) ELSE marks
      /\ UNCHANGED <<place, savedPlace, screen, readOnly, anchor, tabs, recents, trail, layer, stored>>
      /\ leftBy' = Nothing
    BY DEF MoveSelection, Step, Select, InSecrets, AtWork, Open
<1>2. SoundRows(place, rows)
    BY RowsAreSound DEF WorkspaceInv
<1>3. i \in 0 .. Len(rows) /\ Len(rows) \in Nat
  <2>1. i = IndexOf(rows, tree.selected)
    BY DEF SelectedIndex
  <2> HIDE DEF rows, i
  <2> QED BY <1>2, <2>1, IndexIsRow
<1>4. n \in Node \cup {Nothing}
  <2> HIDE DEF rows, i
  <2>1. CASE rows = <<>>
    BY <2>1
  <2>2. CASE rows # <<>>
    <3>1. Len(rows) >= 1
        BY <1>2, <2>2 DEF SoundRows
    <3>2. to \in 1 .. Len(rows)
        BY <1>3, <3>1
    <3> HIDE DEF to
    <3> QED BY <1>2, <2>2, <3>2, RowIsNode
  <2> QED BY <2>1, <2>2
<1>5. marks' \subseteq Entry /\ \A e \in marks' : Exists(place, e)
  <2>1. CASE anchor # 0 /\ ~wheel
    <3>1. marks' = Span(Rows, n)
        BY <1>1, <2>1
    <3> HIDE DEF n
    <3> QED BY <2>1, <3>1, SpanIsEntries DEF WorkspaceInv
  <2>2. CASE ~(anchor # 0 /\ ~wheel)
    BY <1>1, <2>2, Still
  <2> QED BY <2>1, <2>2
<1> HIDE DEF n
<1>6. tree' \in TreeStates
    BY <1>1, <1>4, Still, TreeSelects
<1>7. anchor' \in Nat
    BY <1>1, Still
<1>8. Browses
    BY <1>1, <1>5, <1>6, <1>7, TreeCommandBrowses
<1> QED BY <1>8, BrowsingKeeps

\* The rows above a row, and the one of them that Parent and the form for a
\* new entry go to.
LEMMA RowAbove ==
    ASSUME NEW v, NEW rows, SoundRows(v, rows), NEW i \in 1 .. Len(rows),
           NEW above, above = {j \in 1 .. i - 1 : rows[j].depth < rows[i].depth}, above # {}
    PROVE  rows[CHOOSE j \in above : \A k \in above : k <= j].node \in Group
    BY ShallowerIsGroup

LEMMA ParentKeeps == ASSUME WorkspaceInv, Parent PROVE WorkspaceInv'
<1> DEFINE rows == Rows
           i == SelectedIndex(rows)
           above == {j \in 1 .. i - 1 : rows[j].depth < rows[i].depth}
           p == rows[CHOOSE j \in above : \A k \in above : k <= j].node
<1>1. /\ screen # "locked" /\ leftBy' = Nothing
      /\ UNCHANGED <<place, savedPlace, screen, readOnly, anchor, marks, tabs, recents, trail, layer, stored>>
    BY DEF Parent, Step, InTree, InSecrets, AtWork, Open
<1>2. \/ tree' = tree
      \/ tree' = [tree EXCEPT !.expanded = @ \ {rows[i].node}]
      \/ i # 0 /\ above # {} /\ tree' = [tree EXCEPT !.selected = p]
    BY DEF Parent, Select
<1>3. tree \in TreeStates
    BY <1>1, Still
<1>4. ASSUME i # 0, above # {} PROVE p \in Node \cup {Nothing}
  <2>1. SoundRows(place, rows)
    BY RowsAreSound DEF WorkspaceInv
  <2>2. i \in 1 .. Len(rows)
    <3>1. i = IndexOf(rows, tree.selected)
        BY DEF SelectedIndex
    <3> HIDE DEF rows, i
    <3>2. i \in 0 .. Len(rows) /\ Len(rows) \in Nat
        BY <2>1, <3>1, IndexIsRow
    <3> QED BY <1>4, <3>2
  <2>3. above = {j \in 1 .. i - 1 : rows[j].depth < rows[i].depth}
    OBVIOUS
  <2>4. p \in Group
    <3> HIDE DEF rows, i, above
    <3> QED BY <1>4, <2>1, <2>2, <2>3, RowAbove
  <2> HIDE DEF p
  <2> QED BY <2>4 DEF Node
<1>5. tree' \in TreeStates
  <2>1. CASE tree' = tree
    BY <1>3, <2>1
  <2>2. CASE tree' = [tree EXCEPT !.expanded = @ \ {rows[i].node}]
    <3> DEFINE S == tree.expanded \ {rows[i].node}
    <3>1. S \in SUBSET Group /\ tree' = [tree EXCEPT !.expanded = S]
        BY <1>3, <2>2 DEF TreeStates
    <3> HIDE DEF S
    <3> QED BY <1>3, <3>1, TreeExpands
  <2>3. CASE i # 0 /\ above # {} /\ tree' = [tree EXCEPT !.selected = p]
    <3>1. p \in Node \cup {Nothing}
        BY <1>4, <2>3
    <3> HIDE DEF p
    <3> QED BY <1>3, <2>3, <3>1, TreeSelects
  <2> QED BY <1>2, <2>1, <2>2, <2>3
<1>6. anchor' \in Nat /\ marks' \subseteq Entry /\ \A e \in marks' : Exists(place, e)
    BY <1>1, Still
<1>7. Browses
    BY <1>1, <1>5, <1>6, TreeCommandBrowses
<1> QED BY <1>7, BrowsingKeeps

LEMMA OnGroupKeeps == ASSUME NEW confirm \in BOOLEAN, WorkspaceInv, OnGroup(confirm) PROVE WorkspaceInv'
<1> DEFINE rows == Rows
           i == SelectedIndex(rows)
           g == tree.selected
           k == i + 1
           n == rows[k].node
<1>1. /\ screen # "locked" /\ leftBy' = Nothing /\ g \in Group /\ i # 0
      /\ UNCHANGED <<place, savedPlace, screen, readOnly, anchor, marks, tabs, recents, trail, layer, stored>>
    BY DEF OnGroup, Step, InTree, InSecrets, AtWork, Open
<1>2. \/ \E S : S \in {tree.expanded \ {g}, tree.expanded \cup {g}, tree.expanded}
                /\ tree' = [tree EXCEPT !.expanded = S]
      \/ tree' = tree
      \/ i < Len(rows) /\ tree' = [tree EXCEPT !.selected = n]
  <2>1. CASE confirm
    <3>1. tree' = [tree EXCEPT !.expanded = IF g \in tree.expanded THEN tree.expanded \ {g} ELSE tree.expanded \cup {g}]
        BY <2>1 DEF OnGroup
    <3> QED BY <3>1
  <2>2. CASE ~confirm /\ g \notin tree.expanded
    <3>1. tree' = [tree EXCEPT !.expanded = IF HasChildren(place, g) THEN tree.expanded \cup {g} ELSE tree.expanded]
        BY <2>2 DEF OnGroup
    <3> QED BY <3>1
  <2>3. CASE ~confirm /\ g \in tree.expanded
    BY <2>3 DEF OnGroup, Select
  <2> QED BY <2>1, <2>2, <2>3
<1>3. tree \in TreeStates
    BY <1>1, Still
<1>4. ASSUME i < Len(rows) PROVE n \in Node \cup {Nothing}
  <2>1. SoundRows(place, rows)
    BY RowsAreSound DEF WorkspaceInv
  <2>2. k \in 1 .. Len(rows)
    <3>1. i = IndexOf(rows, tree.selected)
        BY DEF SelectedIndex
    <3> HIDE DEF rows, i
    <3>2. i \in 0 .. Len(rows) /\ Len(rows) \in Nat
        BY <2>1, <3>1, IndexIsRow
    <3> QED BY <1>4, <3>2
  <2> HIDE DEF rows, k
  <2> QED BY <2>1, <2>2, RowIsNode
<1>5. tree' \in TreeStates
  <2>1. CASE \E S : S \in {tree.expanded \ {g}, tree.expanded \cup {g}, tree.expanded}
                    /\ tree' = [tree EXCEPT !.expanded = S]
    <3>1. PICK S : S \in {tree.expanded \ {g}, tree.expanded \cup {g}, tree.expanded}
                   /\ tree' = [tree EXCEPT !.expanded = S]
        BY <2>1
    <3>2. S \in SUBSET Group
        BY <1>1, <1>3, <3>1 DEF TreeStates
    <3> QED BY <1>3, <3>1, <3>2, TreeExpands
  <2>2. CASE tree' = tree
    BY <1>3, <2>2
  <2>3. CASE i < Len(rows) /\ tree' = [tree EXCEPT !.selected = n]
    <3>1. n \in Node \cup {Nothing}
        BY <1>4, <2>3
    <3> HIDE DEF n
    <3> QED BY <1>3, <2>3, <3>1, TreeSelects
  <2> QED BY <1>2, <2>1, <2>2, <2>3
<1>6. anchor' \in Nat /\ marks' \subseteq Entry /\ \A e \in marks' : Exists(place, e)
    BY <1>1, Still
<1>7. Browses
    BY <1>1, <1>5, <1>6, TreeCommandBrowses
<1> QED BY <1>7, BrowsingKeeps

LEMMA ClickRowKeeps == ASSUME WorkspaceInv, ClickRow PROVE WorkspaceInv'
<1>1. /\ screen # "locked" /\ leftBy' = Nothing
      /\ UNCHANGED <<place, savedPlace, screen, readOnly, anchor, marks, tabs, recents, trail, layer, stored>>
      /\ \E i \in DOMAIN Rows : tree' = [tree EXCEPT !.selected = Rows[i].node]
    BY DEF ClickRow, Select, Step, InSecrets, AtWork, Open
<1> DEFINE rows == Rows
<1>2. SoundRows(place, rows)
    BY RowsAreSound DEF WorkspaceInv
<1>3. PICK i \in DOMAIN rows : tree' = [tree EXCEPT !.selected = rows[i].node]
    BY <1>1
<1> HIDE DEF rows
<1>4. i \in 1 .. Len(rows)
    BY <1>2 DEF SoundRows
<1>5. rows[i].node \in Node \cup {Nothing}
    BY <1>2, <1>4, RowIsNode
<1> DEFINE n == rows[i].node
<1>6. tree' \in TreeStates
  <2>1. n \in Node \cup {Nothing} /\ tree' = [tree EXCEPT !.selected = n]
    BY <1>3, <1>5
  <2> HIDE DEF n
  <2> QED BY <1>1, <2>1, Still, TreeSelects
<1>7. anchor' \in Nat /\ marks' \subseteq Entry /\ \A e \in marks' : Exists(place, e)
    BY <1>1, Still
<1>8. Browses
    BY <1>1, <1>6, <1>7, TreeCommandBrowses
<1> QED BY <1>8, BrowsingKeeps

\* The commands that change the pane, the order, the marks or what is shown.
LEMMA ViewCommandsKeep ==
    ASSUME WorkspaceInv, TogglePane \/ SortCycle \/ RevealPassword \/ ToggleMark \/ EscapeLadder \/ OpenSearch
    PROVE  WorkspaceInv'
<1>1. /\ screen # "locked"
      /\ UNCHANGED <<place, savedPlace, screen, readOnly, tabs, recents, trail, stored>>
      /\ leftBy' = Nothing \/ leftBy' = leftBy
    BY DEF TogglePane, SortCycle, RevealPassword, ToggleMark, EscapeLadder, OpenSearch, Step, InSecrets, AtWork, Open
<1>2. tree' = tree \/ tree' = [tree EXCEPT !.sort = SortNext(@)]
    BY DEF TogglePane, SortCycle, RevealPassword, ToggleMark, EscapeLadder, OpenSearch
<1>3. tree' \in TreeStates
    BY <1>1, <1>2, Still, TreeSorts
<1>4. anchor' \in Nat
    BY <1>1, Still DEF TogglePane, SortCycle, RevealPassword, ToggleMark, EscapeLadder, OpenSearch
<1>5. marks' \subseteq Entry /\ \A e \in marks' : Exists(place, e)
  <2>1. CASE ToggleMark
    <3>1. SelectedEntry /\ marks' \subseteq marks \cup {tree.selected}
        BY <2>1 DEF ToggleMark
    <3> QED BY <1>1, <3>1, Still DEF SelectedEntry, Exists
  <2>2. CASE ~ToggleMark
    <3>1. marks' \subseteq marks
        BY <2>2 DEF TogglePane, SortCycle, RevealPassword, EscapeLadder, OpenSearch
    <3> QED BY <1>1, <3>1, Still
  <2> QED BY <2>1, <2>2
<1>6. layer' = layer \/ layer'.kind \in {"none", "search"}
  <2>1. CASE OpenSearch
    <3>1. layer' = [kind |-> "search"]
        BY <2>1 DEF OpenSearch
    <3> QED BY <3>1
  <2>2. CASE ~OpenSearch
    BY <2>2 DEF TogglePane, SortCycle, RevealPassword, ToggleMark, EscapeLadder
  <2> QED BY <2>1, <2>2
<1>7. Browses
    BY <1>1, <1>3, <1>4, <1>5, <1>6, TreeCommandBrowses
<1> QED BY <1>7, BrowsingKeeps

LEMMA VisualModeKeeps == ASSUME WorkspaceInv, VisualMode PROVE WorkspaceInv'
<1> DEFINE rows == Rows
           j == SelectedIndex(rows)
           i == IF j = 0 THEN 1 ELSE j
           row == rows[i]
<1>1. /\ screen # "locked" /\ leftBy' = Nothing
      /\ UNCHANGED <<place, savedPlace, screen, readOnly, tree, tabs, recents, trail, layer, stored>>
      /\ anchor' = i /\ marks' = IF i > Len(rows) THEN {} ELSE {row.node} \cap Entry
    BY DEF VisualMode, Step, InTree, InSecrets, AtWork, Open
<1>2. SoundRows(place, rows)
    BY RowsAreSound DEF WorkspaceInv
<1>3. j \in 0 .. Len(rows) /\ Len(rows) \in Nat
  <2>1. j = IndexOf(rows, tree.selected)
    BY DEF SelectedIndex
  <2> HIDE DEF rows, j
  <2> QED BY <1>2, <2>1, IndexIsRow
<1>4. i \in Nat /\ (~(i > Len(rows)) => i \in 1 .. Len(rows))
  <2> HIDE DEF rows, j
  <2> QED BY <1>3
<1> HIDE DEF rows, i
<1>5. \A e \in marks' : e \in Entry /\ Exists(place, e)
  <2>1. CASE i > Len(rows)
    BY <1>1, <2>1
  <2>2. CASE ~(i > Len(rows))
    <3>1. row.node \in Entry => Exists(place, row.node)
        BY <1>2, <1>4, <2>2 DEF SoundRows
    <3> QED BY <1>1, <2>2, <3>1
  <2> QED BY <2>1, <2>2
<1>6. tree' \in TreeStates /\ anchor' \in Nat /\ marks' \subseteq Entry
    BY <1>1, <1>4, <1>5, Still
<1>7. Browses
    BY <1>1, <1>5, <1>6, TreeCommandBrowses
<1> QED BY <1>7, BrowsingKeeps

LEMMA CloseLayerKeeps == ASSUME WorkspaceInv, CloseLayer PROVE WorkspaceInv'
<1>1. /\ screen # "locked" /\ leftBy' = Nothing
      /\ UNCHANGED <<place, savedPlace, screen, readOnly, tree, anchor, marks, tabs, recents, trail, stored>>
      /\ layer' = NoLayer
    BY DEF CloseLayer, Step, Open
<1>2. layer'.kind \in {"none", "search"}
    BY <1>1 DEF NoLayer
<1>3. Browses
    BY <1>1, <1>2, Still, TreeCommandBrowses
<1> QED BY <1>3, BrowsingKeeps

\* What opens a form, a picker or a question: nothing in a read-only session.
LEMMA OpeningKeeps ==
    ASSUME WorkspaceInv, OpenDelete \/ OpenBulk \/ OpenForm("add") \/ OpenForm("edit")
    PROVE  WorkspaceInv'
<1>1. /\ screen # "locked" /\ leftBy' = Nothing
      /\ UNCHANGED <<place, savedPlace, screen, readOnly, tree, anchor, marks, tabs, recents, trail, stored>>
    BY DEF OpenDelete, OpenBulk, OpenForm, Step, InTree, InSecrets, AtWork, Open
<1>2. ~readOnly
    BY DEF OpenDelete, OpenBulk, OpenForm, MayExecute, RoMutating
<1>3. layer'.kind = "form" => layer' \in Forms
  <2>1. CASE OpenDelete
    <3>1. layer'.kind = "delete"
        BY <2>1 DEF OpenDelete
    <3> QED BY <3>1
  <2>2. CASE OpenBulk
    <3>1. PICK command \in {"move", "tag"} : layer' = [kind |-> command]
        BY <2>2 DEF OpenBulk
    <3>2. layer'.kind = command
        BY <3>1
    <3> QED BY <3>1, <3>2
  <2>3. CASE OpenForm("add")
    <3> DEFINE w == [kind |-> "form", isNew |-> TRUE, target |-> Nothing, group |-> AddTarget]
    <3>1. layer' = w
        BY <2>3 DEF OpenForm
    <3>2. AddTarget \in Group
        BY TargetIsGroup DEF WorkspaceInv
    <3>3. w \in Forms
        BY <3>2 DEF Forms
    <3> QED BY <3>1, <3>3
  <2>4. CASE OpenForm("edit")
    <3> DEFINE w == [kind |-> "form", isNew |-> FALSE, target |-> tree.selected, group |-> Nothing]
    <3>1. layer' = w /\ tree.selected \in Entry
        BY <2>4 DEF OpenForm, SelectedEntry, Exists
    <3>2. tree.selected # Nothing
        BY <3>1, WorkspaceAssumption
    <3>3. w \in Forms
        BY <3>1, <3>2 DEF Forms
    <3> QED BY <3>1, <3>3
  <2> QED BY <2>1, <2>2, <2>3, <2>4
<1>4. Consistent(tabs') /\ tabs'.pinned = tabs.pinned
    BY <1>1, Still
<1>5. tree' \in TreeStates /\ recents' \in Seq(Entry) /\ trail' \in Trails
      /\ anchor' \in Nat /\ marks' \subseteq Entry /\ \A e \in marks' : Exists(place, e)
    BY <1>1, Still
<1>6. Browses
    BY <1>1, <1>2, <1>3, <1>4, <1>5 DEF Browses, ReturnHolds
<1> QED BY <1>6, BrowsingKeeps

\* The commands that put an entry in front of the recents.
LEMMA EnterDetailKeeps == ASSUME WorkspaceInv, EnterDetail PROVE WorkspaceInv'
<1> DEFINE e == tree.selected
<1>1. /\ screen # "locked" /\ leftBy' = Nothing /\ e \in Entry
      /\ UNCHANGED <<place, savedPlace, screen, readOnly, tree, anchor, marks, tabs, layer>>
      /\ trail' = PushJump(trail, e) /\ recents' = Bumped(recents, e)
      /\ stored' = stored \/ stored' = [pinned |-> tabs'.pinned, recents |-> recents']
    BY DEF EnterDetail, Step, InTree, InSecrets, AtWork, Open, SelectedEntry, Exists, PersistUiState
<1> HIDE DEF e
<1>2. trail' \in Trails /\ recents' \in Seq(Entry)
    BY <1>1, Still, PushFacts, BumpedIsList DEF Node
<1>3. Browses
    BY <1>1, <1>2, Still DEF Browses, ReturnHolds
<1> QED BY <1>3, BrowsingKeeps

LEMMA CopyFieldKeeps == ASSUME WorkspaceInv, CopyField PROVE WorkspaceInv'
<1>1. /\ screen # "locked" /\ leftBy' = Nothing /\ layer' = NoLayer
      /\ UNCHANGED <<place, savedPlace, screen, readOnly, tree, anchor, marks, tabs, trail>>
      /\ \E e \in Entry : recents' = Bumped(recents, e)
      /\ stored' = stored \/ stored' = [pinned |-> tabs'.pinned, recents |-> recents']
    BY DEF CopyField, Step, Open, PersistUiState
<1>2. recents' \in Seq(Entry) /\ layer'.kind = "none"
    BY <1>1, Still, BumpedIsList DEF NoLayer
<1>3. Browses
    BY <1>1, <1>2, Still DEF Browses, ReturnHolds
<1> QED BY <1>3, BrowsingKeeps

LEMMA TabMotionKeeps == ASSUME WorkspaceInv, TabMotion PROVE WorkspaceInv'
<1> DEFINE e == TabAt(tabs', tabs'.active)
<1>1. /\ screen # "locked" /\ leftBy' = Nothing
      /\ UNCHANGED <<place, savedPlace, screen, readOnly, tree, anchor, marks, layer>>
      /\ \/ tabs' = TabNext(tabs) \/ tabs' = TabPrev(tabs)
         \/ \E n \in Nat : tabs' = TabJump(tabs, n)
      /\ trail' = IF e \in Entry THEN PushJump(trail, e) ELSE trail
      /\ recents' = IF e \in Entry THEN Bumped(recents, e) ELSE recents
      /\ stored' = stored \/ stored' = [pinned |-> tabs'.pinned, recents |-> recents']
    BY DEF TabMotion, OnTabSwitched, Step, PersistUiState
<1> HIDE DEF e
<1>2. trail' \in Trails /\ recents' \in Seq(Entry)
    BY <1>1, Still, PushFacts, BumpedIsList DEF Node
<1>3. Consistent(tabs') /\ tabs'.pinned = tabs.pinned
    BY <1>1, Still, TabMoves
<1>4. Browses
    BY <1>1, <1>2, <1>3, Still DEF Browses, ReturnHolds
<1> QED BY <1>4, BrowsingKeeps

\* The node that a jump goes to.
LEMMA ShowNodeFacts ==
    ASSUME WorkspaceInv, screen # "locked", NEW n \in Node, ShowNode(n)
    PROVE  tree' \in TreeStates /\ Consistent(tabs') /\ tabs'.pinned = tabs.pinned
<1> DEFINE S == tree.expanded \cup Ancestors(place, n)
           one == 1
<1>1. tree' = [tree EXCEPT !.selected = n, !.expanded = S] /\ tabs' = TabJump(tabs, one) /\ one \in Nat
    BY DEF ShowNode
<1>2. tree \in TreeStates /\ Consistent(tabs)
    BY Still
<1>3. S \in SUBSET Group
    BY <1>2, AncestorsAreGroups DEF TreeStates
<1> HIDE DEF S, one
<1>4. n \in Node \cup {Nothing}
    OBVIOUS
<1>5. tree' \in TreeStates
    BY <1>1, <1>2, <1>3, <1>4, TreeShows
<1> QED BY <1>1, <1>2, <1>5, TabMoves

LEMMA JumpToEntryKeeps == ASSUME WorkspaceInv, JumpToEntry PROVE WorkspaceInv'
<1>1. /\ screen # "locked" /\ leftBy' = Nothing /\ layer' = NoLayer
      /\ UNCHANGED <<place, savedPlace, screen, readOnly, anchor, marks>>
      /\ \E e \in Entry : ShowNode(e) /\ trail' = PushJump(trail, e) /\ recents' = Bumped(recents, e)
      /\ stored' = stored \/ stored' = [pinned |-> tabs'.pinned, recents |-> recents']
    BY DEF JumpToEntry, Step, Open, PersistUiState
<1>2. PICK e \in Entry : ShowNode(e) /\ trail' = PushJump(trail, e) /\ recents' = Bumped(recents, e)
    BY <1>1
<1>3. trail' \in Trails /\ recents' \in Seq(Entry) /\ layer'.kind = "none"
    BY <1>1, <1>2, Still, PushFacts, BumpedIsList DEF Node, NoLayer
<1>4. tree' \in TreeStates /\ Consistent(tabs') /\ tabs'.pinned = tabs.pinned
    BY <1>1, <1>2, ShowNodeFacts DEF Node
<1>5. Browses
    BY <1>1, <1>3, <1>4, Still DEF Browses, ReturnHolds
<1> QED BY <1>5, BrowsingKeeps

\* The node where the user is.
LEMMA CurrentIsNode == WorkspaceInv /\ screen # "locked" /\ Current # Nothing => Current \in Node
<1> SUFFICES ASSUME WorkspaceInv, screen # "locked", Current # Nothing PROVE Current \in Node
    OBVIOUS
<1>1. tree.selected \in Node \cup {Nothing}
    BY Still DEF TreeStates
<1> QED BY <1>1 DEF Current, OnPin, Node

\* A step along the history.
LEMMA JumpKeeps ==
    ASSUME WorkspaceInv, screen # "locked", NEW step, Jump(step),
           step.h \in Trails, step.to \in Node \cup {Nothing}, ReturnHolds'
    PROVE  WorkspaceInv'
<1>1. /\ UNCHANGED <<place, savedPlace, screen, readOnly, anchor, marks, layer>> /\ trail' = step.h
    BY DEF Jump
<1>2. /\ tree' \in TreeStates /\ recents' \in Seq(Entry) /\ Consistent(tabs') /\ tabs'.pinned = tabs.pinned
      /\ stored' = stored \/ stored' = [pinned |-> tabs'.pinned, recents |-> recents']
  <2>1. CASE step.to = Nothing
    <3>1. UNCHANGED <<tree, tabs, recents, stored>>
        BY <2>1 DEF Jump
    <3> QED BY <3>1, Still
  <2>2. CASE step.to # Nothing
    <3> DEFINE n == step.to
    <3>1. n \in Node /\ JumpToHistory(n)
        BY <2>2 DEF Jump
    <3> HIDE DEF n
    <3>2. ShowNode(n) /\ (recents' = recents \/ (n \in Entry /\ recents' = Bumped(recents, n)))
        BY <3>1 DEF JumpToHistory, Node
    <3>3. stored' = stored \/ stored' = [pinned |-> tabs'.pinned, recents |-> recents']
        BY <3>1 DEF JumpToHistory, PersistUiState
    <3>4. recents' \in Seq(Entry)
        BY <3>2, Still, BumpedIsList
    <3> QED BY <3>1, <3>2, <3>3, <3>4, ShowNodeFacts
  <2> QED BY <2>1, <2>2
<1>3. Browses
    BY <1>1, <1>2, Still DEF Browses
<1> QED BY <1>3, BrowsingKeeps

LEMMA JumpBackKeeps == ASSUME WorkspaceInv, JumpBack PROVE WorkspaceInv'
<1> DEFINE h == trail
           n == Current
           step == StepBack(h, n)
<1>1. screen # "locked" /\ n # Nothing /\ Jump(step) /\ trail' = step.h
      /\ leftBy' = IF step.to = Nothing THEN Nothing ELSE n
    BY DEF JumpBack, Jump, AtWork, Open
<1>2. n \in Node /\ h \in Trails
    BY <1>1, CurrentIsNode, Still
<1> HIDE DEF n, h
<1>3. step = StepBack(h, n)
    OBVIOUS
<1> HIDE DEF step
<1>4. /\ step.h \in Trails /\ step.to \in Node \cup {Nothing}
      /\ step.to # Nothing => step.h.forward # <<>> /\ Last(step.h.forward) = n
    BY <1>2, <1>3, BackFacts
<1>5. ReturnHolds'
    BY <1>1, <1>4 DEF ReturnHolds
<1> QED BY <1>1, <1>4, <1>5, JumpKeeps

LEMMA JumpForwardKeeps == ASSUME WorkspaceInv, JumpForward PROVE WorkspaceInv'
<1> DEFINE h == trail
           n == Current
           step == StepForward(h, n)
<1>1. screen # "locked" /\ n # Nothing /\ Jump(step) /\ leftBy' = Nothing
    BY DEF JumpForward, Jump, InTree, InSecrets, AtWork, Open
<1>2. n \in Node /\ h \in Trails
    BY <1>1, CurrentIsNode, Still
<1> HIDE DEF n, h
<1>3. step = StepForward(h, n)
    OBVIOUS
<1> HIDE DEF step
<1>4. step.h \in Trails /\ step.to \in Node \cup {Nothing}
    BY <1>2, <1>3, ForwardFacts
<1>5. ReturnHolds'
    BY <1>1 DEF ReturnHolds
<1> QED BY <1>1, <1>4, <1>5, JumpKeeps

\* The parts of the invariant together.
LEMMA PartsKeep ==
    ASSUME WorkspaceInv, WorkspaceTypes', Consistent(tabs'), NoReturn, PinsFollow,
           MarksHold', ReadOnlyHolds', leftBy' = Nothing
    PROVE  WorkspaceInv'
<1>1. BornHolds' /\ PinsHold'
    BY PinsKeepOn
<1>2. ReturnHolds' /\ Consistent(tabs)'
    BY DEF ReturnHolds
<1> QED BY <1>1, <1>2 DEF WorkspaceInv

\* A group is no way of being nowhere.
LEMMA PlacesDiffer ==
    /\ Root \in Group /\ Bin \in Group
    /\ \A g \in Group : g # "gone" /\ g # "unborn"
    /\ Nothing \notin Entry /\ Nothing \notin Group
    BY WorkspaceAssumption

\* Where the entries lie as long as nothing moves them.
LEMMA StayingIsNoReturn == WorkspaceInv /\ UNCHANGED <<place, savedPlace>> => NoReturn
    BY DEF WorkspaceInv, BornHolds, NoReturn

LEMMA PinToggleKeeps == ASSUME WorkspaceInv, PinToggle PROVE WorkspaceInv'
<1> DEFINE e == tree.selected
           t == tabs
<1>1. /\ screen = "workspace" /\ leftBy' = Nothing /\ e \in Entry /\ Exists(place, e)
      /\ UNCHANGED <<place, savedPlace, screen, readOnly, tree, anchor, marks, recents, trail, layer>>
      /\ tabs' = TogglePin(t, e) /\ stored' = [pinned |-> tabs'.pinned, recents |-> recents']
    BY DEF PinToggle, Step, InSecrets, AtWork, Open, SelectedEntry, Exists, PersistUiState
<1>2. Consistent(t)
    BY DEF WorkspaceInv
<1> HIDE DEF e, t
<1>3. Consistent(tabs') /\ Range(tabs'.pinned) \subseteq Range(t.pinned) \cup {e}
    BY <1>1, <1>2, PinnedIsConsistent
<1>4. tabs'.pinned \in Seq(Entry) /\ stored'.pinned = tabs'.pinned /\ stored'.recents = recents
    BY <1>1, <1>3, TabParts
<1>5. NoReturn
    BY <1>1, StayingIsNoReturn
<1>6. WorkspaceTypes'
    BY <1>1, <1>4 DEF WorkspaceInv, WorkspaceTypes
<1>7. PinsFollow
  <2>1. \A x \in Range(t.pinned) : place'[x] # "unborn"
    BY <1>5, PinsAreBorn DEF t
  <2>2. place'[e] # "unborn"
    BY <1>1, PlacesDiffer DEF Exists
  <2> QED BY <1>3, <1>4, <2>1, <2>2 DEF PinsFollow
<1>8. MarksHold' /\ ReadOnlyHolds'
    BY <1>1 DEF WorkspaceInv, MarksHold, ReadOnlyHolds, Exists
<1> QED BY <1>1, <1>3, <1>5, <1>6, <1>7, <1>8, PartsKeep

\* Moving entries that are in the vault to a group, in memory and perhaps in
\* the file.
LEMMA RelocationFacts ==
    ASSUME WorkspaceInv, NEW S, NEW g \in Group,
           place' = place \/ ((\A e \in S : Exists(place, e))
                              /\ place' = [e \in Entry |-> IF e \in S THEN g ELSE place[e]]),
           savedPlace' = savedPlace \/ savedPlace' = place'
    PROVE  /\ place' \in EntryPlaces /\ savedPlace' \in EntryPlaces /\ NoReturn
           /\ \A e \in Entry : Exists(place, e) => Exists(place', e)
<1>1. place \in EntryPlaces /\ savedPlace \in EntryPlaces
    BY DEF WorkspaceInv, WorkspaceTypes
<1>2. \A e \in Entry : savedPlace[e] = "unborn" => place[e] = "unborn"
    BY DEF WorkspaceInv, BornHolds
<1>3. CASE place' = place
    BY <1>1, <1>2, <1>3 DEF NoReturn
<1>4. CASE (\A e \in S : Exists(place, e)) /\ place' = [e \in Entry |-> IF e \in S THEN g ELSE place[e]]
  <2>1. place' \in EntryPlaces
    BY <1>1, <1>4 DEF EntryPlaces
  <2>2. ASSUME NEW e \in Entry
        PROVE  /\ e \in S => place'[e] = g /\ place[e] \in Group
               /\ e \notin S => place'[e] = place[e]
    BY <1>4 DEF Exists
  <2>3. g # "gone" /\ g # "unborn" /\ \A c \in Group : c # "gone" /\ c # "unborn"
    BY PlacesDiffer
  <2>4. NoReturn
    <3> SUFFICES ASSUME NEW e \in Entry
                 PROVE  /\ place[e] # "unborn" => place'[e] # "unborn"
                        /\ savedPlace'[e] = "unborn" => place'[e] = "unborn"
                        /\ place[e] = "gone" /\ savedPlace[e] = "gone" => place'[e] = "gone" /\ savedPlace'[e] = "gone"
        BY DEF NoReturn
    <3>1. CASE e \in S
        BY <1>2, <2>2, <2>3, <3>1
    <3>2. CASE e \notin S
        BY <1>2, <2>2, <3>2
    <3> QED BY <3>1, <3>2
  <2>5. \A e \in Entry : Exists(place, e) => Exists(place', e)
    BY <2>2 DEF Exists
  <2> QED BY <1>1, <2>1, <2>4, <2>5
<1> QED BY <1>3, <1>4

LEMMA BulkChangeKeeps == ASSUME NEW ok \in BOOLEAN, WorkspaceInv, BulkChange(ok) PROVE WorkspaceInv'
<1> DEFINE S == marks
<1>1. /\ screen = "workspace" /\ leftBy' = Nothing /\ layer' = NoLayer
      /\ UNCHANGED <<screen, readOnly, tree, trail, tabs, recents>>
      /\ (marks' = {} /\ anchor' = 0) \/ UNCHANGED <<marks, anchor>>
      /\ savedPlace' = savedPlace \/ savedPlace' = place'
      /\ stored' = stored \/ stored' = [pinned |-> tabs'.pinned, recents |-> recents']
    BY DEF BulkChange, Step, Open, Persist, PersistUiState
<1>2. \E g \in Group :
        place' = place \/ ((\A e \in S : Exists(place, e))
                           /\ place' = [e \in Entry |-> IF e \in S THEN g ELSE place[e]])
    BY DEF BulkChange, GroupChoices
<1> HIDE DEF S
<1>3. PICK g \in Group :
        place' = place \/ ((\A e \in S : Exists(place, e))
                           /\ place' = [e \in Entry |-> IF e \in S THEN g ELSE place[e]])
    BY <1>2
<1>4. /\ place' \in EntryPlaces /\ savedPlace' \in EntryPlaces /\ NoReturn
      /\ \A e \in Entry : Exists(place, e) => Exists(place', e)
    BY <1>1, <1>3, RelocationFacts
<1>5. Consistent(tabs') /\ tabs'.pinned = tabs.pinned /\ tabs'.pinned \in Seq(Entry)
    BY <1>1, TabParts DEF WorkspaceInv
<1>6. WorkspaceTypes'
    BY <1>1, <1>4, <1>5 DEF WorkspaceInv, WorkspaceTypes, NoLayer
<1>7. PinsFollow
    BY <1>1, <1>4, <1>5, PinsAreBorn DEF PinsFollow
<1>8. MarksHold' /\ ReadOnlyHolds'
  <2>1. marks \subseteq Entry /\ \A e \in marks : Exists(place, e)
    BY <1>1 DEF WorkspaceInv, WorkspaceTypes, MarksHold
  <2> QED BY <1>1, <1>4, <2>1 DEF MarksHold, ReadOnlyHolds, NoLayer
<1> QED BY <1>1, <1>4, <1>5, <1>6, <1>7, <1>8, PartsKeep

\* A deletion unpins what it deletes, and pins nothing.
LEMMA DeletedTabs ==
    ASSUME NEW ok \in BOOLEAN, Delete(ok), Consistent(tabs)
    PROVE  Consistent(tabs') /\ Range(tabs'.pinned) \subseteq Range(tabs.pinned)
<1> DEFINE S == layer.what
           list == InSet(UuidOrder, S)
<1>1. \/ tabs' = tabs
      \/ tabs' = FoldLeft(LAMBDA t, e : IF e \in Range(t.pinned) THEN TogglePin(t, e) ELSE t, tabs, list)
    BY DEF Delete
<1>2. list \in Seq(S \cap Range(UuidOrder)) /\ S \cap Range(UuidOrder) \subseteq Entry
  <2> DEFINE order == UuidOrder
  <2>1. order \in Seq(Entry)
    BY WorkspaceAssumption
  <2>2. S \cap Range(order) \subseteq Entry
    BY <2>1 DEF Range
  <2> HIDE DEF order, S
  <2>3. FilterFacts(order, S, InSet(order, S))
    BY <2>1, InSetFacts
  <2> QED BY <2>2, <2>3 DEF FilterFacts, order
<1>3. list \in Seq(Entry)
  <2> DEFINE T == S \cap Range(UuidOrder)
  <2>1. list \in Seq(T) /\ T \subseteq Entry
    BY <1>2
  <2> HIDE DEF list, T
  <2> QED BY <2>1
<1> HIDE DEF list, S
<1> QED BY <1>1, <1>3, UnpinnedIsConsistent

LEMMA DeleteKeeps == ASSUME NEW ok \in BOOLEAN, WorkspaceInv, Delete(ok) PROVE WorkspaceInv'
<1> DEFINE S == layer.what
           g == Bin
           done == ok /\ \A e \in S : Exists(place, e)
           list == InSet(UuidOrder, S)
           rows == BuildRows(place', tree, recents')
           n == IF tree.selected \in S THEN First(rows) ELSE tree.selected
<1>1. /\ screen = "workspace" /\ leftBy' = Nothing /\ layer' = NoLayer
      /\ UNCHANGED <<screen, readOnly, trail>>
      /\ savedPlace' = savedPlace \/ savedPlace' = place'
      /\ place' = place \/ ((\A e \in S : Exists(place, e))
                            /\ place' = [e \in Entry |-> IF e \in S THEN g ELSE place[e]])
    BY DEF Delete, Step, Open, Persist
<1>2. ~done => UNCHANGED <<recents, tabs, marks, anchor, tree, stored>>
    BY DEF Delete
<1>3. done =>
        /\ recents' = Forget(recents, S)
        /\ tabs' = FoldLeft(LAMBDA t, e : IF e \in Range(t.pinned) THEN TogglePin(t, e) ELSE t, tabs, list)
        /\ (marks' = {} \/ marks' = marks) /\ (anchor' = 0 \/ anchor' = anchor)
        /\ tree' = [tree EXCEPT !.selected = n]
        /\ stored' = [pinned |-> tabs'.pinned, recents |-> recents']
    BY DEF Delete, Select, PersistUiState, Open
<1>4. /\ tree \in TreeStates /\ recents \in Seq(Entry) /\ anchor \in Nat /\ marks \subseteq Entry
      /\ Consistent(tabs) /\ \A e \in marks : Exists(place, e)
    BY <1>1, Still
<1>5. /\ place' \in EntryPlaces /\ savedPlace' \in EntryPlaces /\ NoReturn
      /\ \A e \in Entry : Exists(place, e) => Exists(place', e)
  <2>1. g \in Group
    BY PlacesDiffer
  <2> HIDE DEF S, g
  <2> QED BY <1>1, <2>1, RelocationFacts
<1>6. recents' \in Seq(Entry)
  <2> HIDE DEF S
  <2> QED BY <1>2, <1>3, <1>4, ForgottenIsList
<1>7. Consistent(tabs') /\ ((stored' = stored /\ tabs' = tabs) \/ stored' = [pinned |-> tabs'.pinned, recents |-> recents'])
      /\ Range(tabs'.pinned) \subseteq Range(tabs.pinned)
  <2>1. Consistent(tabs') /\ Range(tabs'.pinned) \subseteq Range(tabs.pinned)
    BY <1>4, DeletedTabs
  <2> QED BY <1>2, <1>3, <2>1
<1>8. tree' \in TreeStates
  <2>1. tree.selected \in Node \cup {Nothing}
    BY <1>4 DEF TreeStates
  <2>2. SoundRows(place', rows)
    BY <1>4, <1>6, BuildRowsIsSound
  <2>3. n \in Node \cup {Nothing}
    <3> HIDE DEF rows
    <3> QED BY <2>1, <2>2, FirstIsNode
  <2> HIDE DEF n
  <2> QED BY <1>2, <1>3, <1>4, <2>3, TreeSelects
<1>9. anchor' \in Nat /\ marks' \subseteq Entry /\ (marks' = {} \/ marks' = marks)
  <2>1. (marks' = {} \/ marks' = marks) /\ (anchor' = 0 \/ anchor' = anchor)
    <3> HIDE DEF done
    <3> QED BY <1>2, <1>3
  <2> QED BY <1>4, <2>1
<1>10. tabs'.pinned \in Seq(Entry)
    BY <1>7, TabParts
<1> HIDE DEF S, g, done, list, n
<1>11. WorkspaceTypes'
    BY <1>1, <1>5, <1>6, <1>7, <1>8, <1>9, <1>10 DEF WorkspaceInv, WorkspaceTypes, NoLayer
<1>12. PinsFollow
    BY <1>5, <1>7, PinsAreBorn DEF PinsFollow
<1>13. MarksHold' /\ ReadOnlyHolds'
    BY <1>1, <1>4, <1>5, <1>9 DEF MarksHold, ReadOnlyHolds, NoLayer
<1> QED BY <1>1, <1>5, <1>7, <1>11, <1>12, <1>13, PartsKeep

LEMMA SaveFormKeeps == ASSUME NEW ok \in BOOLEAN, WorkspaceInv, SaveForm(ok) PROVE WorkspaceInv'
<1> DEFINE g == layer.group
           S == IF layer.isNew THEN tree.expanded \cup {g} ELSE tree.expanded
<1>1. /\ screen = "workspace" /\ layer.kind = "form" /\ leftBy' = Nothing
      /\ UNCHANGED <<screen, readOnly, anchor, marks, trail, tabs>>
    BY DEF SaveForm, Step, Open
<1>2. layer \in Forms /\ (layer.target = Nothing => g \in Group) /\ (layer.isNew => g \in Group)
    BY <1>1 DEF WorkspaceInv, WorkspaceTypes, Forms
<1>3. /\ tree \in TreeStates /\ recents \in Seq(Entry) /\ anchor \in Nat /\ marks \subseteq Entry
      /\ Consistent(tabs) /\ \A e \in marks : Exists(place, e)
    BY <1>1, Still
<1>4. place \in EntryPlaces /\ savedPlace \in EntryPlaces
      /\ \A x \in Entry : savedPlace[x] = "unborn" => place[x] = "unborn"
    BY DEF WorkspaceInv, WorkspaceTypes, BornHolds
<1>5. ~readOnly
    BY <1>1 DEF WorkspaceInv, ReadOnlyHolds
<1>6. \E e \in Entry :
        /\ layer.target = Nothing => place[e] = "unborn"
        /\ place' = IF layer.target = Nothing THEN [place EXCEPT ![e] = g] ELSE place
        /\ savedPlace' = IF ok THEN place' ELSE [savedPlace EXCEPT ![e] = IF @ = "unborn" THEN "gone" ELSE @]
        /\ IF ok
           THEN /\ tree' = [tree EXCEPT !.selected = e, !.expanded = S]
                /\ recents' = Bumped(recents, e) /\ layer' = NoLayer
                /\ stored' = [pinned |-> tabs'.pinned, recents |-> recents']
           ELSE layer' = [layer EXCEPT !.target = e] /\ UNCHANGED <<tree, recents, stored>>
  <2> HIDE DEF g
  <2>1. PICK e \in Entry :
        /\ IF layer.target = Nothing THEN place[e] = "unborn" ELSE e = layer.target /\ Exists(place, e)
        /\ place' = IF layer.target = Nothing THEN [place EXCEPT ![e] = layer.group] ELSE place
        /\ savedPlace' = IF ok THEN place' ELSE [savedPlace EXCEPT ![e] = IF @ = "unborn" THEN "gone" ELSE @]
        /\ IF ok
             THEN /\ tree' = [tree EXCEPT !.selected = e,
                                          !.expanded = IF layer.isNew THEN @ \cup {layer.group} ELSE @]
                  /\ recents' = Bumped(recents, e)
                  /\ layer' = NoLayer
                  /\ UNCHANGED tabs /\ PersistUiState
             ELSE layer' = [layer EXCEPT !.target = e] /\ UNCHANGED <<tree, recents, tabs, stored>>
    BY DEF SaveForm
  <2>2. ok => tree' = [tree EXCEPT !.selected = e, !.expanded = S]
    BY <2>1 DEF g
  <2>3. PersistUiState => stored' = [pinned |-> tabs'.pinned, recents |-> recents']
    BY <1>1 DEF PersistUiState, Open
  <2> HIDE DEF S
  <2> WITNESS e \in Entry
  <2> QED BY <2>1, <2>2, <2>3 DEF g
<1> HIDE DEF g, S
<1>7. PICK e \in Entry :
        /\ layer.target = Nothing => place[e] = "unborn"
        /\ place' = IF layer.target = Nothing THEN [place EXCEPT ![e] = g] ELSE place
        /\ savedPlace' = IF ok THEN place' ELSE [savedPlace EXCEPT ![e] = IF @ = "unborn" THEN "gone" ELSE @]
        /\ IF ok
           THEN /\ tree' = [tree EXCEPT !.selected = e, !.expanded = S]
                /\ recents' = Bumped(recents, e) /\ layer' = NoLayer
                /\ stored' = [pinned |-> tabs'.pinned, recents |-> recents']
           ELSE layer' = [layer EXCEPT !.target = e] /\ UNCHANGED <<tree, recents, stored>>
    BY <1>6
<1>8. g \in Group => g # "unborn" /\ g # "gone"
    BY PlacesDiffer
<1>9. /\ place' \in EntryPlaces
      /\ \A x \in Entry : place'[x] = place[x] \/ (place[x] = "unborn" /\ place'[x] \in Group)
  <2>1. CASE layer.target = Nothing
    BY <1>2, <1>4, <1>7, <2>1 DEF EntryPlaces
  <2>2. CASE layer.target # Nothing
    BY <1>4, <1>7, <2>2
  <2> QED BY <2>1, <2>2
<1>10. /\ savedPlace' \in EntryPlaces
       /\ \A x \in Entry : \/ savedPlace'[x] = place'[x]
                           \/ savedPlace'[x] = savedPlace[x]
                              /\ (x = e => savedPlace[x] # "unborn") /\ (x # e => place'[x] = place[x])
                           \/ savedPlace[x] = "unborn" /\ savedPlace'[x] = "gone"
  <2>1. CASE ok
    BY <1>7, <1>9, <2>1
  <2>2. CASE ~ok
    <3>1. savedPlace' = [savedPlace EXCEPT ![e] = IF savedPlace[e] = "unborn" THEN "gone" ELSE savedPlace[e]]
        BY <1>7, <2>2
    <3>2. savedPlace' \in EntryPlaces
        BY <1>4, <3>1 DEF EntryPlaces
    <3>3. \A x \in Entry : x # e => place'[x] = place[x]
        BY <1>4, <1>7 DEF EntryPlaces
    <3>4. \A x \in Entry : \/ savedPlace'[x] = savedPlace[x] /\ (x = e => savedPlace[x] # "unborn")
                           \/ savedPlace[x] = "unborn" /\ savedPlace'[x] = "gone"
        BY <1>4, <3>1 DEF EntryPlaces
    <3> QED BY <3>2, <3>3, <3>4
  <2> QED BY <2>1, <2>2
<1>11. NoReturn
  <2> SUFFICES ASSUME NEW x \in Entry
               PROVE  /\ place[x] # "unborn" => place'[x] # "unborn"
                      /\ savedPlace'[x] = "unborn" => place'[x] = "unborn"
                      /\ place[x] = "gone" /\ savedPlace[x] = "gone" => place'[x] = "gone" /\ savedPlace'[x] = "gone"
    BY DEF NoReturn
  <2>1. \A c \in Group : c # "gone" /\ c # "unborn"
    BY PlacesDiffer
  <2> QED BY <1>4, <1>9, <1>10, <2>1
<1>12. \A x \in Entry : Exists(place, x) => Exists(place', x)
    BY <1>9, PlacesDiffer DEF Exists
<1>13. tabs'.pinned = tabs.pinned /\ tabs.pinned \in Seq(Entry) /\ Consistent(tabs')
    BY <1>1, <1>3, TabParts
<1>14. recents' \in Seq(Entry) /\ (stored' = stored \/ stored' = [pinned |-> tabs'.pinned, recents |-> recents'])
    BY <1>3, <1>7, BumpedIsList
<1>15. tree' \in TreeStates
  <2>1. S \in SUBSET Group
    BY <1>2, <1>3 DEF S, TreeStates
  <2>2. e \in Node \cup {Nothing}
    BY DEF Node
  <2>3. CASE ok
    <3>1. tree' = [tree EXCEPT !.selected = e, !.expanded = S]
        BY <1>7, <2>3
    <3> QED BY <1>3, <2>1, <2>2, <3>1, TreeShows
  <2>4. CASE ~ok
    BY <1>3, <1>7, <2>4
  <2> QED BY <2>3, <2>4
<1>16. layer'.kind = "form" => layer' \in Forms
  <2>1. CASE ok
    BY <1>7, <2>1 DEF NoLayer
  <2>2. CASE ~ok
    <3>1. layer' = [layer EXCEPT !.target = e] /\ e # Nothing
        BY <1>7, <2>2, PlacesDiffer
    <3> QED BY <1>2, <3>1 DEF Forms
  <2> QED BY <2>1, <2>2
<1>17. WorkspaceTypes'
    BY <1>1, <1>9, <1>10, <1>13, <1>14, <1>15, <1>16 DEF WorkspaceInv, WorkspaceTypes
<1>18. PinsFollow
    BY <1>11, <1>13, <1>14, PinsAreBorn DEF PinsFollow
<1>19. MarksHold' /\ ReadOnlyHolds'
    BY <1>1, <1>3, <1>5, <1>12 DEF MarksHold, ReadOnlyHolds
<1> QED BY <1>1, <1>11, <1>13, <1>17, <1>18, <1>19, PartsKeep

\* The vault goes to the worker, comes back, and is locked.
LEMMA StartSyncKeeps == ASSUME WorkspaceInv, StartSync PROVE WorkspaceInv'
<1>1. /\ screen = "workspace" /\ screen' = "syncing" /\ leftBy' = Nothing /\ ~readOnly
      /\ UNCHANGED <<place, savedPlace, readOnly, tree, anchor, marks, tabs, recents, trail, layer, stored>>
    BY DEF StartSync, Step, InSecrets, AtWork, Open, MayExecute, RoMutating
<1>2. NoReturn
    BY <1>1, StayingIsNoReturn
<1>3. WorkspaceTypes' /\ Consistent(tabs')
    BY <1>1 DEF WorkspaceInv, WorkspaceTypes
<1>4. PinsFollow
    BY <1>1 DEF PinsFollow
<1>5. MarksHold' /\ ReadOnlyHolds'
    BY <1>1 DEF WorkspaceInv, MarksHold, ReadOnlyHolds, Exists
<1> QED BY <1>1, <1>2, <1>3, <1>4, <1>5, PartsKeep

LEMMA LockingKeeps == ASSUME WorkspaceInv, SyncFails \/ LockApp PROVE WorkspaceInv'
<1>1. /\ screen' = "locked" /\ leftBy' = Nothing /\ anchor' = 0 /\ marks' = {} /\ layer' = NoLayer
      /\ trail' = [back |-> <<>>, forward |-> <<>>]
      /\ UNCHANGED <<place, savedPlace, readOnly, tree, tabs, recents, stored>>
    BY DEF SyncFails, LockApp, LockView, Step
<1>2. NoReturn
    BY <1>1, StayingIsNoReturn
<1>3. trail' \in Trails
    BY <1>1 DEF Trails
<1>4. WorkspaceTypes' /\ Consistent(tabs')
    BY <1>1, <1>3 DEF WorkspaceInv, WorkspaceTypes, NoLayer
<1>5. PinsFollow
    BY <1>1 DEF PinsFollow
<1>6. MarksHold' /\ ReadOnlyHolds'
    BY <1>1 DEF MarksHold, ReadOnlyHolds, NoLayer
<1> QED BY <1>1, <1>2, <1>4, <1>5, <1>6, PartsKeep

LEMMA SyncDoneKeeps == ASSUME WorkspaceInv, SyncDone PROVE WorkspaceInv'
<1> DEFINE rows == BuildRows(place', tree, recents)
           s == tree.selected
           n == IF IndexOf(rows, s) # 0 THEN s ELSE First(rows)
<1>1. /\ screen = "syncing" /\ leftBy' = Nothing /\ place' \in Synced /\ savedPlace' = place'
      /\ tree' = [tree EXCEPT !.selected = n]
      /\ UNCHANGED <<readOnly, tabs, recents, stored>>
    BY DEF SyncDone, Select, Step
<1>2. \/ /\ screen' = "workspace" /\ UNCHANGED <<trail, layer>>
         /\ marks' = {e \in marks : Exists(place', e)} /\ (anchor' = 0 \/ anchor' = anchor)
      \/ /\ screen' = "locked" /\ layer' = NoLayer /\ anchor' = 0 /\ marks' = {}
         /\ trail' = [back |-> <<>>, forward |-> <<>>]
    BY DEF SyncDone, LockView, MarksAfterSync
<1>3. /\ tree \in TreeStates /\ recents \in Seq(Entry) /\ anchor \in Nat /\ marks \subseteq Entry /\ trail \in Trails
      /\ Consistent(tabs) /\ (layer.kind = "form" => layer \in Forms)
    BY <1>1, Still
<1>4. place \in EntryPlaces /\ \A x \in Entry : savedPlace[x] = "unborn" => place[x] = "unborn"
    BY DEF WorkspaceInv, WorkspaceTypes, BornHolds
<1>5. place' \in EntryPlaces
      /\ \A x \in Entry : place'[x] = place[x] \/ (place[x] \in Group /\ place'[x] \in Group \cup {"gone"})
  <2>1. CASE place' = place
    BY <1>4, <2>1
  <2>2. CASE place' # place
    <3>1. PICK e \in {x \in Entry : Exists(place, x)}, w \in {"gone", Bin, Root} : place' = [place EXCEPT ![e] = w]
        BY <1>1, <2>2 DEF Synced
    <3>2. e \in Entry /\ place[e] \in Group /\ w \in Group \cup {"gone"}
        BY <3>1, PlacesDiffer DEF Exists
    <3> QED BY <1>4, <3>1, <3>2 DEF EntryPlaces
  <2> QED BY <2>1, <2>2
<1>6. NoReturn
  <2>1. \A c \in Group : c # "gone" /\ c # "unborn"
    BY PlacesDiffer
  <2> QED BY <1>1, <1>5, <2>1 DEF NoReturn
<1>7. tree' \in TreeStates
  <2>1. s \in Node \cup {Nothing}
    BY <1>3 DEF TreeStates
  <2>2. SoundRows(place', rows)
    BY <1>3, BuildRowsIsSound
  <2>3. n \in Node \cup {Nothing}
    <3> HIDE DEF rows, s
    <3> QED BY <2>1, <2>2, FirstIsNode
  <2> HIDE DEF n
  <2> QED BY <1>1, <1>3, <2>3, TreeSelects
<1> HIDE DEF n, rows
<1>8. trail' \in Trails /\ anchor' \in Nat /\ marks' \subseteq Entry /\ (layer'.kind = "form" => layer' \in Forms)
  <2>1. CASE UNCHANGED <<trail, layer>>
    BY <1>2, <1>3, <2>1
  <2>2. CASE ~UNCHANGED <<trail, layer>>
    <3>1. layer' = NoLayer /\ anchor' = 0 /\ marks' = {} /\ trail' = [back |-> <<>>, forward |-> <<>>]
        BY <1>2, <2>2
    <3> QED BY <3>1 DEF Trails, NoLayer
  <2> QED BY <2>1, <2>2
<1>9. WorkspaceTypes' /\ Consistent(tabs')
    BY <1>1, <1>2, <1>5, <1>7, <1>8 DEF WorkspaceInv, WorkspaceTypes
<1>10. PinsFollow
    BY <1>1 DEF PinsFollow
<1>11. MarksHold' /\ ReadOnlyHolds'
    BY <1>1, <1>2 DEF WorkspaceInv, MarksHold, ReadOnlyHolds, NoLayer
<1> QED BY <1>1, <1>6, <1>9, <1>10, <1>11, PartsKeep

LEMMA OtherProgramKeeps == ASSUME WorkspaceInv, OtherProgram PROVE WorkspaceInv'
<1>1. /\ leftBy' = Nothing
      /\ UNCHANGED <<place, screen, readOnly, tree, anchor, marks, tabs, recents, trail, layer, stored>>
    BY DEF OtherProgram, Step
<1>2. PICK e \in Entry : Exists(savedPlace, e) /\ savedPlace' = [savedPlace EXCEPT ![e] = "gone"]
    BY DEF OtherProgram
<1>3. place \in EntryPlaces /\ savedPlace \in EntryPlaces
      /\ \A x \in Entry : savedPlace[x] = "unborn" => place[x] = "unborn"
    BY DEF WorkspaceInv, WorkspaceTypes, BornHolds
<1>4. savedPlace' \in EntryPlaces /\ \A x \in Entry : savedPlace'[x] = savedPlace[x] \/ savedPlace'[x] = "gone"
    BY <1>2, <1>3 DEF EntryPlaces
<1>5. NoReturn
    BY <1>1, <1>3, <1>4 DEF NoReturn
<1>6. WorkspaceTypes' /\ Consistent(tabs')
    BY <1>1, <1>4 DEF WorkspaceInv, WorkspaceTypes
<1>7. PinsFollow
    BY <1>1 DEF PinsFollow
<1>8. MarksHold' /\ ReadOnlyHolds'
    BY <1>1 DEF WorkspaceInv, MarksHold, ReadOnlyHolds, Exists
<1> QED BY <1>1, <1>5, <1>6, <1>7, <1>8, PartsKeep

\* The tabs after an unlock: the stored pins that are still there, which are
\* the pins there were before.
LEMMA UnlockedTabs ==
    ASSUME WorkspaceInv, UnlockApp
    PROVE  LET S == {e \in Entry : Exists(place', e)} IN
               /\ Consistent(tabs') /\ tabs'.pinned = InSet(stored.pinned, S)
               /\ tabs'.pinned = InSet(tabs.pinned, S)
<1> DEFINE S == {e \in Entry : Exists(place', e)}
           order == stored.pinned
           pins == Range(tabs.pinned)
           kept == InSet(order, S)
<1>1. order \in Seq(Entry) /\ IsInjective(order) /\ Len(order) <= MaxPins
    BY DEF WorkspaceInv, WorkspaceTypes, PinsHold
<1>2. pins \subseteq Range(order) /\ tabs.pinned = InSet(order, pins)
      /\ \A e \in Range(order) \ pins : savedPlace[e] = "gone"
    BY DEF WorkspaceInv, PinsHold
<1>3. place' = savedPlace /\ tabs' = WithPins(kept)
    BY DEF UnlockApp
<1>4. S \cap Range(order) = (pins \cap S) \cap Range(order)
  <2>1. ASSUME NEW e \in Range(order) \ pins PROVE e \notin S
    BY <1>2, <1>3, PlacesDiffer DEF Exists
  <2> HIDE DEF S, order, pins
  <2> QED BY <2>1
<1> HIDE DEF S, order, pins
<1>5. kept \in Seq(Entry) /\ IsInjective(kept) /\ Len(kept) <= MaxPins
  <2>1. FilterFacts(order, S, kept)
    BY <1>1, InSetFacts
  <2>2. kept \in Seq(S \cap Range(order)) /\ S \cap Range(order) \subseteq Entry
    BY <1>1, <2>1 DEF FilterFacts, Range
  <2>3. kept \in Seq(Entry) /\ Len(kept) \in Nat /\ Len(order) \in Nat /\ MaxPins \in Nat
    <3> DEFINE T == S \cap Range(order)
    <3>1. kept \in Seq(T) /\ T \subseteq Entry
        BY <2>2
    <3> HIDE DEF T, kept
    <3> QED BY <1>1, <3>1, WorkspaceAssumption
  <2> HIDE DEF kept
  <2> QED BY <1>1, <2>1, <2>3 DEF FilterFacts
<1> HIDE DEF kept
<1>6. Consistent(tabs') /\ tabs'.pinned = kept
    BY <1>3, <1>5, WithPinsFacts
<1>7. InSet(order, S) = InSet(order, pins \cap S)
    BY <1>1, <1>4, InSetAgrees
<1>8. InSet(InSet(order, pins), S) = InSet(order, pins \cap S)
    BY <1>1, InSetTwice
<1> QED BY <1>2, <1>6, <1>7, <1>8 DEF S, order, kept

LEMMA UnlockKeeps == ASSUME WorkspaceInv, UnlockApp PROVE WorkspaceInv'
<1> DEFINE S == {e \in Entry : Exists(place', e)}
           fresh == [expanded |-> {}, selected |-> Nothing, sort |-> "recently-used"]
           rows == BuildRows(place', fresh, recents')
           n == First(rows)
           d == Dedup1(stored.recents)
<1>1. /\ screen = "locked" /\ screen' = "workspace" /\ leftBy' = Nothing
      /\ place' = savedPlace /\ savedPlace' = savedPlace
      /\ tree' = [fresh EXCEPT !.selected = n]
      /\ recents' = Truncate(d, RecentsCap)
      /\ UNCHANGED <<readOnly, anchor, marks, trail, layer, stored>>
    BY DEF UnlockApp, Step
<1>2. Consistent(tabs') /\ tabs'.pinned = InSet(stored.pinned, S)
    BY UnlockedTabs
<1>3. savedPlace \in EntryPlaces /\ stored.recents \in Seq(Entry) /\ stored.pinned \in Seq(Entry)
      /\ marks = {} /\ anchor = 0
    BY <1>1 DEF WorkspaceInv, WorkspaceTypes, MarksHold
<1>4. recents' \in Seq(Entry)
  <2>1. d \in Seq(Entry) /\ RecentsCap \in Nat
    BY <1>3, DedupFacts, WorkspaceAssumption
  <2> HIDE DEF d
  <2> QED BY <1>1, <2>1, TruncateFacts
<1>5. tree' \in TreeStates
  <2>1. fresh \in TreeStates
    BY DEF TreeStates
  <2> HIDE DEF fresh
  <2>2. SoundRows(place', rows)
    BY <1>4, <2>1, BuildRowsIsSound
  <2> HIDE DEF rows
  <2>3. n \in Node \cup {Nothing}
    BY <2>2, FirstIsNode
  <2> HIDE DEF n
  <2> QED BY <1>1, <2>1, <2>3, TreeSelects
<1> HIDE DEF fresh, rows, n, d
<1>6. WorkspaceTypes'
    BY <1>1, <1>3, <1>4, <1>5 DEF WorkspaceInv, WorkspaceTypes
<1>7. BornHolds'
  <2>1. Range(stored.pinned) \subseteq Entry
    BY <1>3 DEF Range
  <2> QED BY <1>1, <2>1 DEF WorkspaceInv, BornHolds
<1>8. PinsHold'
  <2> DEFINE order == stored.pinned
             pins == Range(tabs'.pinned)
  <2>1. FilterFacts(order, S, InSet(order, S))
    <3> HIDE DEF S, order
    <3> QED BY <1>3, InSetFacts DEF order
  <2>2. pins = Range(order) \cap S
    BY <1>2, <2>1 DEF FilterFacts
  <2>3. InSet(order, pins) = InSet(order, S)
    <3>1. order \in Seq(Entry)
        BY <1>3
    <3> HIDE DEF S, order, pins
    <3>2. S \cap Range(order) = pins \cap Range(order)
        BY <2>2
    <3> QED BY <3>1, <3>2, InSetAgrees
  <2>4. ASSUME NEW e \in Range(order) \ pins PROVE place'[e] = "gone" /\ savedPlace'[e] = "gone"
    <3>1. e \in Entry /\ e \notin S
        BY <1>3, <2>2, <2>4 DEF Range
    <3>2. savedPlace[e] \in {"gone", "unborn"}
        BY <1>1, <1>3, <3>1 DEF EntryPlaces, Exists
    <3>3. place[e] # "unborn" /\ (savedPlace[e] = "unborn" => place[e] = "unborn")
        BY <2>4, <3>1 DEF WorkspaceInv, BornHolds
    <3> QED BY <1>1, <3>2, <3>3
  <2>5. IsInjective(order) /\ Len(order) <= MaxPins
    BY DEF WorkspaceInv, PinsHold
  <2>6. stored'.pinned = order /\ tabs'.pinned = InSet(order, pins) /\ pins \subseteq Range(order)
    BY <1>1, <1>2, <2>2, <2>3
  <2> HIDE DEF S, order
  <2> QED BY <2>4, <2>5, <2>6 DEF PinsHold
<1>9. MarksHold' /\ ReadOnlyHolds'
    BY <1>1, <1>3 DEF WorkspaceInv, MarksHold, ReadOnlyHolds
<1>10. ReturnHolds' /\ Consistent(tabs)'
    BY <1>1, <1>2 DEF ReturnHolds
<1> QED BY <1>6, <1>7, <1>8, <1>9, <1>10 DEF WorkspaceInv

LEMMA WorkspaceInitInv == WorkspaceInit => WorkspaceInv
<1> SUFFICES ASSUME WorkspaceInit PROVE WorkspaceInv
    OBVIOUS
<1> DEFINE s == <<>>
<1>1. s \in Seq(Entry) /\ Len(s) = 0 /\ IsInjective(s) /\ Range(s) = {} /\ Len(s) <= MaxPins
    BY WorkspaceAssumption DEF IsInjective, Range
<1>2. /\ place = StartPlace /\ savedPlace = StartPlace /\ screen = "locked"
      /\ tree = [expanded |-> {}, selected |-> Nothing, sort |-> "recently-used"]
      /\ anchor = 0 /\ marks = {} /\ tabs = WithPins(s) /\ recents = s
      /\ trail = [back |-> s, forward |-> s] /\ layer = NoLayer
      /\ stored = [pinned |-> s, recents |-> s] /\ leftBy = Nothing
    BY DEF WorkspaceInit
<1>3. StartPlace \in EntryPlaces
    BY WorkspaceAssumption DEF EntryPlaces
<1>4. tree \in TreeStates /\ trail \in Trails
    BY <1>2 DEF TreeStates, Trails
<1> HIDE DEF s
<1>5. WorkspaceTypes
    BY <1>1, <1>2, <1>3, <1>4 DEF WorkspaceTypes, NoLayer
<1>6. Consistent(tabs) /\ tabs.pinned = s
    BY <1>1, <1>2, WithPinsFacts
<1>7. InSet(s, Range(s)) = s
    BY <1>1, InSetOfAll
<1>8. MarksHold /\ ReadOnlyHolds /\ ReturnHolds
    BY <1>2 DEF MarksHold, ReadOnlyHolds, ReturnHolds, NoLayer
<1>9. stored.pinned = s /\ savedPlace = place
    BY <1>2
<1>10. BornHolds
    BY <1>1, <1>9 DEF BornHolds
<1>11. PinsHold
    BY <1>1, <1>6, <1>7, <1>9 DEF PinsHold
<1> QED BY <1>5, <1>6, <1>8, <1>10, <1>11 DEF WorkspaceInv

LEMMA WorkspaceStepInv == WorkspaceInv /\ [WorkspaceNext]_wsVars => WorkspaceInv'
<1> SUFFICES ASSUME WorkspaceInv, [WorkspaceNext]_wsVars PROVE WorkspaceInv'
    OBVIOUS
<1>1. ASSUME NEW down \in BOOLEAN, NEW wheel \in BOOLEAN, MoveSelection(down, wheel) PROVE WorkspaceInv'
    BY <1>1, MoveSelectionKeeps
<1>2. CASE Parent
    BY <1>2, ParentKeeps
<1>3. CASE EnterDetail
    BY <1>3, EnterDetailKeeps
<1>4. CASE ClickRow
    BY <1>4, ClickRowKeeps
<1>5. CASE TogglePane \/ SortCycle \/ RevealPassword \/ ToggleMark \/ EscapeLadder \/ OpenSearch
    BY <1>5, ViewCommandsKeep
<1>6. ASSUME NEW confirm \in BOOLEAN, OnGroup(confirm) PROVE WorkspaceInv'
    BY <1>6, OnGroupKeeps
<1>7. CASE VisualMode
    BY <1>7, VisualModeKeeps
<1>8. CASE TabMotion
    BY <1>8, TabMotionKeeps
<1>9. CASE PinToggle
    BY <1>9, PinToggleKeeps
<1>10. CASE JumpBack
    BY <1>10, JumpBackKeeps
<1>11. CASE JumpForward
    BY <1>11, JumpForwardKeeps
<1>12. CASE JumpToEntry
    BY <1>12, JumpToEntryKeeps
<1>13. CASE CopyField
    BY <1>13, CopyFieldKeeps
<1>14. CASE CloseLayer
    BY <1>14, CloseLayerKeeps
<1>15. CASE OpenDelete \/ OpenBulk \/ OpenForm("add") \/ OpenForm("edit")
    BY <1>15, OpeningKeeps
<1>16. ASSUME NEW ok \in BOOLEAN, Delete(ok) PROVE WorkspaceInv'
    BY <1>16, DeleteKeeps
<1>17. ASSUME NEW ok \in BOOLEAN, BulkChange(ok) PROVE WorkspaceInv'
    BY <1>17, BulkChangeKeeps
<1>18. ASSUME NEW ok \in BOOLEAN, SaveForm(ok) PROVE WorkspaceInv'
    BY <1>18, SaveFormKeeps
<1>19. CASE StartSync
    BY <1>19, StartSyncKeeps
<1>20. CASE SyncDone
    BY <1>20, SyncDoneKeeps
<1>21. CASE SyncFails \/ LockApp
    BY <1>21, LockingKeeps
<1>22. CASE OtherProgram
    BY <1>22, OtherProgramKeeps
<1>23. CASE UnlockApp
    BY <1>23, UnlockKeeps
<1>24. CASE UNCHANGED wsVars
    BY <1>24 DEF wsVars, WorkspaceInv, WorkspaceTypes, Consistent, TabCount, MarksHold, ReadOnlyHolds, BornHolds,
                 PinsHold, ReturnHolds, Exists
<1>25. CASE Navigate
    BY <1>1, <1>2, <1>3, <1>4, <1>5, <1>6, <1>7, <1>8, <1>9, <1>10, <1>11, <1>12, <1>13, <1>14, <1>25 DEF Navigate
<1>26. CASE WorkspaceNext
  <2>1. ASSUME NEW command \in {"add", "edit"}, OpenForm(command) PROVE WorkspaceInv'
    BY <1>15, <2>1
  <2> QED BY <1>5, <1>15, <1>16, <1>17, <1>18, <1>19, <1>20, <1>21, <1>22, <1>23, <1>25, <1>26, <2>1 DEF WorkspaceNext
<1> QED BY <1>24, <1>26

\* After any sequence of commands, syncs, locks and unlocks the pins and
\* their activation order are of the same entries, and the marked entries are
\* in the vault.
THEOREM WorkspaceListsAreSound == WorkspaceSpec => []ListsAreSound
<1>1. WorkspaceInit => WorkspaceInv
    BY WorkspaceInitInv
<1>2. WorkspaceInv /\ [WorkspaceNext]_wsVars => WorkspaceInv'
    BY WorkspaceStepInv
<1>3. WorkspaceInv => ListsAreSound
    BY DEF WorkspaceInv, Consistent, MarksHold, ListsAreSound, PinsAreConsistent, MarksAreEntries, Open
<1> QED BY <1>1, <1>2, <1>3, PTL DEF WorkspaceSpec

\* The entry on screen is the same as long as the entries, the selection and
\* the active tab are.
LEMMA ShownStays ==
    ASSUME place' = place, tree'.selected = tree.selected,
           TabAt(tabs', tabs'.active) = TabAt(tabs, tabs.active)
    PROVE  Shown' = Shown
    BY DEF Shown, OnPin, ActiveTab, SelectedEntry, Exists

\* Whatever moves the user hides the password or shows the entry it showed.
LEMMA NavigationHides == ASSUME WorkspaceInv, Navigate, reveal' PROVE Shown' = Shown
<1> DEFINE same == place' = place /\ tree'.selected = tree.selected
                   /\ TabAt(tabs', tabs'.active) = TabAt(tabs, tabs.active)
<1>1. same => Shown' = Shown
    BY ShownStays
<1>2. \A S : [tree EXCEPT !.expanded = S].selected = tree.selected
      /\ [tree EXCEPT !.sort = S].selected = tree.selected
      /\ \A n : [tree EXCEPT !.selected = n].selected = n
    BY DEF WorkspaceInv, WorkspaceTypes, TreeStates
<1>3. ASSUME NEW down \in BOOLEAN, NEW wheel \in BOOLEAN, MoveSelection(down, wheel) PROVE same
  <2>1. UNCHANGED <<place, tabs>> /\ \E n : tree' = [tree EXCEPT !.selected = n] /\ reveal' = (IF n # tree.selected THEN FALSE ELSE reveal)
    BY <1>3 DEF MoveSelection, Select, ResetView
  <2>2. PICK n : tree' = [tree EXCEPT !.selected = n] /\ reveal' = (IF n # tree.selected THEN FALSE ELSE reveal)
    BY <2>1
  <2>3. tree'.selected = n
    BY <1>2, <2>2
  <2> QED BY <2>1, <2>2, <2>3
<1>4. CASE Parent
  <2>1. UNCHANGED <<place, tabs>> /\ ~(reveal' = FALSE)
    BY <1>4 DEF Parent
  <2>2. tree' = tree \/ \E S : tree' = [tree EXCEPT !.expanded = S]
    BY <1>4, <2>1 DEF Parent
  <2>3. same
    BY <1>2, <2>1, <2>2
  <2> QED BY <1>1, <2>3
<1>5. ASSUME NEW confirm \in BOOLEAN, OnGroup(confirm) PROVE same
  <2>1. UNCHANGED <<place, tabs>> /\ ~(reveal' = FALSE)
    BY <1>5 DEF OnGroup
  <2>2. tree' = tree \/ \E S : tree' = [tree EXCEPT !.expanded = S]
    BY <1>5, <2>1 DEF OnGroup
  <2> QED BY <1>2, <2>1, <2>2
<1>6. CASE SortCycle
  <2>1. UNCHANGED <<place, tabs>> /\ \E S : tree' = [tree EXCEPT !.sort = S]
    BY <1>6 DEF SortCycle
  <2>2. same
    BY <1>2, <2>1
  <2> QED BY <1>1, <2>2
<1>7. CASE EnterDetail \/ TogglePane \/ VisualMode \/ ToggleMark \/ EscapeLadder \/ OpenSearch \/ CopyField \/ CloseLayer
  <2>1. UNCHANGED <<place, tree, tabs>>
    BY <1>7 DEF EnterDetail, TogglePane, VisualMode, ToggleMark, EscapeLadder, OpenSearch, CopyField, CloseLayer
  <2> QED BY <1>1, <2>1
<1>8. CASE ClickRow \/ TabMotion \/ JumpToEntry
    BY <1>8 DEF ClickRow, TabMotion, OnTabSwitched, JumpToEntry, ShowNode
<1>9. CASE JumpBack \/ JumpForward
  <2>1. \E step : Jump(step)
    BY <1>9 DEF JumpBack, JumpForward
  <2>2. PICK step : Jump(step)
    BY <2>1
  <2>3. CASE step.to = Nothing
    <3>1. UNCHANGED <<place, tree, tabs>>
        BY <2>2, <2>3 DEF Jump
    <3> QED BY <1>1, <3>1
  <2>4. CASE step.to # Nothing
    BY <2>2, <2>4 DEF Jump, JumpToHistory, ShowNode
  <2> QED BY <2>3, <2>4
<1>10. CASE PinToggle
  <2> DEFINE t == tabs
             e == tree.selected
  <2>1. /\ UNCHANGED <<place, tree>> /\ e \in Entry /\ TabAt(t, t.active) = "secrets"
        /\ tabs' = TogglePin(t, e)
    BY <1>10 DEF PinToggle, InSecrets, ActiveTab, SelectedEntry, Exists
  <2>2. Consistent(t)
    BY DEF WorkspaceInv
  <2> HIDE DEF e, t
  <2>3. t.active = 0
    BY <2>1, <2>2, TabIsPin, TabParts
  <2>4. tabs'.active = 0
    BY <2>1, <2>2, <2>3, PinnedIsConsistent
  <2>5. TabAt(tabs', tabs'.active) = "secrets"
    BY <2>4 DEF TabAt
  <2> QED BY <1>1, <2>1, <2>5 DEF t
<1> QED BY <1>1, <1>3, <1>4, <1>5, <1>6, <1>7, <1>8, <1>9, <1>10 DEF Navigate

\* A step forward goes to the node that the step back before it has left.
LEMMA ForwardReturns == ASSUME WorkspaceInv, leftBy # Nothing, JumpForward PROVE tree'.selected = leftBy
<1> DEFINE h == trail
           n == Current
           step == StepForward(h, n)
<1>1. screen # "locked" /\ n # Nothing /\ Jump(step)
    BY DEF JumpForward, Jump, InTree, InSecrets, AtWork, Open
<1>2. n \in Node /\ h \in Trails /\ h.forward # <<>> /\ Last(h.forward) = leftBy
    BY <1>1, CurrentIsNode, Still DEF WorkspaceInv, ReturnHolds
<1> HIDE DEF n, h
<1>3. step = StepForward(h, n)
    OBVIOUS
<1> HIDE DEF step
<1>4. step.to = leftBy
    BY <1>2, <1>3, ForwardFacts
<1>5. tree' = [tree EXCEPT !.selected = leftBy, !.expanded = @ \cup Ancestors(place, leftBy)]
    BY <1>1, <1>4 DEF Jump, JumpToHistory, ShowNode
<1> QED BY <1>5 DEF WorkspaceInv, WorkspaceTypes, TreeStates

\* A read-only session has no sync and no form that could change the vault.
LEMMA ReadOnlyKeepsVault ==
    ASSUME WorkspaceInv, [WorkspaceNext]_wsVars, readOnly, ~OtherProgram, ~UnlockApp
    PROVE  UNCHANGED <<place, savedPlace>>
<1>1. screen # "syncing" /\ layer.kind \notin {"delete", "move", "tag", "form"}
    BY DEF WorkspaceInv, ReadOnlyHolds
<1>2. CASE Navigate
  <2>1. (\E step : Jump(step)) => UNCHANGED <<place, savedPlace>>
    BY DEF Jump
  <2> QED BY <1>2, <2>1 DEF Navigate, MoveSelection, Parent, EnterDetail, ClickRow, TogglePane, SortCycle, OnGroup,
                VisualMode, ToggleMark, EscapeLadder, TabMotion, PinToggle, JumpBack, JumpForward, OpenSearch,
                JumpToEntry, CopyField, CloseLayer
<1>3. CASE RevealPassword \/ OpenDelete \/ OpenBulk \/ StartSync \/ LockApp
    BY <1>3 DEF RevealPassword, OpenDelete, OpenBulk, StartSync, LockApp
<1>4. CASE \E command \in {"add", "edit"} : OpenForm(command)
    BY <1>4 DEF OpenForm
<1>5. CASE \E ok \in BOOLEAN : Delete(ok) \/ BulkChange(ok) \/ SaveForm(ok)
    BY <1>1, <1>5 DEF Delete, BulkChange, SaveForm
<1>6. CASE SyncDone \/ SyncFails
    BY <1>1, <1>6 DEF SyncDone, SyncFails
<1>7. CASE UNCHANGED wsVars
    BY <1>7 DEF wsVars
<1> QED BY <1>2, <1>3, <1>4, <1>5, <1>6, <1>7 DEF WorkspaceNext

\* A step that takes no entry out of the vault and pins only what is in it.
KeepsPinned ==
    /\ Open
    /\ \A e \in Entry : Exists(place, e) => Exists(place', e)
    /\ \A e \in Range(tabs'.pinned) : e \in Range(tabs.pinned) \/ Exists(place', e)

LEMMA PinnedAreKept == WorkspaceInv /\ KeepsPinned => OnlySyncStrandsPins
<1>1. WorkspaceInv => Range(tabs.pinned) \subseteq Entry
    BY TabParts DEF WorkspaceInv, Range
<1> QED BY <1>1 DEF KeepsPinned, OnlySyncStrandsPins

\* What leaves the entries and the pins alone.
LEMMA IdlePinsAreKept ==
    WorkspaceInv /\ place' = place /\ tabs'.pinned = tabs.pinned /\ (Open' => Open) => OnlySyncStrandsPins
    BY DEF OnlySyncStrandsPins

LEMMA NavigationKeepsPinned == ASSUME WorkspaceInv, Navigate PROVE OnlySyncStrandsPins
<1>1. CASE TabMotion
  <2>1. UNCHANGED <<place, screen>> /\ tabs'.pinned = tabs.pinned
    <3>1. /\ UNCHANGED <<place, screen>>
          /\ tabs' = TabNext(tabs) \/ tabs' = TabPrev(tabs) \/ \E n \in Nat : tabs' = TabJump(tabs, n)
        BY <1>1 DEF TabMotion
    <3> QED BY <3>1, TabMoves DEF WorkspaceInv
  <2> QED BY <2>1, IdlePinsAreKept DEF Open
<1>2. CASE PinToggle
  <2> DEFINE e == tree.selected
             t == tabs
  <2>1. Open /\ place' = place /\ Exists(place, e) /\ e \in Entry /\ tabs' = TogglePin(t, e) /\ Consistent(t)
    BY <1>2 DEF PinToggle, InSecrets, AtWork, SelectedEntry, Exists, WorkspaceInv
  <2> HIDE DEF e, t
  <2>2. Range(tabs'.pinned) \subseteq Range(t.pinned) \cup {e}
    BY <2>1, PinnedIsConsistent
  <2>3. KeepsPinned
    BY <2>1, <2>2 DEF KeepsPinned, t
  <2> QED BY <2>3, PinnedAreKept
<1>3. CASE JumpToEntry
  <2>1. UNCHANGED <<place, screen>> /\ screen # "locked" /\ \E e \in Entry : ShowNode(e)
    BY <1>3 DEF JumpToEntry, Open
  <2>2. tabs'.pinned = tabs.pinned
    BY <2>1, ShowNodeFacts DEF Node
  <2> QED BY <2>1, <2>2, IdlePinsAreKept DEF Open
<1>4. CASE JumpBack \/ JumpForward
  <2>1. PICK step : Jump(step)
    BY <1>4 DEF JumpBack, JumpForward
  <2>2. Open /\ UNCHANGED <<place, screen>>
    BY <1>4, <2>1 DEF JumpBack, JumpForward, Jump, InTree, InSecrets, AtWork
  <2>3. tabs' = tabs \/ tabs' = TabJump(tabs, 1)
    BY <2>1 DEF Jump, JumpToHistory, ShowNode
  <2>4. tabs'.pinned = tabs.pinned
    <3> DEFINE one == 1
    <3>1. tabs' = tabs \/ tabs' = TabJump(tabs, one)
        BY <2>3
    <3>2. one \in Nat /\ Consistent(tabs)
        BY DEF WorkspaceInv
    <3> HIDE DEF one
    <3> QED BY <3>1, <3>2, TabMoves
  <2> QED BY <2>2, <2>4, IdlePinsAreKept DEF Open
<1>5. CASE ~(TabMotion \/ PinToggle \/ JumpToEntry \/ JumpBack \/ JumpForward)
  <2>1. UNCHANGED <<place, screen, tabs>>
    BY <1>5 DEF Navigate, MoveSelection, Parent, EnterDetail, ClickRow, TogglePane, SortCycle, OnGroup,
                VisualMode, ToggleMark, EscapeLadder, OpenSearch, CopyField, CloseLayer
  <2> QED BY <2>1, IdlePinsAreKept DEF Open
<1> QED BY <1>1, <1>2, <1>3, <1>4, <1>5

\* The commands that change entries keep those that are pinned, or unpin them.
LEMMA ChangesKeepPinned ==
    ASSUME NEW ok \in BOOLEAN, WorkspaceInv, Delete(ok) \/ BulkChange(ok) \/ SaveForm(ok)
    PROVE  OnlySyncStrandsPins
<1>1. CASE Delete(ok)
  <2> DEFINE S == layer.what
             g == Bin
  <2>1. /\ Open /\ (savedPlace' = savedPlace \/ savedPlace' = place')
        /\ place' = place \/ ((\A e \in S : Exists(place, e))
                              /\ place' = [e \in Entry |-> IF e \in S THEN g ELSE place[e]])
    BY <1>1 DEF Delete, Persist
  <2>2. g \in Group
    BY PlacesDiffer
  <2>3. Range(tabs'.pinned) \subseteq Range(tabs.pinned)
    BY <1>1, DeletedTabs DEF WorkspaceInv
  <2> HIDE DEF S, g
  <2>4. \A e \in Entry : Exists(place, e) => Exists(place', e)
    BY <2>1, <2>2, RelocationFacts
  <2>5. Open
    BY <2>1
  <2>6. KeepsPinned
    BY <2>3, <2>4, <2>5 DEF KeepsPinned
  <2> QED BY <2>6, PinnedAreKept
<1>2. CASE BulkChange(ok)
  <2> DEFINE S == marks
  <2>1. Open /\ tabs' = tabs /\ (savedPlace' = savedPlace \/ savedPlace' = place')
    BY <1>2 DEF BulkChange, Persist
  <2>2. \E g \in Group :
          place' = place \/ ((\A e \in S : Exists(place, e))
                             /\ place' = [e \in Entry |-> IF e \in S THEN g ELSE place[e]])
    BY <1>2 DEF BulkChange, GroupChoices
  <2> HIDE DEF S
  <2>3. \A e \in Entry : Exists(place, e) => Exists(place', e)
    BY <2>1, <2>2, RelocationFacts
  <2>4. KeepsPinned
    BY <2>1, <2>3 DEF KeepsPinned
  <2> QED BY <2>4, PinnedAreKept
<1>3. CASE SaveForm(ok)
  <2>1. /\ Open /\ tabs' = tabs
        /\ place' = place \/ \E e \in Entry : place[e] = "unborn" /\ place' = [place EXCEPT ![e] = layer.group]
    BY <1>3 DEF SaveForm
  <2>2. place \in EntryPlaces
    BY DEF WorkspaceInv, WorkspaceTypes
  <2>3. \A e \in Entry : Exists(place, e) => Exists(place', e)
    BY <2>1, <2>2, PlacesDiffer DEF Exists, EntryPlaces
  <2>4. KeepsPinned
    BY <2>1, <2>3 DEF KeepsPinned
  <2> QED BY <2>4, PinnedAreKept
<1> QED BY <1>1, <1>2, <1>3

LEMMA PinsAreNotStranded == ASSUME WorkspaceInv, [WorkspaceNext]_wsVars PROVE OnlySyncStrandsPins
<1>1. CASE Navigate
    BY <1>1, NavigationKeepsPinned
<1>2. CASE \E ok \in BOOLEAN : Delete(ok) \/ BulkChange(ok) \/ SaveForm(ok)
    BY <1>2, ChangesKeepPinned
<1>3. CASE RevealPassword \/ OpenDelete \/ OpenBulk
  <2>1. UNCHANGED <<place, screen, tabs>>
    BY <1>3 DEF RevealPassword, OpenDelete, OpenBulk
  <2> QED BY <2>1, IdlePinsAreKept DEF Open
<1>4. CASE \E command \in {"add", "edit"} : OpenForm(command)
  <2>1. UNCHANGED <<place, screen, tabs>>
    BY <1>4 DEF OpenForm
  <2> QED BY <2>1, IdlePinsAreKept DEF Open
<1>5. CASE StartSync \/ SyncFails \/ LockApp \/ OtherProgram
  <2>1. ~Open'
    BY <1>5 DEF StartSync, SyncFails, LockApp, LockView, OtherProgram, Open
  <2> QED BY <2>1 DEF OnlySyncStrandsPins
<1>6. CASE UnlockApp
  <2> DEFINE S == {e \in Entry : Exists(place', e)}
             order == tabs.pinned
  <2>1. tabs'.pinned = InSet(order, S) /\ order \in Seq(Entry)
    BY <1>6, UnlockedTabs, TabParts DEF WorkspaceInv
  <2> HIDE DEF S, order
  <2>2. FilterFacts(order, S, InSet(order, S))
    BY <2>1, InSetFacts
  <2>3. Range(tabs'.pinned) \subseteq S
    BY <2>1, <2>2 DEF FilterFacts
  <2> QED BY <2>3 DEF OnlySyncStrandsPins, S
<1>7. CASE UNCHANGED wsVars
    BY <1>7, IdlePinsAreKept DEF wsVars, Open
<1>8. CASE SyncDone
    BY <1>8 DEF OnlySyncStrandsPins
<1> QED BY <1>1, <1>2, <1>3, <1>4, <1>5, <1>6, <1>7, <1>8 DEF WorkspaceNext

\* The nodes that have a row.
Nodes(rows) == {rows[i].node : i \in 1 .. Len(rows)}

LEMMA NodesJoin ==
    ASSUME NEW a \in Seq(TreeRows), NEW b \in Seq(TreeRows)
    PROVE  a \o b \in Seq(TreeRows) /\ Nodes(a \o b) = Nodes(a) \cup Nodes(b)
<1> DEFINE w == a \o b
           m == Len(a)
           n == Len(b)
<1>1. m \in Nat /\ n \in Nat /\ w \in Seq(TreeRows) /\ Len(w) = m + n
    OBVIOUS
<1>2. (\A i \in 1 .. m : w[i] = a[i]) /\ \A i \in 1 .. n : w[m + i] = b[i]
    BY <1>1
<1> HIDE DEF w
<1>3. ASSUME NEW x \in Nodes(w) PROVE x \in Nodes(a) \cup Nodes(b)
  <2>1. PICK i \in 1 .. Len(w) : x = w[i].node
    BY DEF Nodes
  <2>2. CASE i \in 1 .. m
    BY <1>2, <2>1, <2>2 DEF Nodes
  <2>3. CASE i \notin 1 .. m
    <3>1. i - m \in 1 .. n /\ m + (i - m) = i
        BY <1>1, <2>1, <2>3
    <3>2. w[i] = b[i - m]
        BY <1>2, <3>1
    <3> QED BY <2>1, <3>1, <3>2 DEF Nodes
  <2> QED BY <2>2, <2>3
<1>4. ASSUME NEW x \in Nodes(a) PROVE x \in Nodes(w)
  <2>1. PICK i \in 1 .. m : x = a[i].node
    BY DEF Nodes
  <2>2. i \in 1 .. Len(w) /\ w[i] = a[i]
    BY <1>1, <1>2
  <2> QED BY <2>1, <2>2 DEF Nodes
<1>5. ASSUME NEW x \in Nodes(b) PROVE x \in Nodes(w)
  <2>1. PICK i \in 1 .. n : x = b[i].node
    BY DEF Nodes
  <2>2. m + i \in 1 .. Len(w) /\ w[m + i] = b[i]
    BY <1>1, <1>2
  <2> QED BY <2>1, <2>2 DEF Nodes
<1>6. Nodes(w) = Nodes(a) \cup Nodes(b)
    BY <1>3, <1>4, <1>5
<1> QED BY <1>1, <1>6 DEF w

\* The rows of a subgroup: its own, and what is in it if it is expanded.
LEMMA NodesOfGroup ==
    ASSUME NEW b \in Seq(TreeRows), NEW c \in Group
    PROVE  /\ Deeper(b) \in Seq(TreeRows) /\ <<TreeRow(c)>> \in Seq(TreeRows)
           /\ Nodes(Deeper(b)) = Nodes(b) /\ Nodes(<<TreeRow(c)>>) = {c} /\ Nodes(<<>>) = {}
<1> DEFINE r == TreeRow(c)
           d == Deeper(b)
           n == Len(b)
<1>1. r \in TreeRows /\ r.node = c
    BY DEF TreeRow, TreeRows, Node
<1> HIDE DEF r
<1>2. <<r>> \in Seq(TreeRows) /\ Len(<<r>>) = 1 /\ <<r>>[1] = r
    BY <1>1
<1>3. Nodes(<<r>>) = {c}
    BY <1>1, <1>2 DEF Nodes
<1>4. n \in Nat /\ DOMAIN b = 1 .. n /\ \A i \in 1 .. n : b[i] \in TreeRows
    OBVIOUS
<1>5. d = [i \in 1 .. n |-> [b[i] EXCEPT !.depth = @ + 1]]
    BY <1>4 DEF Deeper
<1>6. \A i \in 1 .. n : [b[i] EXCEPT !.depth = @ + 1] \in TreeRows /\ [b[i] EXCEPT !.depth = @ + 1].node = b[i].node
    BY <1>4 DEF TreeRows
<1>7. d \in [1 .. n -> TreeRows] /\ \A i \in 1 .. n : d[i].node = b[i].node
    BY <1>5, <1>6
<1> HIDE DEF d, n
<1>8. d \in Seq(TreeRows) /\ Len(d) = n
    BY <1>4, <1>7
<1>9. Nodes(d) = Nodes(b)
    BY <1>7, <1>8 DEF Nodes, n
<1>10. Nodes(<<>>) = {}
  <2>1. Len(<<>>) = 0
    OBVIOUS
  <2> QED BY <2>1 DEF Nodes
<1> QED BY <1>2, <1>3, <1>8, <1>9, <1>10 DEF d, r

LEMMA RangeOfJoin ==
    ASSUME NEW A, NEW a \in Seq(A), NEW b \in Seq(A)
    PROVE  Range(a \o b) = Range(a) \cup Range(b)
<1> DEFINE w == a \o b
           m == Len(a)
           n == Len(b)
<1>1. m \in Nat /\ n \in Nat /\ DOMAIN a = 1 .. m /\ DOMAIN b = 1 .. n /\ DOMAIN w = 1 .. (m + n)
    OBVIOUS
<1>2. (\A i \in 1 .. m : w[i] = a[i]) /\ \A i \in 1 .. n : w[m + i] = b[i]
    BY <1>1
<1> HIDE DEF w, m, n
<1>3. ASSUME NEW i \in 1 .. (m + n) PROVE w[i] \in Range(a) \cup Range(b)
  <2>1. CASE i \in 1 .. m
    BY <1>1, <1>2, <2>1 DEF Range
  <2>2. CASE i \notin 1 .. m
    <3>1. i - m \in 1 .. n /\ m + (i - m) = i
        BY <1>1, <2>2
    <3> QED BY <1>1, <1>2, <3>1 DEF Range
  <2> QED BY <2>1, <2>2
<1>4. ASSUME NEW i \in 1 .. m PROVE a[i] \in Range(w)
  <2>1. i \in DOMAIN w /\ w[i] = a[i]
    BY <1>1, <1>2
  <2> QED BY <2>1 DEF Range
<1>5. ASSUME NEW i \in 1 .. n PROVE b[i] \in Range(w)
  <2>1. m + i \in DOMAIN w /\ w[m + i] = b[i]
    BY <1>1, <1>2
  <2> QED BY <2>1 DEF Range
<1>6. Range(w) = Range(a) \cup Range(b)
    BY <1>1, <1>3, <1>4, <1>5 DEF Range
<1> QED BY <1>6 DEF w

\* Every entry of a group has its row, whatever the order.
LEMMA NodesOfEntries ==
    ASSUME NEW S \in SUBSET Entry, NEW r \in Seq(Entry),
           NEW sort \in {"recently-used", "title", "last-modified", "group"}
    PROVE  Range(SortEntries(S, sort, r)) = S
<1>1. /\ TitleOrder \in Seq(Entry) /\ ModifiedOrder \in Seq(Entry) /\ UuidOrder \in Seq(Entry)
      /\ Range(TitleOrder) = Entry /\ Range(ModifiedOrder) = Entry /\ Range(UuidOrder) = Entry
    BY WorkspaceAssumption DEF Entry
<1>2. ASSUME NEW o \in Seq(Entry), NEW R PROVE InSet(o, R) \in Seq(Entry) /\ Range(InSet(o, R)) = Range(o) \cap R
  <2>1. FilterFacts(o, R, InSet(o, R))
    BY InSetFacts
  <2>2. InSet(o, R) \in Seq(R \cap Range(o)) /\ Range(InSet(o, R)) = Range(o) \cap R
    BY <2>1 DEF FilterFacts
  <2>3. Range(o) \subseteq Entry
    BY DEF Range
  <2>4. R \cap Range(o) \subseteq Entry
    BY <2>3
  <2>5. InSet(o, R) \in Seq(Entry)
    BY <2>2, <2>4
  <2> QED BY <2>2, <2>5
<1>3. CASE sort = "recently-used"
  <2> DEFINE a == InSet(r, S)
             b == InSet(TitleOrder, S \ Range(r))
  <2>1. SortEntries(S, sort, r) = a \o b
    BY <1>3 DEF SortEntries
  <2>2. a \in Seq(Entry) /\ b \in Seq(Entry) /\ Range(a) = Range(r) \cap S /\ Range(b) = Entry \cap (S \ Range(r))
    BY <1>1, <1>2
  <2> HIDE DEF a, b
  <2>3. Range(a \o b) = Range(a) \cup Range(b)
    BY <2>2, RangeOfJoin
  <2> QED BY <2>1, <2>2, <2>3
<1>4. CASE sort = "title"
  <2>1. SortEntries(S, sort, r) = InSet(TitleOrder, S)
    BY <1>4 DEF SortEntries
  <2>2. Range(InSet(TitleOrder, S)) = Entry \cap S
    BY <1>1, <1>2
  <2> QED BY <2>1, <2>2
<1>5. CASE sort = "last-modified"
  <2>1. SortEntries(S, sort, r) = InSet(ModifiedOrder, S)
    BY <1>5 DEF SortEntries
  <2>2. Range(InSet(ModifiedOrder, S)) = Entry \cap S
    BY <1>1, <1>2
  <2> QED BY <2>1, <2>2
<1>6. CASE sort = "group"
  <2>1. SortEntries(S, sort, r) = InSet(UuidOrder, S)
    BY <1>6 DEF SortEntries
  <2>2. Range(InSet(UuidOrder, S)) = Entry \cap S
    BY <1>1, <1>2
  <2> QED BY <2>1, <2>2
<1> QED BY <1>3, <1>4, <1>5, <1>6

\* What has a row among those of a group: its entries, its subgroups, and what
\* is in the expanded ones.
InGroup(v, t, below, g, x) ==
    \/ x \in Entry /\ v[x] = g
    \/ \E c \in Range(Subgroups[g]) : c # Bin /\ (x = c \/ (c \in t.expanded /\ x \in Nodes(below[c])))

LEMMA WalkNodes ==
    ASSUME NEW v, NEW t \in TreeStates, NEW r \in Seq(Entry), NEW below, Levels(v, below), NEW g \in Group
    PROVE  \A x : x \in Nodes(Walk(v, t, r, below, g)) <=> InGroup(v, t, below, g, x)
<1> DEFINE list == Subgroups[g]
           parts == [i \in DOMAIN list |-> OfGroup(t, below, list[i])]
           D == DOMAIN parts
           n == Len(list)
           S == {e \in Entry : v[e] = g}
           here == SortEntries(S, t.sort, r)
           groups == FoldLeft(LAMBDA acc, rows : acc \o rows, <<>>, parts)
           entries == [i \in DOMAIN here |-> TreeRow(here[i])]
<1>1. Walk(v, t, r, below, g) = groups \o entries
    BY DEF Walk, FoldLeft, MapThenFoldSet
<1>2. groups = Walking!Fold(parts, {}, <<>>, D)
    BY DEF FoldLeft, Walking!Fold, MapThenFoldSet, Walking!MapThenFoldSet, JoinRound
<1>3. n \in Nat /\ DOMAIN list = 1 .. n /\ (\A i \in 1 .. n : list[i] \in Group)
      /\ Range(list) = {list[i] : i \in 1 .. n}
  <2>1. list \in Seq(Group)
    BY WorkspaceAssumption
  <2> HIDE DEF list
  <2> QED BY <2>1 DEF Range
<1>4. D = 1 .. n /\ \A i \in 1 .. n : parts[i] = OfGroup(t, below, list[i]) /\ list[i] \in Group
    BY <1>3
<1>5. S \in SUBSET Entry /\ Range(here) = S /\ here \in Seq(S)
  <2> DEFINE sort == t.sort
  <2>1. sort \in {"recently-used", "title", "last-modified", "group"} /\ S \in SUBSET Entry
    BY DEF TreeStates
  <2>2. here = SortEntries(S, sort, r)
    OBVIOUS
  <2> HIDE DEF S, sort, here
  <2> QED BY <2>1, <2>2, NodesOfEntries, SortedEntries
<1> HIDE DEF groups, D, parts, list, n, here
<1>6. entries \in Seq(TreeRows) /\ Nodes(entries) = S
  <2>1. DOMAIN here = 1 .. Len(here) /\ Len(here) \in Nat /\ \A i \in 1 .. Len(here) : here[i] \in Entry
    BY <1>5
  <2>2. entries = [i \in 1 .. Len(here) |-> TreeRow(here[i])]
    BY <2>1
  <2>3. \A i \in 1 .. Len(here) : TreeRow(here[i]) \in TreeRows /\ TreeRow(here[i]).node = here[i]
    BY <2>1 DEF TreeRow, TreeRows, Node
  <2> DEFINE l == Len(here)
  <2>4. entries \in [1 .. l -> TreeRows] /\ \A i \in 1 .. l : entries[i].node = here[i]
    BY <2>2, <2>3
  <2>5. S = {here[i] : i \in 1 .. l} /\ l \in Nat
    BY <1>5, <2>1 DEF Range
  <2> HIDE DEF entries, l, S
  <2>6. entries \in Seq(TreeRows) /\ Len(entries) = l
    BY <2>4, <2>5
  <2> QED BY <2>4, <2>5, <2>6 DEF Nodes
<1> HIDE DEF entries
<1>7. ASSUME NEW i \in 1 .. n
      PROVE  /\ parts[i] \in Seq(TreeRows)
             /\ \A x : x \in Nodes(parts[i]) <=>
                   list[i] # Bin /\ (x = list[i] \/ (list[i] \in t.expanded /\ x \in Nodes(below[list[i]])))
  <2> DEFINE c == list[i]
             b == below[c]
             one == <<TreeRow(c)>>
             d == Deeper(b)
  <2>1. c \in Group /\ parts[i] = IF c = Bin THEN <<>> ELSE one \o (IF c \in t.expanded THEN d ELSE <<>>)
    BY <1>4, <1>7 DEF OfGroup
  <2>2. b \in Seq(TreeRows)
    BY <2>1 DEF Levels, SoundRows
  <2> HIDE DEF b, c
  <2>3. /\ d \in Seq(TreeRows) /\ one \in Seq(TreeRows)
        /\ Nodes(d) = Nodes(b) /\ Nodes(one) = {c} /\ Nodes(<<>>) = {}
    BY <2>1, <2>2, NodesOfGroup
  <2> HIDE DEF one, d
  <2>4. one \o <<>> = one /\ <<>> \in Seq(TreeRows)
    BY <2>3
  <2>5. one \o d \in Seq(TreeRows) /\ Nodes(one \o d) = Nodes(one) \cup Nodes(d)
    BY <2>3, NodesJoin
  <2>6. CASE c = Bin
    BY <2>1, <2>3, <2>4, <2>6 DEF c
  <2>7. CASE c # Bin /\ c \notin t.expanded
    BY <2>1, <2>3, <2>4, <2>7 DEF c
  <2>8. CASE c # Bin /\ c \in t.expanded
    <3>1. parts[i] = one \o d
        BY <2>1, <2>8
    <3>2. \A x : x \in Nodes(parts[i]) <=> x = c \/ x \in Nodes(b)
        BY <2>3, <2>5, <3>1
    <3> QED BY <2>5, <2>8, <3>1, <3>2 DEF c, b
  <2> QED BY <2>6, <2>7, <2>8
<1>8. Walking!IsFiniteSet(D) /\ Walking!PicksFrom(D) /\ \A i \in 1 .. n : Max(1 .. i) = i
  <2>1. IsFiniteSet(D) /\ (\A s \in SUBSET D : s # {} => Max(s) \in s) /\ \A i \in 1 .. n : Max(1 .. i) = i
    BY <1>3, <1>4, LastPosition
  <2> QED BY <2>1 DEF IsFiniteSet, Walking!IsFiniteSet, Walking!PicksFrom
<1>9. PICK f : Walking!Steps(parts, {}, <<>>, n, D, f)
    BY <1>3, <1>4, <1>8, Walking!FoldByPosition
<1> DEFINE Ok(i) == f[i] \in Seq(TreeRows) /\ \A x : x \in Nodes(f[i]) <=> \E j \in 1 .. i : x \in Nodes(parts[j])
           T == {i \in 0 .. n : Ok(i)}
<1>10. 0 \in T
  <2>1. f[0] = <<>> /\ 1 .. 0 = {} /\ <<>> \in Seq(TreeRows) /\ Len(<<>>) = 0
    BY <1>9 DEF Walking!Steps
  <2>2. \A x : x \notin Nodes(f[0])
    BY <2>1 DEF Nodes
  <2>3. Ok(0) /\ 0 \in 0 .. n
    BY <1>3, <2>1, <2>2
  <2> QED BY <2>3
<1>11. ASSUME NEW i \in 0 .. (n - 1), i \in T PROVE i + 1 \in T
  <2> DEFINE k == i + 1
  <2>1. k \in 1 .. n /\ k - 1 = i /\ k \in 0 .. n /\ 1 .. k = (1 .. i) \cup {k}
    BY <1>3
  <2>2. f[k] = f[i] \o parts[k]
    BY <1>9, <2>1 DEF Walking!Steps, JoinRound
  <2>3. f[i] \in Seq(TreeRows) /\ parts[k] \in Seq(TreeRows) /\ Ok(i)
    BY <1>7, <1>11, <2>1
  <2> HIDE DEF k
  <2>4. f[k] \in Seq(TreeRows) /\ Nodes(f[k]) = Nodes(f[i]) \cup Nodes(parts[k])
    BY <2>2, <2>3, NodesJoin
  <2>5. Ok(k)
    BY <2>1, <2>3, <2>4
  <2> QED BY <2>1, <2>5 DEF k
<1>12. 0 .. n \subseteq T
  <2> HIDE DEF T
  <2> QED BY <1>3, <1>10, <1>11, UpTo
<1>13. Ok(n) /\ f[n] = groups
  <2>1. n \in T
    <3>1. n \in 0 .. n
        BY <1>3
    <3> HIDE DEF T
    <3> QED BY <1>12, <3>1
  <2>2. f[n] = groups
    BY <1>2, <1>9 DEF Walking!Steps
  <2> QED BY <2>1, <2>2
<1>14. Nodes(groups \o entries) = Nodes(groups) \cup S
    BY <1>6, <1>13, NodesJoin
<1>15. \A x : x \in Nodes(groups) <=>
          \E c \in Range(list) : c # Bin /\ (x = c \/ (c \in t.expanded /\ x \in Nodes(below[c])))
  <2> DEFINE Has(x, c) == c # Bin /\ (x = c \/ (c \in t.expanded /\ x \in Nodes(below[c])))
  <2>1. \A i \in 1 .. n : \A x : x \in Nodes(parts[i]) <=> Has(x, list[i])
    BY <1>7
  <2>2. \A x : x \in Nodes(groups) <=> \E i \in 1 .. n : x \in Nodes(parts[i])
    BY <1>13
  <2>3. \A x : (\E c \in Range(list) : Has(x, c)) <=> \E i \in 1 .. n : Has(x, list[i])
    <3> HIDE DEF Has
    <3> QED BY <1>3
  <2>4. \A x : x \in Nodes(groups) <=> \E c \in Range(list) : Has(x, c)
    <3> HIDE DEF Has
    <3> QED BY <2>1, <2>2, <2>3
  <2> QED BY <2>4
<1> QED BY <1>1, <1>14, <1>15 DEF InGroup, list

\* The rows under each group, after the rounds for a part of the groups: they
\* are sound, they only grow, and each round shows what InGroup says.
Shows(v, t, after, s, g, n) ==
    \/ n \in Entry /\ v[n] = g
    \/ \E c \in Range(Subgroups[g]) :
          c # Bin /\ (n = c \/ (c \in t.expanded /\ n \in Nodes(after[s \ {SomeOf(s)}][c])))
Deepens(v, t, after) ==
    /\ \A g \in Group : Nodes(after[{}][g]) = {}
    /\ \A s \in SUBSET Group : s # {} =>
          \A g \in Group : \A n : n \in Nodes(after[s][g]) <=> Shows(v, t, after, s, g, n)
    /\ \A s \in SUBSET Group : s # {} =>
          \A g \in Group : Nodes(after[s \ {SomeOf(s)}][g]) \subseteq Nodes(after[s][g])

LEMMA RowsDeepen ==
    ASSUME NEW v, NEW t \in TreeStates, NEW r \in Seq(Entry)
    PROVE  \E after : Deepens(v, t, after) /\ BuildRows(v, t, r) = after[Group][Root]
<1> DEFINE x == [tree |-> t, recents |-> r]
           base == [g \in Group |-> <<>>]
           G == Group
<1>1. BuildRows(v, t, r) = Descending!Fold(v, x, base, G)[Root]
  <2>1. x.tree = t /\ x.recents = r
    OBVIOUS
  <2> QED BY <2>1 DEF BuildRows, FoldSet, Descending!Fold, MapThenFoldSet, Descending!MapThenFoldSet, LevelRound, SomeOf
<1>2. Levels(v, base) /\ \A g \in G : Nodes(base[g]) = {}
  <2>1. <<>> \in Seq(TreeRows) /\ Len(<<>>) = 0
    OBVIOUS
  <2>2. SoundRows(v, <<>>) /\ Nodes(<<>>) = {}
    BY <2>1 DEF SoundRows, Nodes
  <2> QED BY <2>2 DEF Levels
<1>3. ASSUME NEW y, NEW below, Levels(v, below)
      PROVE  /\ Levels(v, LevelRound(v, x, y, below))
             /\ \A g \in G : \A n : n \in Nodes(LevelRound(v, x, y, below)[g]) <=> InGroup(v, t, below, g, n)
  <2>1. x.tree = t /\ x.recents = r
    OBVIOUS
  <2> DEFINE w == LevelRound(v, x, y, below)
  <2>2. \A g \in Group : w[g] = Walk(v, t, r, below, g)
    BY <2>1 DEF LevelRound
  <2> HIDE DEF w
  <2>3. \A g \in Group : SoundRows(v, w[g])
    BY <1>3, <2>2, WalkIsSound
  <2>4. \A g \in Group : \A n : n \in Nodes(w[g]) <=> InGroup(v, t, below, g, n)
    BY <1>3, <2>2, WalkNodes
  <2> QED BY <2>3, <2>4 DEF Levels, w
<1>4. Descending!IsFiniteSet(G) /\ Descending!PicksFrom(G)
    BY WorkspaceAssumption DEF IsFiniteSet, Descending!IsFiniteSet, Descending!PicksFrom, SomeOf
<1> HIDE DEF x, base, G
<1>5. PICK after : Descending!Unfolds(v, x, base, G, after)
    BY <1>4, Descending!FoldUnfolds
<1>6. /\ after[{}] = base /\ after[G] = Descending!Fold(v, x, base, G)
      /\ \A s \in SUBSET G : s # {} => after[s] = LevelRound(v, x, SomeOf(s), after[s \ {SomeOf(s)}])
    BY <1>5 DEF Descending!Unfolds
<1> DEFINE T == {s \in SUBSET G : Levels(v, after[s])}
<1>7. {} \in T
    BY <1>2, <1>6
<1>8. ASSUME NEW s \in SUBSET G, s # {}, Descending!Rest(s) \in T PROVE s \in T
  <2>1. Levels(v, after[s \ {SomeOf(s)}])
    BY <1>8 DEF Descending!Rest
  <2> QED BY <1>3, <1>6, <1>8, <2>1
<1>9. SUBSET G \subseteq T
  <2> HIDE DEF T
  <2> QED BY <1>4, <1>7, <1>8, Descending!SubsetInduction
<1>10. \A s \in SUBSET G : s # {} =>
         \A g \in G : \A n : n \in Nodes(after[s][g]) <=> Shows(v, t, after, s, g, n)
  <2> SUFFICES ASSUME NEW s \in SUBSET G, s # {}, NEW g \in G, NEW n
               PROVE  n \in Nodes(after[s][g]) <=> Shows(v, t, after, s, g, n)
    OBVIOUS
  <2> DEFINE less == s \ {SomeOf(s)}
             below == after[less]
             w == LevelRound(v, x, SomeOf(s), below)
  <2>1. Levels(v, below) /\ after[s] = w
    BY <1>6, <1>9
  <2>2. n \in Nodes(w[g]) <=> InGroup(v, t, below, g, n)
    <3> HIDE DEF less, below
    <3> QED BY <1>3, <2>1
  <2>3. InGroup(v, t, below, g, n) <=> Shows(v, t, after, s, g, n)
    BY DEF InGroup, Shows
  <2> QED BY <2>1, <2>2, <2>3
<1> DEFINE P == {s \in SUBSET G : s # {} =>
                   \A g \in G : Nodes(after[s \ {SomeOf(s)}][g]) \subseteq Nodes(after[s][g])}
<1>11. {} \in P
    OBVIOUS
<1>12. ASSUME NEW s \in SUBSET G, s # {}, Descending!Rest(s) \in P PROVE s \in P
  <2> DEFINE less == s \ {SomeOf(s)}
  <2>1. less \in P /\ less \in SUBSET G
    BY <1>12 DEF Descending!Rest
  <2>2. CASE less = {}
    BY <1>2, <1>6, <2>2
  <2>3. CASE less # {}
    <3>1. ASSUME NEW g \in G, NEW n \in Nodes(after[less][g]) PROVE n \in Nodes(after[s][g])
      <4>1. Shows(v, t, after, less, g, n)
        BY <1>10, <2>1, <2>3, <3>1
      <4>2. \A c \in G : Nodes(after[less \ {SomeOf(less)}][c]) \subseteq Nodes(after[less][c])
        BY <2>1, <2>3
      <4>3. Range(Subgroups[g]) \subseteq G
        BY WorkspaceAssumption DEF G, Range
      <4>4. Shows(v, t, after, s, g, n)
        BY <4>1, <4>2, <4>3 DEF Shows
      <4> QED BY <1>10, <1>12, <4>4
    <3> QED BY <1>12, <3>1
  <2> QED BY <2>2, <2>3
<1>13. SUBSET G \subseteq P
  <2> HIDE DEF P
  <2> QED BY <1>4, <1>11, <1>12, Descending!SubsetInduction
<1>14. Deepens(v, t, after)
    BY <1>2, <1>6, <1>10, <1>13 DEF Deepens, G
<1>15. BuildRows(v, t, r) = after[Group][Root]
    BY <1>1, <1>6 DEF G
<1> QED BY <1>14, <1>15

\* Where the groups above a node are expanded, and some of them show it but
\* the root does not, another one of them shows it a round later: its entry,
\* or a subgroup that is it or shows it.
HeldBy(v, n) == IF n \in Group THEN n ELSE v[n]
LEMMA OneHigher ==
    ASSUME NEW v, NEW n, HasRow(v, n), NEW U \in SUBSET (Ancestors(v, n) \cup {Root}), Root \notin U
    PROVE  \E p \in (Ancestors(v, n) \cup {Root}) \ U :
              \/ n \in Entry /\ v[n] = p
              \/ \E c \in Range(Subgroups[p]) : c # Bin /\ (n = c \/ (c \in Ancestors(v, n) /\ c \in U))
<1> DEFINE h == HeldBy(v, n)
           A == Ancestors(v, n)
<1>1. /\ h \in Group /\ Bin \notin Above(h) /\ Root \in Group
      /\ n \in Group => n # Root /\ h = n /\ A = Above(h) \ {n}
      /\ n \notin Group => n \in Entry /\ v[n] = h /\ A = Above(h)
    BY WorkspaceAssumption DEF HasRow, HeldBy, Ancestors, Exists, Above
<1>2. h # Root => h \in Above(h)
    BY <1>1 DEF Above
<1> HIDE DEF h, A
<1>3. ASSUME NEW part \in SUBSET Group, Root \in part, part # Group
      PROVE  \E p \in part : \E c \in Range(Subgroups[p]) : c \notin part
    BY <1>3, WorkspaceAssumption
<1>4. \A p \in Group : Range(Subgroups[p]) \subseteq Group
    BY WorkspaceAssumption DEF Range
<1>5. ASSUME NEW p \in Group, NEW c \in Range(Subgroups[p]), c \in Above(h) PROVE p \in Above(h) \cup {Root}
  <2> SUFFICES ASSUME p # Root PROVE p \in Above(h)
    OBVIOUS
  <2>1. ASSUME NEW part \in SUBSET Group, p \in part, Closed(part) PROVE h \in part
    <3>1. c \in part
        BY <2>1 DEF Closed
    <3> QED BY <1>5, <2>1, <3>1 DEF Above
  <2> QED BY <2>1 DEF Above
<1>6. CASE n \in Group
  <2> DEFINE Z == Group \ (U \cup {n})
  <2>1. Z \in SUBSET Group /\ Root \in Z /\ Z # Group
    BY <1>1, <1>6
  <2>2. PICK p \in Z : \E c \in Range(Subgroups[p]) : c \notin Z
    <3> HIDE DEF Z
    <3> QED BY <1>3, <2>1
  <2>3. PICK c \in Range(Subgroups[p]) : c \notin Z
    BY <2>2
  <2>4. p \in Group /\ p \notin U /\ p # n /\ c \in Group /\ (c = n \/ c \in U)
    BY <1>4, <2>2, <2>3
  <2>5. c \in Above(h) /\ (c # n => c \in A)
    BY <1>1, <1>2, <1>6, <2>4 DEF A
  <2>6. p \in A \cup {Root} /\ c # Bin
    BY <1>1, <1>5, <1>6, <2>4, <2>5
  <2> QED BY <2>4, <2>5, <2>6 DEF A
<1>7. CASE n \notin Group /\ h \notin U
  <2>1. h \in A \cup {Root}
    BY <1>1, <1>2, <1>7
  <2> QED BY <1>1, <1>7, <2>1 DEF A
<1>8. CASE n \notin Group /\ h \in U
  <2> DEFINE Z == Group \ U
  <2>1. Z \in SUBSET Group /\ Root \in Z /\ Z # Group
    BY <1>1, <1>8
  <2>2. PICK p \in Z : \E c \in Range(Subgroups[p]) : c \notin Z
    <3> HIDE DEF Z
    <3> QED BY <1>3, <2>1
  <2>3. PICK c \in Range(Subgroups[p]) : c \notin Z
    BY <2>2
  <2>4. p \in Group /\ p \notin U /\ c \in U
    BY <1>4, <2>2, <2>3
  <2>5. c \in Above(h) /\ c \in A
    BY <1>1, <1>8, <2>4 DEF A
  <2>6. p \in A \cup {Root} /\ c # Bin
    BY <1>1, <1>5, <1>8, <2>4, <2>5
  <2> QED BY <2>4, <2>5, <2>6 DEF A
<1> QED BY <1>6, <1>7, <1>8

\* A node whose groups are all expanded has its row: the groups that show it
\* are one more after every round, until the root is one of them.
LEMMA BuildRowsShows ==
    ASSUME NEW v, NEW t \in TreeStates, NEW r \in Seq(Entry), NEW n, HasRow(v, n),
           Ancestors(v, n) \subseteq t.expanded
    PROVE  n \in Nodes(BuildRows(v, t, r))
<1> DEFINE A == Ancestors(v, n)
           G == Group
<1>1. PICK after : Deepens(v, t, after) /\ BuildRows(v, t, r) = after[Group][Root]
    BY RowsDeepen
<1>2. A \subseteq G /\ Root \in G /\ IsFiniteSet(G) /\ A \subseteq t.expanded
    BY AncestorsAreGroups, WorkspaceAssumption
<1> DEFINE U(s) == {a \in A \cup {Root} : n \in Nodes(after[s][a])}
           Counts(s) == Root \in U(s) \/ Cardinality(U(s)) >= Cardinality(s)
           T == {s \in SUBSET G : Counts(s)}
<1>3. \A s : U(s) \subseteq G /\ IsFiniteSet(U(s)) /\ Cardinality(U(s)) \in Nat
    BY <1>2, FS_Subset, FS_CardinalityType
<1>4. {} \in T
  <2>1. Cardinality({}) = 0 /\ Cardinality(U({})) \in Nat
    BY <1>3, FS_EmptySet
  <2> QED BY <2>1
<1>5. ASSUME NEW s \in SUBSET G, s # {}, Descending!Rest(s) \in T PROVE s \in T
  <2> DEFINE one == SomeOf(s)
             less == s \ {one}
  <2>1. less \in T /\ less \in SUBSET G /\ one \in s
    BY <1>5 DEF Descending!Rest, SomeOf
  <2>2. IsFiniteSet(s) /\ Cardinality(less) = Cardinality(s) - 1 /\ Cardinality(s) \in Nat
    <3>1. IsFiniteSet(s)
        BY <1>2, FS_Subset
    <3> HIDE DEF one
    <3> QED BY <2>1, <3>1, FS_RemoveElement, FS_CardinalityType
  <2>3. U(less) \subseteq U(s)
    BY <1>1, <1>2, <1>5 DEF Deepens
  <2>4. CASE Root \in U(less)
    BY <1>5, <2>3, <2>4
  <2>5. CASE Root \notin U(less)
    <3> DEFINE W == U(less)
    <3>1. W \in SUBSET (Ancestors(v, n) \cup {Root}) /\ Root \notin W
        BY <2>5
    <3>2. PICK p \in (A \cup {Root}) \ W :
             \/ n \in Entry /\ v[n] = p
             \/ \E c \in Range(Subgroups[p]) : c # Bin /\ (n = c \/ (c \in A /\ c \in W))
      <4> HIDE DEF W
      <4> QED BY <3>1, OneHigher
    <3>3. Shows(v, t, after, s, p, n)
      <4>1. \A c \in W : n \in Nodes(after[less][c])
        OBVIOUS
      <4> QED BY <1>2, <3>2, <4>1 DEF Shows
    <3>4. p \in U(s) /\ p \notin W
        BY <1>1, <1>2, <1>5, <3>2, <3>3 DEF Deepens
    <3> DEFINE X == U(s)
    <3>5. IsFiniteSet(W) /\ IsFiniteSet(X) /\ W \cup {p} \subseteq X
        BY <1>3, <2>3, <3>4
    <3> HIDE DEF W, X, U
    <3>6. Cardinality(W \cup {p}) = Cardinality(W) + 1 /\ Cardinality(W) \in Nat
        BY <3>4, <3>5, FS_AddElement, FS_CardinalityType
    <3>7. Cardinality(W \cup {p}) <= Cardinality(X) /\ Cardinality(X) \in Nat
        BY <3>5, FS_Subset, FS_CardinalityType
    <3>8. Cardinality(W) >= Cardinality(less)
        BY <2>1, <2>5 DEF W
    <3>9. Cardinality(X) >= Cardinality(s)
        BY <2>2, <3>6, <3>7, <3>8
    <3> QED BY <1>5, <3>9 DEF X
  <2> QED BY <2>4, <2>5
<1>6. Descending!IsFiniteSet(G) /\ Descending!PicksFrom(G)
    BY WorkspaceAssumption DEF IsFiniteSet, Descending!IsFiniteSet, Descending!PicksFrom, SomeOf
<1>7. SUBSET G \subseteq T
  <2> HIDE DEF T
  <2> QED BY <1>4, <1>5, <1>6, Descending!SubsetInduction
<1>8. Counts(G)
    BY <1>7
<1>9. Root \in U(G)
  <2> SUFFICES ASSUME Root \notin U(G) PROVE FALSE
    OBVIOUS
  <2> DEFINE X == U(G)
  <2>1. X \subseteq G /\ X # G /\ Cardinality(X) >= Cardinality(G)
    BY <1>2, <1>3, <1>8
  <2> HIDE DEF X
  <2>2. Cardinality(X) < Cardinality(G) /\ Cardinality(X) \in Nat /\ Cardinality(G) \in Nat
    BY <1>2, <2>1, FS_Subset, FS_CardinalityType
  <2> QED BY <2>1, <2>2
<1> QED BY <1>1, <1>9

\* A node with a row is found.
LEMMA IndexFinds ==
    ASSUME NEW v, NEW rows, SoundRows(v, rows), NEW n \in Nodes(rows)
    PROVE  IndexOf(rows, n) # 0
<1> DEFINE m == 1
           l == Len(rows)
           I == {i \in m .. l : rows[i].node = n}
<1>1. l \in Nat
    BY DEF SoundRows
<1>2. IndexOf(rows, n) = IF I # {} THEN Min(I) ELSE 0
    BY DEF IndexOf, SelectInSeq
<1>3. m \in Int /\ l \in Int /\ I \in SUBSET (m .. l) /\ m = 1 /\ I # {}
    BY <1>1 DEF Nodes
<1>4. Min(I) \in I
  <2> HIDE DEF m, l, I
  <2> QED BY <1>3, Extremes
<1> QED BY <1>2, <1>3, <1>4

\* A jump leads to a row.
LEMMA JumpShows ==
    ASSUME WorkspaceInv, WorkspaceInv', tree'.selected # tree.selected, JumpBack \/ JumpForward \/ JumpToEntry,
           HasRow(place, tree'.selected)
    PROVE  IndexOf(BuildRows(place', tree', recents'), tree'.selected) # 0
<1>1. place' = place /\ \E n : ShowNode(n)
  <2>1. CASE JumpToEntry
    BY <2>1 DEF JumpToEntry
  <2>2. CASE JumpBack \/ JumpForward
    <3>1. \E step : Jump(step)
        BY <2>2 DEF JumpBack, JumpForward
    <3>2. PICK step : Jump(step)
        BY <3>1
    <3> DEFINE n == step.to
    <3>3. n # Nothing /\ JumpToHistory(n) /\ place' = place
        BY <3>2 DEF Jump
    <3> QED BY <3>3 DEF JumpToHistory
  <2> QED BY <2>1, <2>2
<1>2. PICK n : ShowNode(n)
    BY <1>1
<1>3. tree \in TreeStates /\ tree' \in TreeStates /\ recents' \in Seq(Entry)
    BY DEF WorkspaceInv, WorkspaceTypes
<1>4. tree'.selected = n /\ Ancestors(place, n) \subseteq tree'.expanded
    BY <1>2, <1>3 DEF ShowNode, TreeStates
<1> DEFINE t == tree'
           r == recents'
           v == place'
           rows == BuildRows(v, t, r)
<1>5. t \in TreeStates /\ r \in Seq(Entry) /\ HasRow(v, n) /\ Ancestors(v, n) \subseteq t.expanded
    BY <1>1, <1>3, <1>4
<1> HIDE DEF t, r, v
<1>6. n \in Nodes(rows) /\ SoundRows(v, rows)
    BY <1>5, BuildRowsShows, BuildRowsIsSound
<1> HIDE DEF rows
<1>7. IndexOf(rows, n) # 0
    BY <1>6, IndexFinds
<1> QED BY <1>4, <1>7 DEF rows, t, r, v

\* No sequence of moves carries a revealed password to another entry, a jump
\* leads to a row, a step forward undoes the step back before it, an unlock
\* brings back the pins of the entries that are still there, nothing but the end
\* of a sync leaves a pin without its entry, and a read-only session changes no
\* vault.
THEOREM WorkspaceMovesAreFaithful == WorkspaceSpec => MovesAreFaithful
<1>1. WorkspaceInit => WorkspaceInv
    BY WorkspaceInitInv
<1>2. WorkspaceInv /\ [WorkspaceNext]_wsVars => WorkspaceInv'
    BY WorkspaceStepInv
<1>3. WorkspaceInv /\ [WorkspaceNext]_wsVars =>
        [HidesOnNavigation /\ JumpsToVisible /\ ReturnsForward /\ KeepsPinsOverLock
         /\ OnlySyncStrandsPins /\ KeepsReadOnlyVault]_wsVars
  <2> SUFFICES ASSUME WorkspaceInv, [WorkspaceNext]_wsVars
               PROVE  HidesOnNavigation /\ JumpsToVisible /\ ReturnsForward /\ KeepsPinsOverLock
                       /\ OnlySyncStrandsPins /\ KeepsReadOnlyVault
    OBVIOUS
  <2>1. HidesOnNavigation
    BY NavigationHides DEF HidesOnNavigation
  <2>2. JumpsToVisible
    BY <1>2, JumpShows DEF JumpsToVisible
  <2>3. ReturnsForward
    BY ForwardReturns DEF ReturnsForward
  <2>4. KeepsPinsOverLock
    BY UnlockedTabs DEF KeepsPinsOverLock
  <2>5. KeepsReadOnlyVault
    BY ReadOnlyKeepsVault DEF KeepsReadOnlyVault
  <2>6. OnlySyncStrandsPins
    BY PinsAreNotStranded
  <2> QED BY <2>1, <2>2, <2>3, <2>4, <2>5, <2>6
<1> QED BY <1>1, <1>2, <1>3, PTL DEF WorkspaceSpec, MovesAreFaithful
=============================================================================
