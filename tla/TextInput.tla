------------------------------ MODULE TextInput ------------------------------
(***************************************************************************)
(* The text fields of the edit form (falach-tui widgets/text_area.rs,      *)
(* widgets/password_input.rs): lines of UTF-8 text and a cursor that is a  *)
(* byte offset, moved and edited by keys.  A password field is the same    *)
(* with a single line.                                                     *)
(*                                                                         *)
(* DATA.  A character is one of Char; "e" with an accent takes two bytes.  *)
(***************************************************************************)
EXTENDS Naturals, Sequences, SequencesExt, FiniteSets, FiniteSetsExt

CONSTANTS
    InputChar,    \* characters typed
    Wide,         \* the ones of two bytes
    Seeds,        \* texts a field starts with: sequences of lines
    MaxText,      \* bound: characters and line ends of a text
    TextWidget    \* the widgets: "area" and "password"

ASSUME TextInputAssumption == Wide \subseteq InputChar /\ MaxText \in Nat

VARIABLES
    widget,       \* a member of TextWidget
    lines,        \* the lines, each a sequence of characters
    row, col      \* line of the cursor, and its byte offset in that line

textVars == <<widget, lines, row, col>>

LenUtf8(c) == IF c \in Wide THEN 2 ELSE 1
LenBytes(s) == FoldLeft(LAMBDA acc, c : acc + LenUtf8(c), 0, s)

\* The byte offsets at which a character of s begins, and its end.
Boundaries(s) == {LenBytes(SubSeq(s, 1, k)) : k \in 0..Len(s)}

\* The characters before the byte offset.
CharsBefore(s, byte) == CHOOSE k \in 0..Len(s) : LenBytes(SubSeq(s, 1, k)) = byte

PrevBoundary(s, byte) == Max({b \in Boundaries(s) : b < byte})
NextBoundary(s, byte) == Min({b \in Boundaries(s) : b > byte})

\* Faulty variant: the offset is only kept inside the line.
BugFloorBoundary(s, byte) == IF byte < LenBytes(s) THEN byte ELSE LenBytes(s)

FloorBoundary(s, byte) == Max({b \in Boundaries(s) : b <= byte})

\* from_str, with_value: the cursor is at the end.
TextInit ==
    /\ widget \in TextWidget
    /\ lines \in {s \in Seeds : widget = "password" => Len(s) = 1}
    /\ row = Len(lines) /\ col = LenBytes(lines[Len(lines)])

Line == lines[row]
TextSize == FoldLeft(LAMBDA acc, s : acc + Len(s) + 1, 0, lines)

----------------------------------------------------------------------------
(* on_key                                                                  *)

InsertChar(c) ==
    LET k == CharsBefore(Line, col)
    IN /\ TextSize < MaxText
       /\ lines' = [lines EXCEPT ![row] = InsertAt(@, k + 1, c)]
       /\ col' = col + LenUtf8(c) /\ UNCHANGED <<widget, row>>

SplitLine ==
    LET k == CharsBefore(Line, col)
    IN /\ widget = "area" /\ TextSize < MaxText
       /\ lines' = InsertAt([lines EXCEPT ![row] = SubSeq(Line, 1, k)], row + 1, SubSeq(Line, k + 1, Len(Line)))
       /\ row' = row + 1 /\ col' = 0 /\ UNCHANGED widget

\* The line goes to the end of the one above, the cursor where they meet.
MergedCol(above, current) == LenBytes(above)

BackspaceKey ==
    /\ UNCHANGED widget
    /\ \/ /\ col > 0 /\ UNCHANGED row
          /\ col' = PrevBoundary(Line, col)
          /\ lines' = [lines EXCEPT ![row] = RemoveAt(@, CharsBefore(Line, col))]
       \/ /\ col = 0 /\ row > 1
          /\ row' = row - 1 /\ col' = MergedCol(lines[row - 1], Line)
          /\ lines' = RemoveAt([lines EXCEPT ![row - 1] = @ \o Line], row)

MoveLeft ==
    /\ UNCHANGED <<widget, lines>>
    /\ \/ col > 0 /\ col' = PrevBoundary(Line, col) /\ UNCHANGED row
       \/ col = 0 /\ row > 1 /\ row' = row - 1 /\ col' = LenBytes(lines[row - 1])

MoveRight ==
    /\ UNCHANGED <<widget, lines>>
    /\ \/ col < LenBytes(Line) /\ col' = NextBoundary(Line, col) /\ UNCHANGED row
       \/ col = LenBytes(Line) /\ row < Len(lines) /\ row' = row + 1 /\ col' = 0

\* move_up, move_down: the byte offset is kept, and moved back to a boundary.
MoveLine ==
    /\ widget = "area" /\ UNCHANGED <<widget, lines>>
    /\ \E to \in {row - 1, row + 1} \cap DOMAIN lines :
           row' = to /\ col' = FloorBoundary(lines[to], col)

TextNext ==
    \/ \E c \in InputChar : InsertChar(c)
    \/ SplitLine \/ BackspaceKey \/ MoveLeft \/ MoveRight \/ MoveLine

TextSpec == TextInit /\ [][TextNext]_textVars

----------------------------------------------------------------------------
(* Properties.                                                             *)

\* The cursor is always between two characters of a line that exists, whatever
\* the widths of the characters above and below: slicing a string anywhere
\* else panics.
CursorOnBoundary == row \in DOMAIN lines /\ col \in Boundaries(Line)

\* The text as one sequence, and the number of characters before the cursor.
FlatText == FoldLeft(LAMBDA acc, s : IF acc = <<"first">> THEN s ELSE acc \o <<"newline">> \o s, <<"first">>, lines)
FlatCursor == FoldLeft(LAMBDA acc, s : acc + Len(s) + 1, 0, SubSeq(lines, 1, row - 1)) + CharsBefore(Line, col)

\* A key changes the text at the cursor only: one character or line end more
\* before it, or the one before it less, and the cursor stays with it, between
\* two characters.
EditsAtCursor ==
    [][ /\ CursorOnBoundary'
        /\ \/ FlatText' = FlatText
           \/ /\ FlatCursor' = FlatCursor + 1
              /\ FlatText' = InsertAt(FlatText, FlatCursor + 1, FlatText'[FlatCursor + 1])
           \/ FlatCursor' = FlatCursor - 1 /\ FlatText' = RemoveAt(FlatText, FlatCursor) ]_textVars
=============================================================================
