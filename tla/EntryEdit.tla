------------------------------ MODULE EntryEdit ------------------------------
(***************************************************************************)
(* An entry's fields and tags from the form or the command line to the     *)
(* file and back: the edit overlay of the TUI with its focus, custom rows  *)
(* and generate panel (falach-tui overlay/edit.rs, overlay/generate.rs,    *)
(* app.rs), `entry add` and `entry edit` (falach-cli), the builder and the *)
(* entry views (falach-core entry/builder.rs, view.rs, types.rs, crud.rs). *)
(*                                                                         *)
(* DATA.  A field value is an opaque text.  Tags and the text of the tags  *)
(* line are sequences of characters, because they are split and joined.    *)
(***************************************************************************)
EXTENDS Naturals, Sequences, SequencesExt, FiniteSets, FiniteSetsExt, Functions

CONSTANTS
    TagText,       \* what may be typed into the tags line
    CliTag,        \* tags given on the command line
    CustomName,    \* names typed into a custom row
    StartEntry,    \* entries of the vault another program has written
    MaxEntries,    \* bound: entries
    MaxKeys,       \* bound: edits of one form
    MaxCommands,   \* bound: forms opened and commands run
    NoForm         \* the overlay is closed

VARIABLES
    inTui,         \* the TUI has the vault open
    mem, disk,     \* the entries, by UUID, in memory and in the file
    form,          \* EditState
    commands,      \* forms opened and commands run so far
    said           \* "saved" or "failed" after Ctrl+S, else "nothing"

editVars == <<inTui, mem, disk, form, commands, said>>

Value(v, p) == [v |-> v, p |-> p]

----------------------------------------------------------------------------
(* EntryView, EntryViewMut                                                 *)

FieldOf(e, n) == IF n \in DOMAIN e.fields THEN e.fields[n].v ELSE ""
SetField(e, n, v, p) == [e EXCEPT !.fields = (n :> Value(v, p)) @@ @]
RemoveField(e, n) == [e EXCEPT !.fields = Restrict(@, DOMAIN @ \ {n})]

\* Tag::from refuses a semicolon; tags of another program with one are not
\* shown.
TagIsValid(t) == ";" \notin Range(t)
TagsOf(e) == SelectSeq(e.tags, TagIsValid)

Dedup(s) == FoldLeft(LAMBDA acc, t : IF t \in Range(acc) THEN acc ELSE Append(acc, t), <<>>, s)

KindOf(e) ==
    IF "otp" \in DOMAIN e.fields THEN "totp"
    ELSE IF \A n \in {"UserName", "Password", "URL"} : FieldOf(e, n) = "" THEN "note" ELSE "credential"

StandardField == {"Title", "UserName", "Password", "URL", "Notes"}
CustomFieldNames(e) == DOMAIN e.fields \ StandardField

----------------------------------------------------------------------------
(* The tags line: joined with spaces, split at spaces and commas.          *)

SplitTags(s, seps) ==
    FoldLeft(LAMBDA acc, x : IF x \in seps THEN Append(acc, <<>>)
                             ELSE [acc EXCEPT ![Len(acc)] = Append(@, x)], <<<<>>>>, s)

JoinTags(ts, sep) ==
    IF ts = <<>> THEN <<>>
    ELSE FoldLeft(LAMBDA acc, t : acc \o <<sep>> \o t, Head(ts), Tail(ts))

TagTokens(raw) == SelectSeq(SplitTags(raw, {" ", ","}), LAMBDA t : t # <<>>)
TagsParse(raw) == \A i \in DOMAIN TagTokens(raw) : TagIsValid(TagTokens(raw)[i])
ParseTags(raw) == Dedup(TagTokens(raw))

\* How the KDBX library writes the tags, and reads them.
ReloadTags(ts) == IF ts = <<>> THEN <<>> ELSE SplitTags(JoinTags(ts, ","), {","})
Reloaded(es) == [id \in DOMAIN es |-> [es[id] EXCEPT !.tags = ReloadTags(@)]]

----------------------------------------------------------------------------
(* EditState                                                               *)

TextField == {"Title", "UserName", "Password", "URL", "Notes", "otp"}
IsOtpField(n) == n = "otp"

\* Faulty variant: a row that was loaded is written back unprotected.
BugLoadedRow(e, n) == [name |-> n, value |-> FieldOf(e, n), p |-> FALSE]

LoadedRow(e, n) == [name |-> n, value |-> FieldOf(e, n), p |-> e.fields[n].p]

\* What of the form is for the properties only: the entry it was opened on, the
\* fields typed into, the number of entries, and whether a save has failed.
Ghost(base) == [base |-> base, touched |-> {}, before |-> Cardinality(DOMAIN mem), failed |-> FALSE]

NewAdd ==
    [isNew |-> TRUE, target |-> 0, kind |-> "credential", text |-> [n \in TextField |-> ""], tags |-> <<>>,
     rows |-> <<>>, original |-> {}, focus |-> 1, gen |-> "closed", keys |-> 0,
     ghost |-> Ghost([fields |-> <<>>, tags |-> <<>>])]

FromEntry(id) ==
    LET e == mem[id]
        own == {n \in CustomFieldNames(e) : ~IsOtpField(n)}
        names == SetToSeq(own)
    IN [NewAdd EXCEPT !.isNew = FALSE, !.target = id, !.kind = KindOf(e),
                      !.text = [n \in TextField |-> IF n = "otp" THEN "" ELSE FieldOf(e, n)],
                      !.tags = JoinTags(TagsOf(e), " "),
                      !.rows = [i \in DOMAIN names |-> LoadedRow(e, names[i])],
                      !.original = own, !.ghost = Ghost(e)]

\* fields: what can have the focus, in order; a row's name and its value.
FormFields(f) ==
    LET plain(s) == [i \in DOMAIN s |-> [on |-> s[i], row |-> 0]]
        rows == FlattenSeq([i \in DOMAIN f.rows |-> <<[on |-> "name", row |-> i], [on |-> "value", row |-> i]>>])
        own == CASE f.kind = "credential" -> <<"UserName", "Password", "URL">>
                 [] f.kind = "totp" -> (IF f.isNew THEN <<"otp">> ELSE <<>>) \o <<"UserName", "URL">>
                 [] f.kind = "note" -> <<>>
    IN plain((IF f.isNew THEN <<"kind">> ELSE <<>>) \o <<"Title">> \o own \o <<"Notes", "tags">>)
       \o rows \o plain(<<"add">>)

Least(a, b) == IF a < b THEN a ELSE b
Clamp(f) == [f EXCEPT !.focus = Least(@, Len(FormFields(f)))]
FocusedAt(f) == FormFields(f)[Least(f.focus, Len(FormFields(f)))]
Focused(f) == FocusedAt(f).on

NextKind == [credential |-> "note", note |-> "totp", totp |-> "credential"]
KindBefore == [credential |-> "totp", totp |-> "note", note |-> "credential"]

\* snapshot: the rows with a name, the later of two with one name.
NameTrimmed(n) == IF n = " n" THEN "n" ELSE n
NamedRows(f) == {i \in DOMAIN f.rows : NameTrimmed(f.rows[i].name) # ""}
LastRows(f) == {i \in NamedRows(f) : \A k \in NamedRows(f) :
                    NameTrimmed(f.rows[k].name) = NameTrimmed(f.rows[i].name) => k <= i}
Rejected(f) ==
    \/ f.text["Title"] = "" \/ ~TagsParse(f.tags)
    \/ \E i \in NamedRows(f) : IsOtpField(NameTrimmed(f.rows[i].name))

WithRows(e, f) == FoldLeft(LAMBDA acc, i : SetField(acc, NameTrimmed(f.rows[i].name), f.rows[i].value, f.rows[i].p),
                           e, SetToSortSeq(LastRows(f), <))

----------------------------------------------------------------------------
(* apply_add and apply_update                                              *)

\* EntryBuilder and populate_entry_from_draft, by kind.
Populated(f) ==
    LET e0 == SetField([fields |-> <<>>, tags |-> ParseTags(f.tags)], "Title", f.text["Title"], FALSE)
        e1 == IF f.kind = "note" THEN e0
              ELSE SetField(SetField(e0, "UserName", f.text["UserName"], FALSE), "URL", f.text["URL"], FALSE)
        e2 == IF f.kind = "credential" THEN SetField(e1, "Password", f.text["Password"], TRUE) ELSE e1
        e3 == SetField(e2, "Notes", f.text["Notes"], FALSE)
        e4 == IF f.kind = "totp" THEN SetField(e3, "otp", f.text["otp"], TRUE) ELSE e3
    IN WithRows(e4, f)

Removed(f) == f.original \ {NameTrimmed(f.rows[i].name) : i \in LastRows(f)}

\* The setters in their order, then the rows, then the removed ones.
Updated(e, f) ==
    LET e0 == SetField(e, "Title", f.text["Title"], FALSE)
        e1 == IF f.kind = "note" THEN e0
              ELSE SetField(SetField(e0, "UserName", f.text["UserName"], FALSE), "URL", f.text["URL"], FALSE)
        e2 == IF f.kind = "credential" THEN SetField(e1, "Password", f.text["Password"], TRUE) ELSE e1
        e3 == [SetField(e2, "Notes", f.text["Notes"], FALSE) EXCEPT !.tags = ParseTags(f.tags)]
    IN FoldLeft(RemoveField, WithRows(e3, f), SetToSeq(Removed(f)))

\* The entry that now is in memory is the form's, whether or not it is saved.
TargetOf(f, id) == IF f.target = 0 THEN id ELSE f.target

----------------------------------------------------------------------------
(* The actions.                                                            *)

EditInit ==
    /\ inTui = FALSE /\ commands = 0 /\ form = NoForm /\ said = "nothing"
    /\ disk \in {(1 :> e) : e \in StartEntry} /\ mem = disk

FreshId == Cardinality(DOMAIN mem) + 1

Unlock ==
    /\ ~inTui /\ inTui' = TRUE
    /\ mem' = Reloaded(disk) /\ said' = "nothing" /\ UNCHANGED <<disk, form, commands>>

LockForm ==
    /\ inTui /\ inTui' = FALSE
    /\ form' = NoForm /\ mem' = disk /\ said' = "nothing" /\ UNCHANGED <<disk, commands>>

OpenAdd ==
    /\ inTui /\ form = NoForm /\ FreshId <= MaxEntries /\ commands < MaxCommands
    /\ form' = NewAdd /\ commands' = commands + 1 /\ said' = "nothing" /\ UNCHANGED <<inTui, mem, disk>>

OpenEdit ==
    /\ inTui /\ form = NoForm /\ commands < MaxCommands
    /\ \E id \in DOMAIN mem : form' = FromEntry(id)
    /\ commands' = commands + 1 /\ said' = "nothing" /\ UNCHANGED <<inTui, mem, disk>>

InForm == inTui /\ form # NoForm
Shows(f) == form' = f /\ said' = "nothing" /\ UNCHANGED <<inTui, mem, disk, commands>>
Touch(f, n) == [f EXCEPT !.keys = @ + 1, !.ghost.touched = @ \cup {n}]
MayType == InForm /\ form.gen = "closed" /\ form.keys < MaxKeys

\* Tab, Shift+Tab and Enter on most fields.
MoveFocus ==
    /\ InForm /\ form.gen = "closed"
    /\ LET n == Len(FormFields(form))
       IN Shows([form EXCEPT !.focus = (@ % n) + 1]) \/ Shows([form EXCEPT !.focus = ((@ + n - 2) % n) + 1])

CycleKind ==
    /\ MayType /\ Focused(form) = "kind"
    /\ \E next \in {NextKind, KindBefore} : Shows(Clamp([Touch(form, "kind") EXCEPT !.kind = next[form.kind]]))

TypeText ==
    /\ MayType /\ Focused(form) \in TextField
    /\ \E v \in {"", "typed"} : Shows([Touch(form, Focused(form)) EXCEPT !.text[Focused(form)] = v])

TypeTags ==
    /\ MayType /\ Focused(form) = "tags"
    /\ \E raw \in TagText : Shows([Touch(form, "tags") EXCEPT !.tags = raw])

AddRow ==
    /\ MayType /\ Focused(form) = "add"
    /\ LET f == [Touch(form, "rows") EXCEPT !.rows = Append(@, [name |-> "", value |-> "", p |-> FALSE])]
       IN Shows([f EXCEPT !.focus = Len(FormFields(f)) - 2])

RowAt(i) == FocusedAt(form).row = i

\* Ctrl+D
RemoveRow ==
    /\ MayType
    /\ \E i \in DOMAIN form.rows :
           RowAt(i) /\ Shows(Clamp([Touch(Touch(form, form.rows[i].name), "rows") EXCEPT !.rows = RemoveAt(@, i)]))

TypeRow ==
    /\ MayType
    /\ \E i \in DOMAIN form.rows :
        \/ /\ RowAt(i) /\ Focused(form) = "name"
           /\ \E n \in CustomName :
                 Shows([Touch(Touch(form, form.rows[i].name), n) EXCEPT !.rows[i].name = n])
        \/ /\ RowAt(i) /\ Focused(form) = "value"
           /\ Shows([Touch(form, form.rows[i].name) EXCEPT !.rows[i].value = "typed"])

\* Ctrl+G; the panel shows a preview, or an error and no preview while every
\* class is switched off.
OpenGenerate ==
    MayType /\ form.kind = "credential" /\ Shows([form EXCEPT !.gen = "preview", !.keys = @ + 1])
GenerateKey ==
    /\ InForm /\ form.gen # "closed" /\ form.keys < MaxKeys
    /\ \E g \in {"preview", "error"} : Shows([form EXCEPT !.gen = g, !.keys = @ + 1])
AcceptGenerated ==
    /\ InForm /\ form.gen # "closed"
    /\ Shows([Touch(form, "Password") EXCEPT
                 !.gen = "closed", !.text["Password"] = IF form.gen = "preview" THEN "generated" ELSE ""])

\* Esc: out of the panel, or out of the form.
EscapeForm ==
    /\ InForm
    /\ IF form.gen # "closed" THEN Shows([form EXCEPT !.gen = "closed"]) ELSE Shows(NoForm)

\* Ctrl+S: the form's values into memory, then the file.  An otpauth URI that
\* does not parse is refused (EntryBuilder::totp).
PerformSave ==
    /\ InForm /\ form.gen = "closed"
    /\ IF Rejected(form) \/ (form.target = 0 /\ form.kind = "totp" /\ form.text["otp"] = "")
       THEN said' = "failed" /\ UNCHANGED <<inTui, mem, disk, form, commands>>
       ELSE LET id == IF form.target = 0 THEN FreshId ELSE form.target
                e == IF form.target = 0 THEN Populated(form) ELSE Updated(mem[id], form)
            IN /\ mem' = (id :> e) @@ mem
               /\ \/ disk' = mem' /\ form' = NoForm /\ said' = "saved"
                  \/ /\ UNCHANGED disk /\ said' = "failed" /\ form.keys < MaxKeys
                     /\ form' = [form EXCEPT !.target = TargetOf(form, id), !.keys = @ + 1,
                                             !.ghost.failed = TRUE]
               /\ UNCHANGED <<inTui, commands>>

\* `falach entry add`, `falach entry edit`.
CliWrites(id, e) ==
    /\ ~inTui /\ commands < MaxCommands /\ commands' = commands + 1
    /\ disk' = (id :> e) @@ Reloaded(disk) /\ mem' = disk' /\ UNCHANGED <<inTui, form, said>>
RunAdd ==
    \E t \in CliTag :
        /\ TagIsValid(t) /\ FreshId <= MaxEntries
        /\ CliWrites(FreshId, [fields |-> ("Title" :> Value("cli", FALSE)), tags |-> <<t>>])
RunEdit ==
    \E id \in DOMAIN disk, t \in CliTag :
        LET e == Reloaded(disk)[id]
        IN \/ TagIsValid(t) /\ CliWrites(id, [e EXCEPT !.tags = IF t \in Range(@) THEN @ ELSE Append(@, t)])
           \/ TagIsValid(t) /\ CliWrites(id, [e EXCEPT !.tags = SelectSeq(@, LAMBDA x : x # t)])
           \/ CliWrites(id, SetField(e, "Password", "cli", TRUE))

EditNext ==
    \/ Unlock \/ LockForm \/ OpenAdd \/ OpenEdit \/ MoveFocus \/ CycleKind \/ TypeText \/ TypeTags
    \/ AddRow \/ RemoveRow \/ TypeRow \/ OpenGenerate \/ GenerateKey \/ AcceptGenerated \/ EscapeForm
    \/ PerformSave \/ RunAdd \/ RunEdit

EditSpec == EditInit /\ [][EditNext]_editVars

----------------------------------------------------------------------------
(* Properties.                                                             *)

\* One form makes one entry, however often its save failed and was tried again.
OneEntryPerForm == form # NoForm => Cardinality(DOMAIN mem) <= form.ghost.before + (IF form.isNew THEN 1 ELSE 0)

\* The names the form can show as they are, and the tags it can.
Expressible(e) == /\ " n" \notin DOMAIN e.fields
                  /\ \A i \in DOMAIN e.tags : Range(e.tags[i]) \cap {" ", ",", ";"} = {}

\* The setters of these store them unprotected, typed into or not, so that an
\* edit takes the protection from one that another program has protected.
PlainField == {"Title", "UserName", "URL", "Notes"}

\* Saving an edit leaves alone what was not typed into: the value of every
\* field, the protection of the password, the one-time secret and the custom
\* fields, whether or not the form shows them, and the tags.
KeepsUntouched ==
        said' = "saved" /\ ~form.isNew /\ Expressible(form.ghost.base) =>
        LET old == form.ghost.base
            new == mem'[form.target]
        IN /\ \A n \in DOMAIN old.fields \ form.ghost.touched :
                  /\ n \in DOMAIN new.fields /\ new.fields[n].v = old.fields[n].v
                  /\ old.fields[n].p /\ n \notin PlainField => new.fields[n].p
           /\ DOMAIN new.fields \subseteq DOMAIN old.fields \cup form.ghost.touched \cup StandardField \cup {"n"}
           /\ "tags" \notin form.ghost.touched => new.tags = old.tags

\* What a successful Ctrl+S reports as saved is what the form shows, unless a
\* save of the same form failed before.
SavesTheForm ==
        said' = "saved" /\ ~form.ghost.failed =>
        LET id == IF form.target = 0 THEN FreshId ELSE form.target
            own == {NameTrimmed(form.rows[i].name) : i \in NamedRows(form)}
        IN /\ \A n \in {x.on : x \in Range(FormFields(form))} \cap (TextField \ own) : FieldOf(mem'[id], n) = form.text[n]
           /\ \A i \in LastRows(form) : FieldOf(mem'[id], NameTrimmed(form.rows[i].name)) = form.rows[i].value
           /\ CustomFieldNames(mem'[id]) \subseteq own \cup {"otp"}

\* A save is faithful to the form, however it was filled in and however often
\* it failed: it writes what the form shows into its one entry and leaves the
\* rest of the entry alone (perform_save, update_entry).
SaveIsFaithful == [][KeepsUntouched /\ SavesTheForm /\ OneEntryPerForm']_editVars
=============================================================================
