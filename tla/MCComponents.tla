---------------------------- MODULE MCComponents ----------------------------
(* One run for the safety of the components a front end is made of: auto-   *)
(* lock settings, the S3 client, its targets and credentials, generators    *)
(* and one-time passwords; text fields, the entry form, the workspace, the  *)
(* CLI's commands, preferences and themes, the terminal, and the screens.   *)
(* They share no variable, so a behaviour moves one of them, named by part, *)
(* and the run checks each by itself; the others keep one initial value.    *)
EXTENDS LockSettings, S3Client, S3Target, Credentials, Genpw, Totp,
        TextInput, EntryEdit, Workspace, Cli, UserPrefs, Terminal, Screens, TLC

CONSTANTS A, B, p1, p2, pw1, pw2, ent1, ent2, ent3

Cycles == <<1, 3>>

-----------------------------------------------------------------------------
(* S3 targets: aliases of one object, an IPv6 host, keys with characters    *)
(* that a signature encodes, and targets configure_remote refuses.          *)

Endpoint(s, h, port, u, b) ==
    [scheme |-> s, host |-> h, port |-> port, user |-> u, path |-> FALSE, bracket |-> b]
Input(ep, b, k, style) == [ep |-> ep, bucket |-> b, key |-> k, region |-> "r", pathStyle |-> style]

Minio == Endpoint("https", "minio", "", FALSE, "none")
Inputs == {
    Input(NoEp, "b", <<"a">>, FALSE), Input(Minio, "b", <<"a">>, FALSE),
    Input(Endpoint("HTTPS", "MINIO", "", FALSE, "none"), "b", <<"a">>, TRUE),
    Input(Endpoint("http", "minio", "", FALSE, "none"), "b", <<"a", " ">>, TRUE),
    Input(Minio, "b.dot", <<"/", "a", "/", "+">>, FALSE),
    Input(Endpoint("https", "::1", "9000", FALSE, "closed"), "b", <<"a">>, FALSE),
    Input(Endpoint("https", "minio", "", TRUE, "none"), "b", <<"a">>, FALSE),
    Input(Endpoint("ftp", "minio", "", FALSE, "none"), "b", <<"a">>, FALSE),
    Input(Minio, "b", <<" ">>, FALSE)}

-----------------------------------------------------------------------------
(* otpauth URIs: labels with escapes, every two parameters and a third one. *)

Labels == UNION {[1..k -> {"%", "2", "6", "F", "/"}] : k \in 0..3}
Params == {
    <<"secret", "=", "b", "2">>, <<"secret", "=", "b", "=">>, <<"secret">>,
    <<"digits", "=", "6">>, <<"digits", "=", "1", "1">>, <<"digits", "=", "1", "0">>,
    <<"period", "=", "3">>, <<"period", "=", "0">>,
    <<"issuer", "=", "o", "%", "2", "6">>, <<"issuer", "=", "%">>,
    <<"algorithm", "=", "SHA1">>, <<"algorithm", "=", "SHA256">>, <<"other">>}
UriTexts ==
    {<<"otpauth://", "totp", "/">> \o l \o <<"?", "secret", "=", "b", "2">> : l \in Labels}
    \cup {<<"otpauth://", "totp", "/", "o", "?">> \o p \o <<"&">> \o q \o <<"&">> \o r :
             p \in Params, q \in Params,
             r \in {<<"secret", "=", "b", "2">>, <<"digits", "=", "1", "0">>, <<"period", "=", "3">>, <<>>}}
    \cup {<<"otpauth://", "hotp", "/", "o", "?", "secret", "=", "b", "2">>,
           <<"otpauth://", "totp">>, <<"totp">>, <<>>}

-----------------------------------------------------------------------------
(* Texts with a two-byte character, and entries with protected fields, a    *)
(* field name with a space, and tags of one and of two words.               *)

SeedTexts == {<<<<>>>>, <<<<"a", "e">>>>, <<<<"e", "e">>, <<"a">>>>}

FieldValue(v, p) == [v |-> v, p |-> p]
StartEntries == {
    [fields |-> ("Title" :> FieldValue("t", FALSE)) @@ ("UserName" :> FieldValue("u", TRUE))
                @@ ("Password" :> FieldValue("pw", TRUE))
                @@ ("otp" :> FieldValue("uri", TRUE)) @@ ("n" :> FieldValue("s", TRUE)),
     tags |-> <<<<"w">>>>],
    [fields |-> ("Title" :> FieldValue("t", FALSE)) @@ ("UserName" :> FieldValue("u", FALSE))
                @@ (" n" :> FieldValue("s", TRUE)),
     tags |-> <<<<"w", " ", "x">>>>]}
TagTexts == {<<>>, <<"w", " ", "x">>, <<"w", ";">>}
CliTags == {<<"w">>, <<"x">>, <<"w", ";">>}

-----------------------------------------------------------------------------
(* A workspace with two groups, one of them the bin, and three entries, of  *)
(* which the third is not there yet.                                        *)

ByTitle == <<ent1, ent2, ent3>>
ByModified == <<ent3, ent2, ent1>>
ByUuid == <<ent2, ent1, ent3>>
Tree == [root |-> <<"bin", "g">>, g |-> <<>>, bin |-> <<>>]
Places == (ent1 :> "g") @@ (ent2 :> "root") @@ (ent3 :> "unborn")

-----------------------------------------------------------------------------
(* Command lines of the CLI, and the vault they work on.                    *)

NoOptions == [verb |-> "", json |-> FALSE, vault |-> "v", uuid |-> Nobody, title |-> "", tags |-> {},
          password |-> "none", copy |-> FALSE, show |-> FALSE, totp |-> FALSE, permanent |-> FALSE,
          expired |-> FALSE, offset |-> 0, limit |-> 9, recycled |-> FALSE,
          scope |-> [kind |-> "none", name |-> ""], shell |-> TRUE]
With(v, f) ==
    [x \in DOMAIN NoOptions |-> IF x = "verb" THEN v ELSE IF x \in DOMAIN f THEN f[x] ELSE NoOptions[x]]
Invocations == {
    With("add", [title |-> "a", json |-> TRUE, password |-> "stdin"]),
    With("add", [title |-> "b", password |-> "generate", tags |-> {"bad"}]),
    With("edit", [uuid |-> "e1", tags |-> {"t"}, password |-> "stdin", json |-> TRUE]),
    With("edit", [uuid |-> "e2", tags |-> {"t", "bad"}]),
    With("rm", [uuid |-> "e1"]), With("rm", [uuid |-> "e1", permanent |-> TRUE, json |-> TRUE]),
    With("get", [uuid |-> "e1", copy |-> TRUE, json |-> TRUE]),
    With("get", [title |-> "a", totp |-> TRUE, json |-> TRUE]),
    With("get", [uuid |-> "bad"]), With("get", <<>>),
    With("get", [title |-> "a", copy |-> TRUE, show |-> TRUE]),
    With("list", [limit |-> 1]), With("list", [limit |-> 1, offset |-> 1]),
    With("list", [tags |-> {"t"}, expired |-> TRUE, offset |-> 3]),
    With("search", [title |-> "a", limit |-> 1, scope |-> [kind |-> "group", name |-> "g"]]),
    With("search", [title |-> "a", recycled |-> TRUE, scope |-> [kind |-> "tag", name |-> "t"]]),
    With("search", [title |-> "a", json |-> TRUE, scope |-> [kind |-> "group", name |-> "bin"]]),
    With("search", [title |-> "a", scope |-> [kind |-> "other", name |-> ""]]),
    With("gen", [copy |-> TRUE, json |-> TRUE]), With("gen", [show |-> TRUE]),
    With("sync", [vault |-> "", json |-> TRUE]), With("sync", [vault |-> "w"]), With("sync", <<>>),
    With("keys", [json |-> TRUE]), With("ssh", [json |-> TRUE]),
    With("completions", [shell |-> FALSE]), With("completions", <<>>)}
Row(i, t, e, g, ts) ==
    [id |-> i, title |-> t, tags |-> ts, expired |-> e, group |-> g, by |-> Nobody]
CliRows == {Row("e1", "a", FALSE, 1, {}), Row("e2", "b", FALSE, 1, {"t"}), Row("e3", "c", TRUE, 2, {"t"})}
Groups == <<"g", "bin", "d", "d">>

-----------------------------------------------------------------------------
(* Launches of two TUI sessions, and files written by hand.                 *)

Flag(f) == [flag |-> f, inline |-> Unset]
Option(f, v) == [flag |-> f, inline |-> v]
LaunchOf(l, e) == [line |-> l, env |-> e]
Env(o, c, b) ==
    [theme_override |-> o, no_color |-> FALSE, term |-> Unset, colorterm |-> c, colorfgbg |-> b]
LaunchesOf == p1 :> {
        LaunchOf(<<Flag("--no-mouse"), Option("--theme", "slate")>>, Env("accessible", "truecolor", 15)),
        LaunchOf(<<Flag("--theme"), Flag("mine"), Flag("--read-only"), Option("--vault", "v1")>>, BlankEnv),
        LaunchOf(<<Option("--dump-keys", "json"), Flag("--config")>>, BlankEnv),
        LaunchOf(<<Option("--read-only", "x")>>, BlankEnv), LaunchOf(<<Flag("--help")>>, BlankEnv),
        LaunchOf(<<Flag("--vault"), Flag("--read-only")>>, BlankEnv)}
    @@ p2 :> {
        LaunchOf(<<Option("--theme", "slate")>>, Env(Unset, "truecolor", 15)),
        LaunchOf(<<>>, Env(Unset, "truecolor", 15)),
        LaunchOf(<<Flag("--dump-keys")>>, BlankEnv)}
HandWritten(k, c, x) == [kind |-> k, conf |-> c, extra |-> x]
ConfigFiles == {
    AbsentCfg, HandWritten("garbage", DefaultConf, FALSE),
    HandWritten("toml", [DefaultConf EXCEPT !.keymap = "patch", !.dark = "mine", !.mode = "dark"], TRUE),
    HandWritten("toml", [DefaultConf EXCEPT !.ratio = 10, !.scope = "everything"], FALSE)}
NoPins == [v \in RegisteredVaults |-> Unset]
UiConfigs == {[kind |-> "toml", pins |-> NoPins, extra |-> TRUE],
              [kind |-> "garbage", pins |-> NoPins, extra |-> FALSE]}
ThemeFiles == <<
    [name |-> "mine", readable |-> TRUE,
     patch |-> [accent |-> "#rrggbb", nonsense |-> "red", muted |-> "no colour"]],
    [name |-> "torn", readable |-> FALSE, patch |-> <<>>]>>

-----------------------------------------------------------------------------
(* More results than the smallest search modal has rows, titles longer than *)
(* its column with matches at either end, in one piece and far apart, and   *)
(* breadcrumbs of narrow and wide characters.                               *)

FoundItems == <<"i01", "i02", "i03", "i04", "i05", "i06", "i07", "i08", "i09", "i10", "i11", "i12">>
CardOf(g, ts, f, n) == [group |-> g, tags |-> ts, title |-> 40, fields |-> f, versions |-> n]
Cards == [i \in Range(FoundItems) |->
    CASE i = "i01" -> CardOf("g", <<"t">>, {"username", "password", "notes", "seed", "protected", "plain"}, 2)
      [] i = "i02" -> CardOf("root", <<>>, {"url", "tags", "attachments"}, 0)
      [] OTHER -> CardOf("root", <<>>, {"password"}, 0)]
HitOf(i, m) == [item |-> i, marks |-> m]
HitsOf == [q \in {"", "many", "few", "nothing"} |->
    CASE q = "" -> [k \in 1..12 |-> HitOf(FoundItems[k], {})]
      [] q = "many" -> [k \in 1..12 |-> HitOf(FoundItems[k], CASE k < 4 -> {k - 1} [] k < 8 -> 34 .. 30 + k
                                                             [] k < 10 -> 17 .. 20 [] OTHER -> {0, 39})]
      [] q = "few" -> <<HitOf("i01", {20}), HitOf("i12", 6 .. 28)>>
      [] q = "nothing" -> <<>>]
Terminals == {[w |-> 60, h |-> 15], [w |-> 60, h |-> 16], [w |-> 100, h |-> 25]}
TreeOf == <<"i01", "i02">>
Recently == {<<>>, <<"i12", "i01">>}
Names == {<<>>, <<1, 1, 1, 1>>, <<2, 2>>, <<1, 2, 1>>, <<2>>}
PartsOf == [1..2 -> Names] \cup [1..3 -> Names] \cup {<<<<1, 1, 1>>>>}

-----------------------------------------------------------------------------
VARIABLE part

tools == <<s3Vars, targetVars, credVars, genVars, totpVars>>
views == <<textVars, editVars, wsVars, prefVars, termVars, screenVars>>
allVars == <<settingVars, tools, views, cliVars, part>>

CredRest ==
    /\ ini = NoValue /\ vars = {} /\ source = NoValue /\ role = NoValue
    /\ byCli = FALSE /\ step = "idle" /\ token = FALSE /\ asked = NoValue
    /\ outcome = "none" /\ found = NotFound /\ nResolves = 0

GenRest ==
    /\ gen = "passphrase" /\ classes = {} /\ length = 0 /\ noAmbiguous = FALSE
    /\ phase = "validate" /\ out = <<>> /\ at = 1 /\ drawn = 0

SearchRest ==
    /\ term = [w |-> 60, h |-> 16] /\ used = <<>> /\ conf = [scope |-> "all", enter |-> "copy"]
CrumbRest == crumb = [parts |-> <<<<1, 1, 1>>>>, width |-> 0]
ScreenRest ==
    /\ SearchRest /\ CrumbRest
    /\ node = "g" /\ focus = "tree" /\ scrolled = 0 /\ shows = FALSE
    /\ overlay = NoOverlay /\ acted = NoAct /\ viewAtOpen = SavedView

CliRest ==
    /\ cliFile = CliRows /\ cliLock = [p \in CliProc |-> "none"]
    /\ cliJob = [p \in CliProc |-> NewJob(With("ssh", <<>>))]
    /\ cliBoard = Nobody /\ cliFaults = 0

MCInit ==
    /\ part \in {"settings", "s3", "target", "credentials", "generate", "totp",
                 "text", "edit", "workspace", "cli", "prefs", "terminal", "screens", "breadcrumb"}
    /\ SettingsInit
    /\ S3Init /\ (part # "s3" => backend = [enforce |-> TRUE, missing |-> 404])
    /\ TargetInit /\ (part # "target" => enforcing = {})
    /\ IF part = "credentials" THEN CredInit /\ (ini # NoValue => source = NoValue) ELSE CredRest
    /\ IF part = "generate" THEN GenInit ELSE GenRest
    /\ IF part = "totp" THEN TotpInit ELSE uri = <<>> /\ now = -1 /\ shown = NoCode
    /\ TextInit /\ (part # "text" => widget = "area" /\ lines = <<<<>>>>)
    /\ EditInit /\ (part # "edit" => disk[1].tags = <<<<"w">>>>)
    /\ WorkspaceInit /\ (part # "workspace" => ~readOnly)
    /\ IF part = "cli" THEN CliInit /\ Ask(p2).verb \in {"add", "edit", "rm"} ELSE CliRest
    /\ PrefInit /\ uiFile.kind = (IF cfgFile.kind = "garbage" THEN "garbage" ELSE "toml")
    /\ (part # "prefs" => cfgFile = AbsentCfg)
    /\ TermInit /\ (part # "terminal" => isTty /\ termJob.prog = "unlock")
    /\ CASE part = "screens" -> /\ CrumbRest /\ ScreenInit /\ term.h = 16
                              /\ (conf.enter = "open") = (conf.scope = "group")
                              /\ (used = <<>>) = (conf.scope = "group") /\ conf.scope # "all"
         [] part = "breadcrumb" -> SearchRest /\ ScreenInit
         [] OTHER -> ScreenRest

MCNext ==
    /\ UNCHANGED part
    /\ \/ part = "settings" /\ SettingsNext /\ UNCHANGED <<tools, views, cliVars>>
       \/ part = "s3" /\ S3Next
          /\ UNCHANGED <<settingVars, targetVars, credVars, genVars, totpVars, views, cliVars>>
       \/ part = "target" /\ TargetNext
          /\ UNCHANGED <<settingVars, s3Vars, credVars, genVars, totpVars, views, cliVars>>
       \/ part = "credentials" /\ CredNext
          /\ UNCHANGED <<settingVars, s3Vars, targetVars, genVars, totpVars, views, cliVars>>
       \/ part = "generate" /\ GenNext
          /\ UNCHANGED <<settingVars, s3Vars, targetVars, credVars, totpVars, views, cliVars>>
       \/ part = "totp" /\ TotpNext
          /\ UNCHANGED <<settingVars, s3Vars, targetVars, credVars, genVars, views, cliVars>>
       \/ part = "text" /\ TextNext
          /\ UNCHANGED <<settingVars, tools, editVars, wsVars, prefVars, termVars, screenVars, cliVars>>
       \/ part = "edit" /\ EditNext
          /\ UNCHANGED <<settingVars, tools, textVars, wsVars, prefVars, termVars, screenVars, cliVars>>
       \/ part = "workspace" /\ WorkspaceNext
          /\ UNCHANGED <<settingVars, tools, textVars, editVars, prefVars, termVars, screenVars, cliVars>>
       \/ part = "prefs" /\ PrefNext
          /\ UNCHANGED <<settingVars, tools, textVars, editVars, wsVars, termVars, screenVars, cliVars>>
       \/ part = "terminal" /\ TermNext
          /\ UNCHANGED <<settingVars, tools, textVars, editVars, wsVars, prefVars, screenVars, cliVars>>
       \/ part = "screens" /\ ScreenNext
          /\ UNCHANGED <<settingVars, tools, textVars, editVars, wsVars, prefVars, termVars, cliVars>>
       \/ part = "cli" /\ CliNext /\ UNCHANGED <<settingVars, tools, views>>

MCSpec == MCInit /\ [][MCNext]_allVars

\* The workspace by itself.
WorkspaceRun == MCInit /\ part = "workspace" /\ [][MCNext]_allVars
=============================================================================
