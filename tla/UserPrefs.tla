----------------------------- MODULE UserPrefs -----------------------------
(***************************************************************************)
(* The two preference files of the TUI and the sessions that share them:   *)
(* config.toml (user_config.rs; generated on first run, edited by hand and *)
(* by the Settings tab, which merges on write under an advisory lock) and  *)
(* tui.toml (config.rs; machine state, saved whole from memory with no     *)
(* lock), together with the command line (args.rs), the start-up sequence  *)
(* (lib.rs, main.rs) and the part of App that installs and changes the     *)
(* preferences (app.rs).  A session is a process: it may be killed between *)
(* any two steps, which releases its lock.                                 *)
(***************************************************************************)
EXTENDS Theme

CONSTANTS PrefSession,     \* the falach-tui processes
          Launches,        \* how each may be started: a set of [line, env], a line
                           \* being a sequence of [flag, inline]
          HandFiles,       \* what config.toml may hold at first, or after a hand edit
          UiFiles,         \* what tui.toml may hold at first
          RegisteredVaults,\* the names in the vault registry
          Free,            \* no holder of the advisory lock
          MaxStarts,       \* bound on process starts
          MaxPrefMoves     \* bound on Settings changes, pin saves, hand edits and faults

\* An absent value is neither a theme nor a modifier, and a file that is read has
\* every preference: its missing ones are the defaults (serde).
ASSUME UserPrefsAssumption ==
    /\ Free \notin PrefSession
    /\ ~IsBuiltin(Unset) /\ Unset \notin {"REVERSED", "BOLD", "DIM"}
    /\ \A file \in HandFiles :
           /\ DOMAIN file.conf = {"mouse", "sort", "unlock", "leave", "dark", "light", "mode",
                                 "scope", "ratio", "keymap"}
           /\ file.conf.ratio \in Int

VARIABLES cfgFile,    \* config.toml: [kind, conf, extra], kind "absent", "garbage" or "toml"
          cfgLock,    \* holder of config.toml's sidecar lock
          uiFile,     \* tui.toml: [kind, pins, extra]
          prefs,      \* what each session holds in memory
          prefBudget  \* how many starts and moves are left

prefVars == <<cfgFile, cfgLock, uiFile, prefs, prefBudget>>

-----------------------------------------------------------------------------
(* The files.                                                              *)

SortOrders == <<"recently-used", "title", "last-modified", "group">>

\* The preferences something here depends on: the confirm-quit and enter-action
\* options behave like `scope` and are left out.
DefaultConf ==
  [mouse |-> TRUE, sort |-> "recently-used", unlock |-> FALSE, leave |-> FALSE,
   dark |-> "default-dark", light |-> "default-light", mode |-> "auto",
   scope |-> "all", ratio |-> 35, keymap |-> Unset]

\* `extra`: comments, and keys that this version does not know.
AbsentCfg == [kind |-> "absent", conf |-> DefaultConf, extra |-> FALSE]

\* Faulty variant: a Settings save does not write the [keymap] section back.
BugOnDisk(conf) == [kind |-> "toml", conf |-> [conf EXCEPT !.keymap = Unset], extra |-> FALSE]

\* What a Settings save writes: every section, and the keymap patch unless
\* empty.  Comments and unknown keys of the file that is replaced are dropped.
OnDisk(conf) == [kind |-> "toml", conf |-> conf, extra |-> FALSE]

\* The catalog of the first run, which is all comments and reads as the defaults.
Catalog == [kind |-> "toml", conf |-> DefaultConf, extra |-> TRUE]

TreeRatioMin == 20
TreeRatioMax == 60

\* Unknown and out-of-range values are brought into range on load.
ClampConf(conf) ==
  [conf EXCEPT !.scope = IF @ \in {"all", "group", "tag"} THEN @ ELSE "all",
               !.ratio = IF conf.ratio < TreeRatioMin THEN TreeRatioMin
                         ELSE IF conf.ratio > TreeRatioMax THEN TreeRatioMax ELSE conf.ratio]

\* Lenient reading: a file that does not parse counts as the defaults.
ParseAndClamp(file) == IF file.kind = "toml" THEN ClampConf(file.conf) ELSE DefaultConf

\* Strict reading: a file that does not parse or needs clamping is refused.
Strict(file) == file.kind = "toml" /\ ClampConf(file.conf) = file.conf

EmptyUi == [pins |-> [v \in RegisteredVaults |-> Unset], extra |-> FALSE]

\* tui.toml in memory, unknown keys included.
ParseUi(file) ==
  IF file.kind = "toml" THEN [pins |-> file.pins, extra |-> file.extra] ELSE EmptyUi

\* tui.toml as a save writes it, unknown keys included.
UiOnDisk(ui) == [kind |-> "toml", pins |-> ui.pins, extra |-> ui.extra]

-----------------------------------------------------------------------------
(* The command line.                                                       *)

NoArgs == [outcome |-> "run", need |-> Unset, noMouse |-> FALSE, readOnly |-> FALSE,
           dump |-> Unset, value |-> [f \in {"--vault", "--theme", "--config"} |-> Unset]]

UsageError(args) == [args EXCEPT !.outcome = "usage"]

\* A boolean flag must not be given an `=value`.
BooleanFlag(args, tok, set) == IF tok.inline # Unset THEN UsageError(args) ELSE set

DumpFlag(args, tok) ==
  CASE tok.inline \in {Unset, "text"} -> [args EXCEPT !.dump = "text"]
    [] tok.inline = "json" -> [args EXCEPT !.dump = "json"]
    [] OTHER -> UsageError(args)

\* A value flag takes its inline value, else the next argument, whatever it is.
ValueFlag(args, tok) ==
  IF tok.inline # Unset THEN [args EXCEPT !.value[tok.flag] = tok.inline]
  ELSE [args EXCEPT !.need = tok.flag]

ParseToken(args, tok) ==
  IF args.outcome # "run" THEN args
  ELSE IF args.need # Unset
  THEN [args EXCEPT !.value[args.need] = tok.flag, !.need = Unset]
  ELSE CASE tok.flag \in {"--help", "-h", "--version", "-V"} -> [args EXCEPT !.outcome = "message"]
         [] tok.flag = "--no-mouse" -> BooleanFlag(args, tok, [args EXCEPT !.noMouse = TRUE])
         [] tok.flag = "--read-only" -> BooleanFlag(args, tok, [args EXCEPT !.readOnly = TRUE])
         [] tok.flag = "--dump-keys" -> DumpFlag(args, tok)
         [] tok.flag \in DOMAIN args.value -> ValueFlag(args, tok)
         [] OTHER -> UsageError(args)

\* Args::parse: left to right, stopping at the first message or error.
ParseArgs(line) ==
  LET args == FoldLeft(ParseToken, NoArgs, line)
  IN IF args.outcome = "run" /\ args.need # Unset THEN UsageError(args) ELSE args

\* The flags over the configuration.
Effective(args, conf) ==
  [theme |-> args.value["--theme"], mouse |-> conf.mouse /\ ~args.noMouse,
   readOnly |-> args.readOnly]

-----------------------------------------------------------------------------
(* Sessions.                                                               *)

BlankEnv == [theme_override |-> Unset, no_color |-> FALSE, term |-> Unset,
             colorterm |-> Unset, colorfgbg |-> Unset]
NoChange == [field |-> Unset, value |-> Unset]
NoEffect == [theme |-> Unset, mouse |-> FALSE, readOnly |-> FALSE]

\* `touched`: someone edited config.toml by hand after this session last read
\* it; `cfgMine`, `uiMine`: this session wrote the file last; `uiKeys`: the
\* tui.toml it has read holds keys of another version; `strayed`: it has
\* adopted a change of config.toml that it did not make, and that App only
\* installs at the start; `keys`: the keymap patch it was started with.
OffSession ==
  [pc |-> "off", args |-> NoArgs, env |-> BlankEnv,
   conf |-> DefaultConf, effect |-> NoEffect, theme |-> Accessible, light |-> FALSE,
   keys |-> Unset, picked |-> FALSE, strayed |-> FALSE, ui |-> EmptyUi, uiWarned |-> FALSE, uiKeys |-> FALSE, vault |-> Unset,
   change |-> NoChange, latest |-> DefaultConf,
   touched |-> FALSE, cfgMine |-> FALSE, uiMine |-> FALSE]

PrefAt(s, pc) == prefs[s].pc = pc
Spend(what) == prefBudget[what] > 0 /\ prefBudget' = [prefBudget EXCEPT ![what] = @ - 1]
Release(s) == IF cfgLock = s THEN Free ELSE cfgLock

\* The file of the others is no longer theirs once a session has written it.
Wrote(all, s, field) ==
  [t \in PrefSession |-> [all[t] EXCEPT ![field] = t = s]]

\* --dump-keys prints the keymap of the configuration and ends.
DumpsOnly(me) == me.args.dump # Unset

\* apply_args once the configuration is there: flags, theme, --vault.
Installed(s, conf) ==
  LET me == prefs[s]
      eff == Effective(me.args, conf)
      unknown == me.args.value["--vault"] \notin RegisteredVaults \cup {Unset}
  IN IF DumpsOnly(me) \/ unknown THEN OffSession
     ELSE [me EXCEPT !.pc = "running", !.conf = conf, !.effect = eff,
                     !.theme = ResolveTheme(me.env, conf, eff.theme),
                     !.light = ActiveLight(me.env, conf.mode), !.keys = conf.keymap]

\* A launch loads tui.toml with the vault registry first; a dump does not.
FirstStep(args) == IF args.dump # Unset THEN "load" ELSE "loadUi"

\* main: the command line is parsed before anything is touched, and a
\* message or a usage error ends the process there.
StartSession(s) ==
  /\ PrefAt(s, "off")
  /\ Spend("starts")
  /\ \E launch \in Launches[s] :
       LET args == ParseArgs(launch.line) IN
       prefs' = [prefs EXCEPT ![s] =
                   IF args.outcome # "run" THEN OffSession
                   ELSE [OffSession EXCEPT !.args = args, !.env = launch.env,
                           !.pc = FirstStep(args)]]
  /\ UNCHANGED <<cfgFile, cfgLock, uiFile>>

\* TuiConfig::load: missing or unusable is the default, with a warning if unusable.
LoadUi(s) ==
  /\ PrefAt(s, "loadUi")
  /\ \/ /\ prefs' = [prefs EXCEPT ![s].pc = "load", ![s].ui = ParseUi(uiFile),
                                  ![s].uiWarned = uiFile.kind = "garbage",
                                  ![s].uiKeys = uiFile.kind = "toml" /\ uiFile.extra]
        /\ UNCHANGED prefBudget
     \/ /\ uiFile.kind # "absent"
        /\ Spend("moves")
        /\ prefs' = [prefs EXCEPT ![s].pc = "load", ![s].ui = EmptyUi, ![s].uiWarned = TRUE]
  /\ UNCHANGED <<cfgFile, cfgLock, uiFile>>

\* load_or_generate, first look: a file is read, a missing one must be generated.
LoadConfig(s) ==
  /\ PrefAt(s, "load")
  /\ \/ /\ prefs' = [prefs EXCEPT ![s] =
             IF cfgFile.kind = "absent" THEN [@ EXCEPT !.pc = "generateLock"]
             ELSE Installed(s, ParseAndClamp(cfgFile))]
        /\ UNCHANGED prefBudget
     \/ /\ cfgFile.kind # "absent"
        /\ Spend("moves")
        /\ prefs' = [prefs EXCEPT ![s] = Installed(s, DefaultConf)]
  /\ UNCHANGED <<cfgFile, cfgLock, uiFile>>

\* A contended lock is not waited for: the session runs on the defaults.
LockToGenerate(s) ==
  /\ PrefAt(s, "generateLock")
  /\ IF cfgLock = Free
     THEN /\ cfgLock' = s
          /\ prefs' = [prefs EXCEPT ![s].pc = "recheck"]
     ELSE /\ prefs' = [prefs EXCEPT ![s] = Installed(s, DefaultConf)]
          /\ UNCHANGED cfgLock
  /\ UNCHANGED <<cfgFile, uiFile, prefBudget>>

\* The second look, under the lock: another first run may have been faster.
Recheck(s) ==
  /\ PrefAt(s, "recheck")
  /\ \/ /\ cfgFile.kind = "absent"
        /\ prefs' = [prefs EXCEPT ![s] = [@ EXCEPT !.pc = "generate", !.touched = FALSE]]
        /\ UNCHANGED <<cfgLock, prefBudget>>
     \/ /\ cfgFile.kind # "absent"
        /\ \/ prefs' = [prefs EXCEPT ![s] = Installed(s, ParseAndClamp(cfgFile))] /\ UNCHANGED prefBudget
           \/ prefs' = [prefs EXCEPT ![s] = Installed(s, DefaultConf)] /\ Spend("moves")
        /\ cfgLock' = Release(s)
  /\ UNCHANGED <<cfgFile, uiFile>>

\* The catalog is written; if that fails (before or after the rename) the
\* session still runs on the defaults.
Generate(s) ==
  /\ PrefAt(s, "generate")
  /\ \/ cfgFile' = Catalog /\ UNCHANGED prefBudget
     \/ cfgFile' \in {cfgFile, Catalog} /\ Spend("moves")
  /\ cfgLock' = Release(s)
  /\ prefs' = LET mine == [prefs EXCEPT ![s] = Installed(s, DefaultConf)]
              IN IF cfgFile' = cfgFile THEN mine
                 ELSE [t \in PrefSession |-> [mine[t] EXCEPT !.cfgMine = FALSE]]
  /\ UNCHANGED uiFile

-----------------------------------------------------------------------------
(* The Settings tab.                                                       *)

UnlockFor(s) ==
  /\ PrefAt(s, "running")
  /\ prefs[s].vault = Unset
  /\ \E v \in RegisteredVaults :
       /\ prefs[s].args.value["--vault"] \in {Unset, v}
       /\ prefs' = [prefs EXCEPT ![s].vault = v]
  /\ UNCHANGED <<cfgFile, cfgLock, uiFile, prefBudget>>

\* The change a row asks for.  The sort order is advanced from the latest
\* file; the theme and the two toggles are computed from memory.
ChangeOf(me, row) ==
  CASE row = 0 -> [field |-> "sort", value |-> Unset]
    [] row = 1 -> LET slot == IF me.light THEN "light" ELSE "dark"
                  IN [field |-> slot, value |-> NextTheme(me.conf[slot])]
    [] row = 3 -> [field |-> "unlock", value |-> ~me.conf.unlock]
    [] row = 4 -> [field |-> "leave", value |-> ~me.conf.leave]

NextSort(sort) ==
  LET idx == CHOOSE i \in 1..Len(SortOrders) : SortOrders[i] = sort
  IN SortOrders[(idx % Len(SortOrders)) + 1]

Changed(conf, change) ==
  IF change.field = "sort" THEN [conf EXCEPT !.sort = NextSort(@)]
  ELSE [conf EXCEPT ![change.field] = change.value]

ActivateRow(s) ==
  /\ PrefAt(s, "running")
  /\ prefs[s].vault # Unset
  /\ Spend("moves")
  /\ \E row \in {0, 1, 3, 4} :
       prefs' = [prefs EXCEPT ![s].pc = "updateLock", ![s].change = ChangeOf(prefs[s], row)]
  /\ UNCHANGED <<cfgFile, cfgLock, uiFile>>

\* A refused change leaves the session on what it had in memory.
NotChanged(me) == [me EXCEPT !.pc = "running", !.change = NoChange, !.latest = DefaultConf]

LockToUpdate(s) ==
  /\ PrefAt(s, "updateLock")
  /\ IF cfgLock = Free
     THEN /\ cfgLock' = s
          /\ prefs' = [prefs EXCEPT ![s].pc = "updateRead"]
     ELSE /\ prefs' = [prefs EXCEPT ![s] = NotChanged(@)]
          /\ UNCHANGED cfgLock
  /\ UNCHANGED <<cfgFile, uiFile, prefBudget>>

\* Faulty variant: the change is applied to the session's own copy.
BugLatest(s) == prefs[s].conf

\* The file as it is now; a missing one counts as the defaults.
Latest(s) == IF cfgFile.kind = "absent" THEN DefaultConf ELSE cfgFile.conf

\* update_at goes on only with a missing file or one it can read back exactly.
MayUpdate(file) == file.kind = "absent" \/ Strict(file)

ReadToUpdate(s) ==
  /\ PrefAt(s, "updateRead")
  /\ \/ /\ MayUpdate(cfgFile)
        /\ prefs' = [prefs EXCEPT ![s] =
             [@ EXCEPT !.pc = "updateWrite", !.touched = FALSE,
                       !.latest = Changed(Latest(s), prefs[s].change)]]
        /\ UNCHANGED <<cfgLock, prefBudget>>
     \/ /\ ~MayUpdate(cfgFile)
        /\ prefs' = [prefs EXCEPT ![s] = NotChanged(@)]
        /\ cfgLock' = Release(s)
        /\ UNCHANGED prefBudget
     \/ /\ cfgFile.kind # "absent"
        /\ Spend("moves")
        /\ prefs' = [prefs EXCEPT ![s] = NotChanged(@)]
        /\ cfgLock' = Release(s)
  /\ UNCHANGED <<cfgFile, uiFile>>

\* The session adopts what it saved, with what others had written there; a
\* theme change is resolved without the flag, and nothing else is applied.
Adopted(me) ==
  LET themed == me.change.field \in {"dark", "light"} IN
  [NotChanged(me) EXCEPT
     !.conf = me.latest,
     !.picked = me.picked \/ themed,
     !.strayed = me.strayed \/ me.latest # Changed(me.conf, me.change),
     !.theme = IF themed THEN ResolveTheme(me.env, me.latest, Unset) ELSE me.theme,
     !.light = IF themed THEN ActiveLight(me.env, me.latest.mode) ELSE me.light]

\* save_unlocked: the write succeeds, or fails before or after the rename.
WriteUpdate(s) ==
  /\ PrefAt(s, "updateWrite")
  /\ LET written == OnDisk(prefs[s].latest) IN
     \/ /\ cfgFile' = written
        /\ prefs' = Wrote([prefs EXCEPT ![s] = Adopted(@)], s, "cfgMine")
        /\ UNCHANGED prefBudget
     \/ /\ Spend("moves")
        /\ cfgFile' \in {cfgFile, written}
        /\ prefs' = LET mine == [prefs EXCEPT ![s] = NotChanged(@)]
                    IN IF cfgFile' = cfgFile THEN mine
                       ELSE [t \in PrefSession |-> [mine[t] EXCEPT !.cfgMine = FALSE]]
  /\ cfgLock' = Release(s)
  /\ UNCHANGED uiFile

\* persist_ui_state: the pins of the open vault, the rest as loaded at start.
SaveUi(s) ==
  /\ PrefAt(s, "running")
  /\ prefs[s].vault # Unset
  /\ \E pins \in {"one", "two"} :
       LET ui == [prefs[s].ui EXCEPT !.pins[prefs[s].vault] = pins]
           mine == [prefs EXCEPT ![s].ui = ui]
       IN \/ /\ Spend("moves")
             /\ uiFile' = UiOnDisk(ui)
             /\ prefs' = Wrote(mine, s, "uiMine")
          \/ /\ Spend("moves")
             /\ prefs' = [mine EXCEPT ![s].uiMine = FALSE]
             /\ UNCHANGED uiFile
  /\ UNCHANGED <<cfgFile, cfgLock>>

\* The process ends, at any point; the system drops its lock.
EndSession(s) ==
  /\ ~PrefAt(s, "off")
  /\ prefs' = [prefs EXCEPT ![s] = OffSession]
  /\ cfgLock' = Release(s)
  /\ UNCHANGED <<cfgFile, uiFile, prefBudget>>

\* The user saves config.toml from an editor, which takes no lock.
EditConfigByHand ==
  /\ Spend("moves")
  /\ \E file \in HandFiles \ {cfgFile} : cfgFile' = file
  /\ prefs' = [t \in PrefSession |-> [prefs[t] EXCEPT !.touched = TRUE, !.cfgMine = FALSE]]
  /\ UNCHANGED <<cfgLock, uiFile>>

PrefInit ==
  /\ cfgFile \in HandFiles
  /\ cfgLock = Free
  /\ uiFile \in UiFiles
  /\ prefs = [s \in PrefSession |-> OffSession]
  /\ prefBudget = [starts |-> MaxStarts, moves |-> MaxPrefMoves]

PrefNext ==
  \/ EditConfigByHand
  \/ \E s \in PrefSession :
       \/ StartSession(s) \/ LoadUi(s) \/ LoadConfig(s) \/ LockToGenerate(s)
       \/ Recheck(s) \/ Generate(s) \/ UnlockFor(s) \/ ActivateRow(s)
       \/ LockToUpdate(s) \/ ReadToUpdate(s) \/ WriteUpdate(s) \/ SaveUi(s) \/ EndSession(s)

PrefSpec == PrefInit /\ [][PrefNext]_prefVars

-----------------------------------------------------------------------------
(* Properties.                                                             *)

RunningSessions == {s \in PrefSession : PrefAt(s, "running")}

\* Every configuration a session works with is within the ranges the screen
\* relies on, whatever was typed into config.toml; a writer holds the lock.
PrefTypeOK ==
  /\ cfgLock \in PrefSession \cup {Free}
  /\ \A s \in PrefSession :
       /\ prefs[s].conf.ratio \in TreeRatioMin..TreeRatioMax
       /\ prefs[s].latest.ratio \in TreeRatioMin..TreeRatioMax
       /\ prefs[s].pc \in {"recheck", "generate", "updateRead", "updateWrite"} => cfgLock = s

\* A user who asks for no colour (NO_COLOR, a dumb terminal, the accessible
\* theme) gets none, whatever flag, file or Settings change says, and for the
\* whole session.
AccessibilityWins ==
  \A s \in RunningSessions : ForcesMonochrome(prefs[s].env) => prefs[s].theme = Accessible

\* No 24-bit colour is ever sent to a 16-colour terminal, whatever a user
\* theme file says.
TierIsKept ==
  \A s \in RunningSessions :
    LET palette == prefs[s].theme.palette IN
    /\ palette.tier \in {ColorTier(prefs[s].env), "Monochrome"}
    /\ palette.tier = "Color16" => \A slot \in Slots : palette.colors[slot] = ANSI

\* In every theme a session can reach, each signal is carried by something
\* other than colour and opposite signals by different modifiers.
SignalsDiffer == \A s \in RunningSessions : SignalsCarried(prefs[s].theme)

\* --no-mouse and --read-only hold for the whole session, and --theme until
\* the user picks another theme, whatever config.toml says or is changed to.
FlagsAreHonoured ==
  \A s \in RunningSessions :
    LET me == prefs[s] IN
    /\ me.args.noMouse => ~me.effect.mouse
    /\ me.args.readOnly => me.effect.readOnly
    /\ (IsBuiltin(me.args.value["--theme"]) /\ ~me.picked /\ ~ForcesMonochrome(me.env))
         => me.theme.name = me.args.value["--theme"]

\* What a session shows and obeys, and what the same launch would give with
\* a configuration.
OnScreen(me) == [theme |-> me.theme, light |-> me.light, mouse |-> me.effect.mouse, keys |-> me.keys]
AfterRestart(me, conf) ==
  LET eff == Effective(me.args, conf) IN
  [theme |-> ResolveTheme(me.env, conf, eff.theme), light |-> ActiveLight(me.env, conf.mode),
   mouse |-> eff.mouse, keys |-> conf.keymap]

\* A session that wrote config.toml last reads back from it what it has in
\* memory, and the same launch would show the theme, mouse and keys it shows
\* now, unless it has adopted a change that is not its own (app.rs:1892-1897
\* takes the file's values without installing them) or its user has picked a
\* theme over --theme, which a restart applies again.  A session that wrote
\* tui.toml last reads back its pins and the foreign keys.
RestartIsFaithful ==
  \A s \in RunningSessions :
    LET me == prefs[s] IN
    /\ me.cfgMine =>
         /\ cfgFile.kind = "toml" /\ ParseAndClamp(cfgFile) = me.conf
         /\ ~me.strayed /\ (me.picked => me.args.value["--theme"] = Unset)
              => OnScreen(me) = AfterRestart(me, ParseAndClamp(cfgFile))
    /\ me.uiMine => ParseUi(uiFile) = me.ui

\* update_at merges on write: of the preferences that the program knows, a
\* Settings change alters one in the file as it is at that moment, so that no
\* session loses another's change.  Comments and unknown keys are dropped.
MergesEdits ==
     \A s \in PrefSession :
       (PrefAt(s, "updateWrite") /\ prefs'[s].pc # "updateWrite" /\ cfgFile' # cfgFile
          /\ ~prefs[s].touched)
         => cfgFile'.kind = "toml"
            /\ cfgFile'.conf = Changed(IF cfgFile.kind = "absent" THEN DefaultConf
                                       ELSE cfgFile.conf, prefs[s].change)

\* "refusing to overwrite it": a file that does not parse, or that holds a
\* value out of range, is replaced by nobody but its author.
KeepsHandWritten ==
     (cfgFile.kind = "garbage" \/ (cfgFile.kind = "toml" /\ ~Strict(cfgFile)))
       => \/ cfgFile' = cfgFile
          \/ \A s \in PrefSession : prefs'[s].pc = prefs[s].pc
          \/ \E s \in PrefSession : cfgLock = s /\ prefs[s].touched

\* Two first runs may meet: the one that generates the catalog never replaces
\* a file that was there when it took the lock.
KeepsFileAtFirstRun ==
     \A s \in PrefSession :
       (PrefAt(s, "generate") /\ prefs'[s].pc # "generate" /\ cfgFile' # cfgFile)
         => cfgFile.kind = "absent" \/ prefs[s].touched

\* Keys of another version of Falach that a session found in tui.toml survive
\* each of its saves.  The file is saved whole, from memory and without a
\* lock: the pins that another session has saved since do not survive it.
KeepsForeignKeys ==
     \A s \in PrefSession :
       (prefs[s].uiKeys /\ prefs'[s].uiMine /\ uiFile' # uiFile)
         => uiFile'.kind = "toml" /\ uiFile'.extra

\* What a save of config.toml or tui.toml owes the file it replaces: the known
\* preferences of the latest config.toml but the one that was changed, a file
\* it cannot read back, a file that another first run has written, and the
\* foreign keys of tui.toml (update_at, generate, UiConfig::save).
SavesKeepWhatTheyKnow ==
  [][MergesEdits /\ KeepsHandWritten /\ KeepsFileAtFirstRun /\ KeepsForeignKeys]_prefVars

\* A session is what flags, environment and files make it, for as long as it
\* runs, and a restart finds again what RestartIsFaithful says.
SessionIsAsConfigured ==
  PrefTypeOK /\ FlagsAreHonoured /\ RestartIsFaithful /\ AccessibilityWins /\ TierIsKept /\ SignalsDiffer
=============================================================================
