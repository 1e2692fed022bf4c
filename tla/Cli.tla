-------------------------------- MODULE Cli --------------------------------
(***************************************************************************)
(* The commands of the falach binary that work on an unlocked vault or on  *)
(* none (falach-cli commands/entry.rs, sync.rs, gen.rs, keys.rs,           *)
(* completions.rs, ssh.rs), run by several processes on one vault file.    *)
(* A command is a program of steps; each step either succeeds or fails     *)
(* with an error, which ends the command with the exit code exit.rs gives  *)
(* it.  The vault commands are in module Registry.                         *)
(*                                                                         *)
(* A row stands for an entry: its title up to case, its tags, whether it   *)
(* has expired, its group and the process that wrote it last.              *)
(***************************************************************************)
EXTENDS Integers, Sequences, FiniteSets, SequencesExt

CONSTANTS
    CliProc,      \* processes, each running one command
    Invocation,   \* the command lines
    StartRows,    \* the entries of the vault file at first
    GroupName,    \* GroupName[g]: name of group g, up to case
    CliRoot, CliBin,  \* the root group and the recycle bin
    VaultNames,   \* names in vaults.toml
    Nobody,
    MaxCliFaults  \* bound: failing calls and kills

Verbs == {"add", "get", "edit", "rm", "list", "search", "gen", "sync", "keys", "completions", "ssh"}

RowFields == {"id", "title", "tags", "expired", "group", "by"}

\* Uuids are unique, and those of entries to come are in no file yet; sizes of
\* pages are unsigned.
ASSUME CliAssumption ==
    /\ "remote" \notin CliProc
    /\ IsFiniteSet(StartRows)
    /\ \A r, s \in StartRows : r.id = s.id => r = s
    /\ \A r \in StartRows : DOMAIN r = RowFields
    /\ \A r \in StartRows : r.id \notin CliProc \cup {"remote"}
    /\ \A a \in Invocation : a.verb \in Verbs /\ a.offset \in Nat /\ a.limit \in Nat

VARIABLES
    cliFile,   \* the entries in the vault file
    cliLock,   \* cliLock[p]: the sidecar lock p holds
    cliJob,    \* cliJob[p]: the command p runs
    cliBoard,  \* whose secret is on the clipboard
    cliFaults

cliVars == <<cliFile, cliLock, cliJob, cliBoard, cliFaults>>

-----------------------------------------------------------------------------
(* Command lines.                                                          *)

\* An option that is not on the command line.
NotGiven == ""

\* What clap refuses before any command runs (conflicts_with).
GetParses(a) == ~(a.copy /\ a.show) /\ (a.uuid = Nobody \/ a.title = NotGiven)

GenParses(a) == ~(a.copy /\ a.show)

Parses(a) == (a.verb = "get" => GetParses(a)) /\ (a.verb = "gen" => GenParses(a))

\* The steps of each run function, in order.
AddProgram == <<"record", "master", "password", "open", "tags", "apply", "save", "view">>

GetProgram(a) ==
    IF a.copy THEN <<"record", "master", "read", "resolve", "totp", "arm", "view", "wait">>
    ELSE <<"record", "master", "read", "resolve", "totp", "view">>

EditProgram == <<"uuid", "record", "master", "password", "tags", "open", "apply",
                 "save", "view">>

RmProgram == <<"uuid", "record", "master", "open", "apply", "save", "view">>

ListProgram == <<"record", "master", "read", "tags", "list", "view">>

SearchProgram == <<"record", "master", "read", "scope", "search", "view">>

\* arm_and_write
GenProgram(a) ==
    IF a.copy THEN <<"generate", "arm", "view", "wait">> ELSE <<"generate", "view">>

SyncProgram == <<"record", "name", "master", "open", "sync", "view">>

ProgramOf(a) ==
    CASE a.verb = "add" -> AddProgram
      [] a.verb = "get" -> GetProgram(a)
      [] a.verb = "edit" -> EditProgram
      [] a.verb = "rm" -> RmProgram
      [] a.verb = "list" -> ListProgram
      [] a.verb = "search" -> SearchProgram
      [] a.verb = "gen" -> GenProgram(a)
      [] a.verb = "sync" -> SyncProgram
      [] a.verb = "keys" -> <<"spawn", "view">>
      [] a.verb = "completions" -> <<"shell", "view">>
      [] a.verb = "ssh" -> <<"stub">>

\* dispatch
Program(a) == ProgramOf(a)

-----------------------------------------------------------------------------
(* Errors and exit codes.                                                  *)

VaultErrors == {"HomeUnresolvable", "FileNotFound", "NotRegistered", "EntryNotFound",
                "InvalidTag", "InvalidOtpUri", "AuthenticationFailed", "Contended", "InvalidFormat", "Io",
                "WriteFailed", "RegistryMalformed"}
GenErrors == {"NoClasses", "Csprng"}
SecurityErrors == {"ClipboardUnavailable", "TimerStart"}
SyncErrors == {"Unresolvable", "MasterPasswordMismatch", "NotConfigured", "AuthFailed",
               "RemoteUnreachable", "ConditionalPutExhausted"}

OwnErrors == {"BadUuid", "BadScope", "NoTitle", "NoEntryNamed", "SharedTitle", "NoVault", "ManyVaults",
              "StdinFailed", "NoTui", "TuiFailed", "NoShell", "Output", "NotImplemented"}

Errors == VaultErrors \cup GenErrors \cup SecurityErrors \cup SyncErrors \cup OwnErrors

ASSUME NobodyAssumption == Nobody \notin CliProc \cup Errors

\* From<VaultError>, From<GenError>, From<SecurityError>, From<SyncError>.
FromVaultError(e) ==
    IF e \in {"AuthenticationFailed", "Contended"} THEN "VaultLocked"
    ELSE IF e \in {"InvalidFormat", "Io", "WriteFailed", "RegistryMalformed"} THEN "Internal"
    ELSE "UserError"

FromGenError(e) == IF e = "Csprng" THEN "Internal" ELSE "UserError"

FromSecurityError(e) == "Internal"

FromSyncError(e) ==
    CASE e = "Unresolvable" -> "SyncConflict"
      [] e = "MasterPasswordMismatch" -> "VaultLocked"
      [] e \in {"NotConfigured", "AuthFailed"} -> "UserError"
      [] OTHER -> "Internal"

\* The errors a command makes itself.
OwnError(e) ==
    IF e = "NotImplemented" THEN e
    ELSE IF e \in {"Output", "TuiFailed"} THEN "Internal" ELSE "UserError"

\* CliExit::code
CodeOf(kind) ==
    CASE kind = "UserError" -> 1
      [] kind = "VaultLocked" -> 2
      [] kind = "SyncConflict" -> 3
      [] kind = "Internal" -> 10
      [] kind = "NotImplemented" -> 11

ExitCode(e) ==
    CodeOf(CASE e \in VaultErrors -> FromVaultError(e)
             [] e \in GenErrors -> FromGenError(e)
             [] e \in SecurityErrors -> FromSecurityError(e)
             [] e \in SyncErrors -> FromSyncError(e)
             [] OTHER -> OwnError(e))

Running == -1
Killed == -2

-----------------------------------------------------------------------------
(* The state of a command.                                                 *)

\* at: the next step of the command's program.
NewJob(a) == [ask |-> a, at |-> 1, rows |-> {}, answer |-> <<>>,
              out |-> <<>>, pipe |-> TRUE, saved |-> FALSE, error |-> Nobody,
              code |-> Running]

CliInit ==
    /\ cliFile = StartRows
    /\ cliLock = [p \in CliProc |-> "none"]
    /\ cliJob \in [CliProc -> {NewJob(a) : a \in {b \in Invocation : Parses(b)}}]
    /\ cliBoard = Nobody
    /\ cliFaults = 0

Ask(p) == cliJob[p].ask

At(p, step) == cliJob[p].code = Running /\ Program(Ask(p))[cliJob[p].at] = step

IsLastStep(p) == cliJob[p].at = Len(Program(Ask(p)))

CliFault == cliFaults < MaxCliFaults /\ cliFaults' = cliFaults + 1

\* The command goes on to its next step with job j, or returns Ok after the
\* last one.  When it returns its vault is dropped and the lock with it.
Goes(p, j) ==
    cliJob' = [cliJob EXCEPT ![p] =
                  [j EXCEPT !.at = @ + 1, !.code = IF IsLastStep(p) THEN 0 ELSE Running]]

DropVault(p) == cliLock' = [cliLock EXCEPT ![p] = "none"]

LockAfter(p) == IF IsLastStep(p) THEN DropVault(p) ELSE UNCHANGED cliLock

\* map_result_to_exit_code and write_error: in JSON mode the error envelope
\* goes to standard output, if anyone still reads it.
Returns(p, j, e) ==
    /\ cliJob' = [cliJob EXCEPT ![p] =
           [j EXCEPT !.error = e, !.code = ExitCode(e),
                     !.out = IF j.ask.json /\ j.pipe THEN Append(@, "error") ELSE @]]
    /\ DropVault(p)

\* A step that fails by itself, without effect.
Fails(p, errors) ==
    /\ CliFault
    /\ \E e \in errors : Returns(p, cliJob[p], e)
    /\ UNCHANGED <<cliFile, cliBoard>>

\* A step whose outcome depends on the command line or the vault alone.
Decides(p, error) ==
    /\ IF error = Nobody THEN Goes(p, cliJob[p]) /\ LockAfter(p)
       ELSE Returns(p, cliJob[p], error)
    /\ UNCHANGED <<cliFile, cliBoard, cliFaults>>

Succeeds(p) ==
    /\ Goes(p, cliJob[p]) /\ LockAfter(p)
    /\ UNCHANGED <<cliFile, cliBoard, cliFaults>>

-----------------------------------------------------------------------------
(* Steps before the vault is open.                                         *)

\* parse_uuid, run before the registry is read.
ParseUuid(p) == At(p, "uuid") /\ Decides(p, IF Ask(p).uuid = "bad" THEN "BadUuid" ELSE Nobody)

\* load_registry_record: resolve_paths, VaultRegistry::load, get.
LoadRegistryRecord(p) ==
    /\ At(p, "record")
    /\ \/ Decides(p, IF Ask(p).verb # "sync" /\ Ask(p).vault \notin VaultNames
                     THEN "NotRegistered" ELSE Nobody)
       \/ Fails(p, {"HomeUnresolvable", "RegistryMalformed", "Io"})

\* resolve_vault_name, and the lookup of the name: the vault asked for, or the
\* only one there is.
ResolveVaultName(p) ==
    /\ At(p, "name")
    /\ Decides(p, IF Ask(p).vault # NotGiven /\ Ask(p).vault \notin VaultNames THEN "NotRegistered"
                  ELSE IF Ask(p).vault # NotGiven \/ Cardinality(VaultNames) = 1 THEN Nobody
                  ELSE IF VaultNames = {} THEN "NoVault" ELSE "ManyVaults")

\* prompt_for_vault: there is no agent, so the user types the password.
PromptForVault(p) ==
    /\ At(p, "master")
    /\ Succeeds(p) \/ Fails(p, {"StdinFailed"})

\* resolve_add_password and edit's --password-stdin.
ResolvePassword(p) ==
    /\ At(p, "password")
    /\ \/ Succeeds(p)
       \/ Ask(p).password = "stdin" /\ Fails(p, {"StdinFailed"})
       \/ Ask(p).password = "generate" /\ Fails(p, {"NoClasses", "Csprng"})

\* Tag::from for every tag of the command line.
CheckTags(p) ==
    /\ At(p, "tags")
    /\ Decides(p, IF "bad" \in Ask(p).tags THEN "InvalidTag" ELSE Nobody)

-----------------------------------------------------------------------------
(* The vault.                                                              *)

\* Faulty variant: another process's lock is not looked at.
BugCompatible(p, kind) == \A q \in CliProc \ {p} : cliLock[q] \in {"none", "shared", "exclusive"}

\* acquire_exclusive and acquire_shared.
Compatible(p, kind) ==
    \A q \in CliProc \ {p} :
        cliLock[q] = "none" \/ (kind = "shared" /\ cliLock[q] = "shared")

\* Vault::open and VaultReadOnly::open: the lock first, then the file is read;
\* a failure drops the lock again.
OpenVault(p) ==
    \E kind \in {"exclusive", "shared"} :
        /\ At(p, IF kind = "exclusive" THEN "open" ELSE "read")
        /\ \/ /\ Compatible(p, kind)
              /\ Goes(p, [cliJob[p] EXCEPT !.rows = cliFile])
              /\ cliLock' = [cliLock EXCEPT ![p] = kind]
              /\ UNCHANGED <<cliFile, cliBoard, cliFaults>>
           \/ ~Compatible(p, kind) /\ Decides(p, "Contended")
           \/ Fails(p, {"FileNotFound", "AuthenticationFailed", "InvalidFormat", "Io"})

RowOf(rows, u) == {r \in rows : r.id = u}

\* add_entry into the root, update_entry, delete_entry into the bin (an entry
\* already there stays) and purge_entry.
Effect(p, rows) ==
    LET a == Ask(p) IN
    CASE a.verb = "add"  -> rows \cup {[id |-> p, title |-> a.title, tags |-> a.tags,
                                        expired |-> FALSE, group |-> CliRoot, by |-> p]}
      [] a.verb = "edit" -> {IF r.id = a.uuid THEN [r EXCEPT !.tags = @ \cup a.tags, !.by = p]
                             ELSE r : r \in rows}
      [] a.verb = "rm"   -> IF a.permanent THEN rows \ RowOf(rows, a.uuid)
                            ELSE {IF r.id = a.uuid THEN [r EXCEPT !.group = CliBin]
                                  ELSE r : r \in rows}
      [] a.verb = "sync" -> IF RowOf(rows, "remote") # {} THEN rows
                            ELSE rows \cup {[id |-> "remote", title |-> "a", tags |-> {},
                                             expired |-> FALSE, group |-> CliRoot, by |-> Nobody]}

Apply(p) ==
    /\ At(p, "apply")
    /\ IF Ask(p).verb # "add" /\ RowOf(cliJob[p].rows, Ask(p).uuid) = {}
       THEN Decides(p, "EntryNotFound")
       ELSE /\ Goes(p, [cliJob[p] EXCEPT !.rows = Effect(p, @)])
            /\ UNCHANGED <<cliFile, cliLock, cliBoard, cliFaults>>

\* Vault::save: the file is replaced as a whole.  A write that fails may have
\* replaced it already (the sync of the directory comes last).
SaveVault(p) ==
    /\ At(p, "save")
    /\ \E done \in BOOLEAN, ok \in BOOLEAN :
        LET j == [cliJob[p] EXCEPT !.saved = done] IN
        /\ IF ok THEN done /\ Goes(p, j) /\ UNCHANGED <<cliLock, cliFaults>>
           ELSE CliFault /\ \E e \in {"Io", "WriteFailed"} : Returns(p, j, e)
        /\ cliFile' = IF done THEN cliJob[p].rows ELSE cliFile
        /\ UNCHANGED cliBoard

\* Sync::sync_now (module Sync), which may have saved a merge before it fails.
SyncNow(p) ==
    /\ At(p, "sync")
    /\ \E done \in BOOLEAN :
        LET j == [cliJob[p] EXCEPT !.saved = done, !.rows = IF done THEN Effect(p, @) ELSE @] IN
        /\ \/ Goes(p, j) /\ UNCHANGED <<cliLock, cliFaults>>
           \/ CliFault /\ \E e \in SyncErrors : Returns(p, j, e)
        /\ cliFile' = IF done THEN j.rows ELSE cliFile
        /\ UNCHANGED cliBoard

-----------------------------------------------------------------------------
(* Answers.                                                                *)

\* resolve_entry_uuid: a uuid is taken as it is, a title must be of one entry.
ResolveEntryUuid(rows, a) ==
    LET named == {r \in rows : r.title = a.title} IN
    IF a.uuid = "bad" THEN [error |-> "BadUuid", id |-> Nobody]
    ELSE IF a.uuid # Nobody THEN [error |-> Nobody, id |-> a.uuid]
    ELSE IF a.title = NotGiven THEN [error |-> "NoTitle", id |-> Nobody]
    ELSE IF named = {} THEN [error |-> "NoEntryNamed", id |-> Nobody]
    ELSE IF Cardinality(named) = 1 THEN [error |-> Nobody, id |-> (CHOOSE r \in named : TRUE).id]
    ELSE [error |-> "SharedTitle", id |-> Nobody]

\* run_get: the entry is looked up in the database that was read.
ResolveEntry(p) ==
    /\ At(p, "resolve")
    /\ LET found == ResolveEntryUuid(cliJob[p].rows, Ask(p)) IN
       IF found.error # Nobody THEN Decides(p, found.error)
       ELSE IF RowOf(cliJob[p].rows, found.id) = {} THEN Decides(p, "EntryNotFound")
       ELSE /\ Goes(p, [cliJob[p] EXCEPT !.answer = <<found.id>>])
            /\ UNCHANGED <<cliFile, cliLock, cliBoard, cliFaults>>

\* --show-totp: an entry without a secret has no code, and one whose secret
\* does not parse ends the command.
ShowTotp(p) ==
    /\ At(p, "totp")
    /\ \/ Succeeds(p)
       \/ Ask(p).totp /\ Fails(p, {"InvalidOtpUri"})

\* The entries run_list shows: not expired unless asked for, with every tag.
Listed(rows, a) ==
    {r \in rows : (a.expired \/ ~r.expired) /\ a.tags \subseteq r.tags}

\* skip(offset) and take(limit).
Page(s, a) == SubSeq(s, a.offset + 1, IF a.limit < Len(s) - a.offset
                                      THEN a.offset + a.limit ELSE Len(s))

Ids(s) == [i \in DOMAIN s |-> s[i].id]

\* iter_all_entries walks a HashMap, whose order is another one in every
\* process.
List(p) ==
    /\ At(p, "list")
    /\ \E s \in SetToSeqs(Listed(cliJob[p].rows, Ask(p))) :
           Goes(p, [cliJob[p] EXCEPT !.answer = Ids(Page(s, Ask(p)))])
    /\ UNCHANGED <<cliFile, cliLock, cliBoard, cliFaults>>

\* parse_scope: a group by its name, which must be of one group, or a tag.
ParseScope(p) ==
    /\ At(p, "scope")
    /\ LET named == {g \in DOMAIN GroupName : GroupName[g] = Ask(p).scope.name} IN
       Decides(p, IF Ask(p).scope.kind = "other" THEN "BadScope"
                  ELSE IF Ask(p).scope.kind = "group" /\ Cardinality(named) # 1 THEN "BadScope"
                  ELSE Nobody)

\* The entries search looks at (the match itself is in module Search).
InScope(rows, a) ==
    {r \in rows : /\ a.recycled \/ r.group # CliBin
                  /\ a.scope.kind = "group" => GroupName[r.group] = a.scope.name
                  /\ a.scope.kind = "tag" => a.scope.name \in r.tags}

\* run_search: the matches in an order of their own, cut at the limit.
SearchEntries(p) ==
    /\ At(p, "search")
    /\ \E s \in SetToSeqs({r \in InScope(cliJob[p].rows, Ask(p)) : r.title = Ask(p).title}) :
           Goes(p, [cliJob[p] EXCEPT !.answer =
               Ids(SubSeq(s, 1, IF Ask(p).limit < Len(s) THEN Ask(p).limit ELSE Len(s)))])
    /\ UNCHANGED <<cliFile, cliLock, cliBoard, cliFaults>>

\* PasswordBuilder::generate, PassphraseBuilder::generate.
GeneratePassword(p) == At(p, "generate") /\ (Succeeds(p) \/ Fails(p, {"NoClasses", "Csprng"}))

\* dump_keys_via: falach-tui --dump-keys.
DumpKeys(p) == At(p, "spawn") /\ (Succeeds(p) \/ Fails(p, {"NoTui", "TuiFailed"}))

\* completions::run: the shell is named on the command line.
Completions(p) == At(p, "shell") /\ Decides(p, IF Ask(p).shell THEN Nobody ELSE "NoShell")

\* ssh::run: every verb is a stub.
SshStub(p) == At(p, "stub") /\ Decides(p, "NotImplemented")

-----------------------------------------------------------------------------
(* The clipboard and the output.                                           *)

\* arm_clipboard: the secret is on the clipboard and its timer runs.  A timer
\* that cannot start leaves the secret there.
ArmClipboard(p) ==
    /\ At(p, "arm")
    /\ \/ /\ Goes(p, cliJob[p]) /\ cliBoard' = p
          /\ UNCHANGED <<cliFile, cliLock, cliFaults>>
       \/ Fails(p, {"ClipboardUnavailable"})
       \/ /\ CliFault /\ Returns(p, cliJob[p], "TimerStart") /\ cliBoard' = p
          /\ UNCHANGED cliFile

\* The command has armed the clipboard and still has to wait for the timer.
MustWait(p) == ~IsLastStep(p)

\* write_success, write_json_success: one document, or a reader that is gone
\* (sync in human mode writes to standard error).  When the view cannot be
\* written, wait_for_clear still runs before the error is returned.
WriteView(p) ==
    /\ At(p, "view")
    /\ \/ /\ Goes(p, [cliJob[p] EXCEPT !.out =
                 IF Ask(p).verb = "sync" /\ ~Ask(p).json THEN @ ELSE Append(@, "view")])
          /\ LockAfter(p)
          /\ UNCHANGED <<cliFile, cliBoard, cliFaults>>
       \/ LET j == [cliJob[p] EXCEPT !.pipe = FALSE] IN
          /\ CliFault
          /\ IF MustWait(p) THEN Goes(p, j) /\ UNCHANGED cliLock ELSE Returns(p, j, "Output")
          /\ UNCHANGED <<cliFile, cliBoard>>

\* wait_for_clear: the timer has fired and has cleared what is still p's.
WaitForClear(p) ==
    /\ At(p, "wait")
    /\ cliBoard' = IF cliBoard = p THEN Nobody ELSE cliBoard
    /\ IF cliJob[p].pipe THEN Goes(p, cliJob[p]) /\ DropVault(p)
       ELSE Returns(p, cliJob[p], "Output")
    /\ UNCHANGED <<cliFile, cliFaults>>

\* The process is killed; the system drops its lock.
KillCommand(p) ==
    /\ cliJob[p].code = Running /\ CliFault
    /\ cliJob' = [cliJob EXCEPT ![p].code = Killed]
    /\ DropVault(p)
    /\ UNCHANGED <<cliFile, cliBoard>>

-----------------------------------------------------------------------------

CommandStep(p) ==
    \/ ParseUuid(p) \/ LoadRegistryRecord(p) \/ ResolveVaultName(p) \/ PromptForVault(p)
    \/ ResolvePassword(p) \/ CheckTags(p) \/ OpenVault(p) \/ Apply(p) \/ SaveVault(p)
    \/ SyncNow(p) \/ ResolveEntry(p) \/ ShowTotp(p) \/ List(p) \/ ParseScope(p) \/ SearchEntries(p)
    \/ GeneratePassword(p) \/ DumpKeys(p) \/ Completions(p) \/ SshStub(p)
    \/ ArmClipboard(p) \/ WriteView(p) \/ WaitForClear(p)

CliNext == \E p \in CliProc : CommandStep(p) \/ KillCommand(p)

CliSpec == CliInit /\ [][CliNext]_cliVars

-----------------------------------------------------------------------------
(* Properties.                                                             *)

Writes(p) == Ask(p).verb \in {"add", "edit", "rm"}

\* A command that changes entries and exits with 0 has saved its change, and
\* one that exits with 1 or 2 (the user may simply try again) has not touched
\* the vault file: every check of the input comes before save.
ExitTellsDisk ==
    \A p \in CliProc : Writes(p) =>
        /\ cliJob[p].code = 0 => cliJob[p].saved
        /\ cliJob[p].code \in {1, 2} => ~cliJob[p].saved

\* Two commands on one vault never undo each other's work: whatever replaces
\* the vault file adds one command's change to what the file held just before,
\* though each command saves the database it read at its start.
SavesOwnChange ==
       cliFile' # cliFile =>
           \E p \in CliProc : /\ Ask(p).verb \in {"add", "edit", "rm", "sync"}
                             /\ cliFile' = Effect(p, cliFile)

\* No command keeps other processes out of the vault while it waits for the
\* user to type: a password is asked for before the vault is opened.
NoLockAtPrompt ==
    \A p \in CliProc : At(p, "master") \/ At(p, "password") => cliLock[p] = "none"

\* With --format json a command that ends by itself leaves exactly one document
\* on standard output, its view or an error, as long as someone reads it.
OneDocument ==
    \A p \in CliProc :
        Ask(p).json /\ cliJob[p].code \notin {Running, Killed} /\ cliJob[p].pipe =>
            Len(cliJob[p].out) = 1

\* A command that has put a secret on the clipboard ends only when the timer
\* has cleared it, also when its output could not be written.  The exceptions
\* are a kill and a timer that could not be started.
CopyIsCleared ==
    \A p \in CliProc :
        cliBoard = p /\ cliJob[p].code \notin {Running, Killed} =>
            cliJob[p].error = "TimerStart"

\* What a successful command answers is what was asked: the one entry with the
\* uuid or the title for get, entries that pass the filter for list, as many
\* as the page holds.
AnswerIsRight ==
    \A p \in CliProc : cliJob[p].code = 0 =>
        LET j == cliJob[p]  a == Ask(p) IN
        /\ a.verb = "get" =>
               \A r \in j.rows : (IF a.uuid # Nobody THEN r.id = a.uuid ELSE r.title = a.title)
                                 => j.answer = <<r.id>>
        /\ a.verb = "list" =>
               LET listed == Listed(j.rows, a)
                   left == IF a.offset < Cardinality(listed)
                           THEN Cardinality(listed) - a.offset ELSE 0 IN
               /\ \A i \in DOMAIN j.answer : \E r \in listed : r.id = j.answer[i]
               /\ IsInjective(j.answer)
               /\ Len(j.answer) = IF a.limit < left THEN a.limit ELSE left

\* Commands keep their word, with another one at work on the same vault and a
\* failure at any step: they save their own change and no other, and exit
\* code, output, lock and clipboard tell what was done.
CommandsKeepTheirWord ==
    [][/\ SavesOwnChange
       /\ (ExitTellsDisk /\ NoLockAtPrompt /\ OneDocument /\ CopyIsCleared /\ AnswerIsRight)']_cliVars
=============================================================================
