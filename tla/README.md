# A TLA+ model of Falach

Falach is a password manager written in Rust: KDBX vaults in local files, a
CLI, a terminal UI, and per-vault synchronisation over an S3 object. This
directory holds TLA+ modules for its parts, the TLC configurations that check
them on small instances, and TLAPS proofs that hold for every instance. Paths
below are relative to `src/crates/`.

## The system

| Part | State it keeps | Operations | Interacts with | What is hard |
|---|---|---|---|---|
| sync orchestrator (`falach-sync/src/sync.rs`, `backup.rs`) | sync block of `vaults.toml` (two pointers, backend class), `.kdbx.bak` | `configure_remote`, `sync_now`: head, compare, push / fast-replace / merge loop | transport, vault file, registry | other devices between any two network calls; lost answers; a crash between file, object and pointers |
| merge engine (`merge/mod.rs`, vendored keepass) | none | `reconcile` | orchestrator | versions neither side may lose; one-second times; attachment numbers |
| transport and S3 client (`transport/`, `s3/`) | `if_match_supported` | head, get, conditional PUT, probe, signing | orchestrator | backends that ignore `If-Match`; a 503 after the PUT was applied; a probe that fails half way |
| targets and credentials (`config.rs`, `auth/`) | `[sync]` tables, sealed secret | configure, compare, resolve | orchestrator, CLI, TUI | aliases of one object; another profile's keys; a mistyped password |
| atomic write (`falach-core/src/atomic.rs`) | temp files and their locks | `write_atomic`, clean-up | every save | kill and power loss at every system call; two processes cleaning up |
| vault registry (`falach-core/src/registry.rs`) | `vaults.toml`, a snapshot and a baseline per process | load, register, save, `update_registered_extra` | CLI, TUI, orchestrator | stale snapshots, concurrent saves |
| vault (`vault.rs`, `locking.rs`, `unlock.rs`) | `.kdbx`, sidecar lock, open database, key | create, open, save, change password | atomic write | half-made files, two holders, a re-key that fails after its rename |
| entries, groups, attachments (`falach-core/src/entry/`) | the database | CRUD, history, recycle bin, tombstones | TUI, CLI, merge | history and tombstones across merges |
| search, one-time codes | none | `search_database`, `Vault::totp` | TUI, CLI | backtracking, best alignment, step boundaries |
| clipboard (`falach-security/src/clipboard.rs`, `falach-tui/src/clipboard.rs`) | a timer thread per copy, eight guards | copy, expire, cancel | the desktop's clipboard | other applications' copies between read and clear |
| auto-lock (`auto_lock.rs`, `vault_lock.rs`, `os_events/`) | Active, Expired or Locked, last activity, source threads, `[vault.lock]` | activity, tick, unlock, attach, drop | TUI | deadline against activity; joining threads that wait |
| TUI session (`falach-tui/src/app.rs`, `event.rs`, `sync_runtime.rs`) | phase, overlay, who has vault and registry, deferred lock | keys, ticks, worker messages | all of the above | vault and registry are away during a sync; failed saves; deferred lock and quit |
| TUI workspace (`tabs.rs`, `recents.rs`, `jump_history.rs`, `entry_tree.rs`) | selection, marks, pins, bounded lists, reveal flag | navigation, bulk commands | session, sync | entries that vanish under a mark, a pin or a jump |
| TUI forms, overlays and views (`overlay/`, `widgets/`, `screens/`) | fields, cursor, lists, scroll offsets | editing keys, search, history, mouse | workspace | byte cursors, what is shown against what a key acts on, secrets in views |
| TUI keys (`command/`) | keymap, pending count and prefix | load a patch, dispatch | everything above | conflicts, counts, hints that lie |
| TUI preferences, themes, terminal (`user_config.rs`, `config.rs`, `theme.rs`, `terminal_guard.rs`) | `config.toml`, `tui.toml`, terminal modes | load, merge on write, restore | sessions, editors | two sessions and a hand edit; panics and signals |
| CLI (`falach-cli/`) | none | one command per process | core, sync | commands of two shells at once; exit code against what was saved; echo |
| generator (`falach-genpw/`) | none | `generate` | CLI, TUI | unbiased sampling, class guarantees |

What makes each part correct: a sync loses no edit and its pointers never claim
more than is true; a merge keeps both sides and both sides agree; a write is all
or nothing and survives once acknowledged; a process never overwrites another's
edit; a secret on the clipboard or on screen goes away; a locked session holds
nothing; what the UI calls saved is in the file; a key does what the screen says.
`PROJECT.json` lists every component with its status and every hazard with the
line where it bites.

## Modules

`<Component>.tla` holds a component's specification and properties, `MC*.tla` the
instances for TLC, `*_proofs.tla` the theorems: `Sync_proofs`, `Replicas_proofs`,
`Storage_proofs` (`AtomicWrite`, `Registry`, `VaultHandle`), `Remote_proofs`
(`S3Client`, `Credentials`, `S3Target`), `TuiSession_proofs`, `Tui_proofs` (`Screens`,
`Workspace`), `Frontend_proofs` (`AutoLock`, `LockSettings`, `UserPrefs`,
`Terminal`, `Cli`, `Keymap`), and `FoldFacts` about folds.
Definitions keep the names of the functions they model. An operator called `Bug...` is a faulty
variant of the definition after it; no specification uses it, it is there to show
that a property notices the fault.

### Synchronisation

**Sync, SharedVault.** A device's `sync_now` takes one network or file operation
per step (`pc[d]`), and its local variables are `run[d]`. Each save of a vault
makes new bytes, named by a serial number that is also their hash and ETag, and
`content[b]` is the set of user edits in them. `Backends`, `Seeded` and
`MayLoseObject` choose the deployment: whether the backend honours `If-Match`
(`honours`, fixed at the start), whether the object exists then, whether it may be
deleted. A run may start with some of its faults spent. Faults are a
crash at any step, a failing call, an unanswered PUT that the server applies, now
or later, or never, and a 503 before or after the PUT took effect. `SharedVault`
is the promise: replicas that take edits in and never give one up.

**VaultData, Merge, Replicas.** The data side. `VaultData` is the database of one
vault (groups, entries with history, tombstones, the binary pool with its
reference sets) and the operations of `entry/` as operators on it. `Merge` is
`reconcile`: the vendored `Database::merge` (external code, read under
`src/vendor/keepass`), then `backfill_lost_versions` and the two attachment passes.
`Replicas` lets devices edit copies, in the same second too, and synchronise them
one sync at a time by push, replace and merge. `Sync` interleaves the network and
takes a merge to be a set union; `Replicas` says what the merge keeps of a
database and where it does not behave like a union.

**S3Client, S3Target, Credentials.** `S3Client` has the requests of `S3Transport`
to one object, each with its retry and its lost answers, the probe with its own
objects and its clean-up, and other clients of the bucket. `S3Target` has what
`configure_remote` accepts and compares, the URL and headers that are sent and
those that are signed, and the cached classification through reconfigurations
during a sync. `Credentials` has `auth::resolve` over its four sources, the INI
file line by line, the IAM role, and the sealed secret.

### Files

**AtomicWrite.** Any number of processes in `write_atomic`, one system call per
step: list and lock-test old temp files, create, lock, write, fsync, rename,
fsync the directory. The file system is external and POSIX: `maybe[t]` are the
inodes a power failure may leave under a name.

**Registry.** `vaults.toml` and the files of `Vault::create`, by CLI commands
that load and save once and by TUI sessions that keep their snapshot.
`vault create` is split where it can be killed or overtaken; `save` into lock,
compare with the baseline, write.

**VaultHandle.** `Vault` and `VaultReadOnly` of several processes on one file:
the sidecar lock, the key check with password and keyfile, save, the replacement
of the database by a sync, `change_master_password`, each write with the three
outcomes `AtomicWrite` gives it (done, failed before the rename, failed after it).

### Security

**Clipboard.** A timer per copy, the TUI's queue of guards (the oldest is
dropped, and its timer cancelled, when it is full), CLI copies, other
applications. The timer's read and its clear are two steps.

**AutoLock, LockSettings.** `AutoLock` is the controller with its channel and the
threads of its sources (noop, SIGTSTP, logind, macOS), from attach to the join in
`drop`. `LockSettings` is the `[vault.lock]` table through hand edits,
`vault set-lock` and the TUI's settings, and the time the controller is armed with.

**Genpw, Totp, Search.** Algorithms against definitions of what they should
compute: the rejection sampler, the reservation of classes and the shuffle; the
otpauth grammar both ways and the time step; the wildcard loop as the loop it is,
the fuzzy dynamic program, and the list `search_database` returns. They use
recursive functions and folds, no `RECURSIVE` operator.

### Front ends

**TuiSession.** The event loop alternates a tick and at most one key; the sync
worker and the clock move at any moment. `owner` and `registry` say who has the
vault and the `VaultRegistry`, `overlay` what is open and what it is about, `ctl`
is the auto-lock controller. A vault's content is the set of changes made by
forms, in memory (`mem`) and in the file (`disk`), with `acked` for what the UI
has reported as saved. The remote's edits are left to `Sync`.

**Workspace.** Tree, marks, visual mode, tabs, pins, recents, jump list and the
reveal flag, through navigation, bulk commands, syncs that remove entries, locks
and unlocks. **EntryEdit**: an entry's fields and tags from form or command line
to the file and back. **TextInput**: lines of UTF-8 text under a byte cursor.
**Screens**: the search and history overlays with the rows the last frame drew,
the detail pane, the mouse, the breadcrumb, and what each view shows of an entry.
**Keymap**: key strings, presets, patches and their rejection, the path of a key
to a command, and what hint bar, which-key menu and palette say about it; `rowPlace`
is the order of the tab commands' rows in the map, which a rebinding changes.

**UserPrefs, Theme.** Sessions that share `config.toml` (merged on write under a
lock, without its comments and unknown keys) and `tui.toml` (saved whole), with hand
edits, kills, the command line and the ladder from environment to palette. What a
session obeys is apart from what it has in memory (`effect`, `theme`, `keys` against
`conf`), because a save adopts the file's values without installing them. **Terminal**: the CLI's prompt with echo
and signal handlers, and the TUI's guard with its panic hook.

**Cli.** Each command is a program of steps (parse, prompt, lock, read, change,
save, copy, print, wait), run by two processes on one vault with failing calls
and kills, down to the exit code.

### Composition

The modules meet at their borders: `write_atomic` is one step elsewhere, with the
outcomes `AtomicWrite` shows it to have; a sync is `WorkerOk` or `WorkerFails` in
`TuiSession` and a removal of entries in `Workspace`, and a quit under the worker
is a crash in `Sync`; `reconcile` is a union in `Sync` and itself in `Replicas`;
`Keymap` says which command a key is and `Workspace`, `EntryEdit` and `Screens`
what the command does. `MCStorage`, `MCProgress` and `MCComponents` put modules
that share no variable side by side: a behaviour moves one of them, named by
`part`, and the others stay at one initial value. The run then checks each module
by itself. Two disjoint systems interleaved would reach no other state of either.
`MCSyncFaults` is `Sync` on either kind of backend; on one that ignores `If-Match`
one of the two faults is spent at the start.

## Runs

| Run | Instance | Shows |
|---|---|---|
| `sync_enforced` | 2 devices, 2 edits, 1 fault, 2 merge attempts, fair | `Sync` implements `SharedVault`; devices converge |
| `sync_faults` | object may be deleted; with `If-Match` 1 edit, 2 faults, without it 1 edit, 1 fault | pointers name one state; an edit that was never uploaded stays in its file; whatever a save drops is in `.kdbx.bak` |
| `storage` | `write_atomic`: 2 processes, 2 files, 3 temp files, 2 faults | a target is never torn and a write that was acknowledged survives |
| | registry: 2 CLI processes, 1 TUI, 5 commands, 1 fault | no foreign edit lost, exclusive create, registered files whole, no shared target |
| | handles: 2 processes, 2 passwords, 2 keyfiles, 1 edit, 1 fault | no handle is behind its file; the password in force is an acknowledged one |
| | replicas: 2 devices, 2 entries, 3 operations of 13 kinds, 2 seconds | groups stay a tree, purged entries stay purged, a merge keeps both sides' values, the newer wins, both sides agree, merging again shows nothing new |
| `progress` | session: 1 form, 1 activity message per sync, 1 fault, fair | registry present, locked is clean, what was acknowledged is durable; a deferred lock or quit happens; an abandoned vault closes |
| | auto-lock: 3 sources, 2 calls or events, 1 bus failure, fair | an idle vault locks, only authentication unlocks, no lock without warning, drop ends |
| | clipboard: 3 copies, 2 guards, 1 fault, fair | the secret on display is cleared, whatever was evicted or copied in between |
| | search: all patterns and values up to 4, haystacks up to 5, 27 vaults | the matcher accepts what the glob does, the score is the best, the list is exact |
| | keymap: 8 patches, 17 keys, 5 keystrokes | a loaded keymap has unique keys; hints and palette tell the truth, the menu until a rebinding reorders the map; counts are what was typed |
| `components` | settings 2 vaults; S3 client 2 users, 3 PUTs, 1 read, 1 fault; 9 targets; INI files of 4 lines; 3-bit draws; 830 URIs; texts of 6; 3 form keys; 6 workspace commands; 27 command lines on a process beside one that writes; 2 sessions; every step of a prompt; 12 search hits on 3 terminal sizes | the safety properties of thirteen components, below |

What `components` checks, one property for each component (two where there are
two questions), most of them conjunctions whose named parts are next to them:

- `LockTableIsKept`: no timeout of zero is armed, and a change keeps the other keys
  of a table and leaves no empty one.
- `AnswersAreTrue`: an Ok PUT was a compare-and-swap, a recorded classification is
  that of the backend, and no probe object is left over. `TargetsAreOwn`: a cached
  classification is that of its target, no two vaults share an object, what is
  signed is what is sent. `CredentialsAreTheVaults`: credentials come from the named
  source only, and a sealed one opens.
- `GeneratesAsAsked`: indices are uniform and passwords as asked. `OtpIsFaithful`:
  URIs round-trip and a code lasts as long as announced.
- `EditsAtCursor`: the cursor is between characters and a key edits there.
  `SaveIsFaithful`: a form makes one entry, saves what it shows and keeps the values
  that were not touched, with the protection of passwords and custom fields.
- `ListsAreSound`: pins, their activation order and marks are consistent and name
  entries. `MovesAreFaithful`: back and forward return, a jump leads to a row whatever
  was collapsed, moves hide the password, read-only sessions change nothing, pins
  survive a lock and only a sync leaves one without its entry.
- `CommandsKeepTheirWord`: exit code, saved change, locks at prompts, output and
  clipboard of every CLI command. `TerminalIsGivenBack`: echo and terminal modes.
- `SavesKeepWhatTheyKnow`: a Settings change alters one preference of the latest
  `config.toml`, and no save replaces a file it cannot read, another first run's, or
  foreign keys of `tui.toml` it has found. `SessionIsAsConfigured`: flags, environment
  and files have their ranks; a session reads back what it wrote, and a restart shows
  what it shows unless it adopted values it has not installed.
- `ActsOnWhatIsShown`: a key or click acts on the row that was drawn, and Esc gives
  back the view. `FramesAreRight`: matches and breadcrumbs fit, and no view shows a
  secret unasked.

Seven more runs each refute one sentence of the code's own documentation; the
sentence and the line are under `findings` in `PROJECT.json`:

| Run | What TLC finds |
|---|---|
| `sync_seed_race` | two devices seed an empty key, and an edit ends up in no file, backup or object |
| `merge_attachment` | an entry only the remote has loses its attachment in the merge, or another entry does |
| `merge_move` | after a move on one device a merge with any other change is reported as unresolvable |
| `merge_history` | merging the same remote again lists a version of an entry twice |
| `whichkey` | after a rebinding the which-key menu shows the count command for a key that fires another |
| `pins` | after a sync that removed its entry a pinned tab is still in the bar |
| `reveal` | a deletion, a saved add or a sync moves the selection and the next entry's password is shown in clear |

**Bounds.** Every one is a constant. Two devices are enough for a race between a
HEAD and a PUT; one or two edits on each side give every row of the sync's truth
table, a merge included; two merge attempts give a retry and an exhausted loop.
Three operations and two seconds give every pair of concurrent changes to an entry
with a third that follows them, before and after the same second. Two faults,
where there are two, allow a fault during the recovery from another. Two writers
and three temp files allow a stale file, a live one and a cleaner. Five registry
commands allow a create, a foreign edit and a stale save on top. Two guards and
three copies reach the eviction that `MAX_GUARDS` (8) copies and one more reach in
the code, as one pin and lists of two reach those of `MAX_PINS`, `RECENTS_CAP` and
`JUMP_HISTORY_CAP`. Six workspace commands allow mark, sync and bulk command with
navigation in between. Draws of 3 bits have partial last intervals for every
alphabet that is no power of two. One form has two
additions, so that a change left behind by a failed save can be written by a later
one. The proofs do without the bounds.

**Symmetry** is used over devices, processes, names, paths and groups in the runs
without a temporal property that needs fairness.

**Deadlock** is not checked where the system may stop: a session that has quit,
commands that have all run, timers that have ended.

**Fairness.** `Sync`: each device runs a started sync to its end, for every
network call has a timeout (60 s, `falach-sync/src/s3/http.rs`), and users go on
syncing. `TuiSession`: the loop runs, its poll times out (`event.rs`), the worker
returns for the same network timeout, and time passes; no fairness is asked of
the user. `Clipboard`: timer threads run. `AutoLock`: time passes, the front end
ticks, a bus connection is answered or refused, threads run. Faults, edits, signals and other applications are
never fair.

## Proofs

All theorems hold for every value of the constants that satisfies the assumption
of the module they are about. The assumptions say that bounds are naturals, that
an absent value is none of the present ones, and what is named here: at
least one password and one keyfile content (`VaultHandleAssumption`), finitely many
groups and entries (`VaultDataAssumption`), at least one attempt at a new password
(`TerminalAssumption`), keys and buckets that are texts and inputs with the fields of a
form (`S3TargetAssumption`), timeouts in the cycle that are
positive (`LockSettingsAssumption`), the vault's password not being the damaged one
(`CredentialsAssumption`), an absent value that is neither a built-in theme nor a
modifier, and preference files with all their fields (`UserPrefsAssumption`), matches that lie
in the titles and characters of at most two columns (`ScreensAssumption`), presets
that give every command triggers and have no conflict of their own, and patches that
bind texts (`PresetAssumption`), rows of a vault
that have identifiers of their own (`CliAssumption`), and orders that list all entries, finitely many groups
that all hang below the root, and at least one pin and one jump
(`WorkspaceAssumption`). TLC evaluates all of them.

**Sync.** `TypeCorrect` needs `Shape`: what the control position says of the local
variables (a merge loop about to fetch has an attempt left). `DataInv`, for every
deployment, adds that bytes that are named have been made, and that the pointers a
sync carries name one state that the object has held. From it follow
`PointersAlwaysAgree`, `ShrinksAreBackedUp` and `UnuploadedEditsAreKept`. `SafeInv`,
for a backend that honours `If-Match` and a key that is never empty, adds that every
PUT on its way extends the version it names, and that the pointers name something
both file and object have. With it every step maps to a step or a stutter of
`SharedVault` (`SyncImplementsSharedVault`).

**Replicas.** `DatabasesAreSound` rests on `RepInv`: the remote's and every device's
database is `Sound` at the present second. Its groups hang below the root, its entries
lie in groups, its histories are lists, no tombstone is from the future or younger
than an entry beside it, and every UUID in it was once drawn, so that a new one is new
everywhere. Every operation of `VaultData` keeps `Sound`, one lemma each; for
`move_group` it is an argument about ancestors, stated with sets closed upwards.
The loops of the merge keep only `Formed`, which allows a cycle of groups: two devices
may move two groups below each other, and the merge refuses its own result then
(`HasCycle`). The passes of `reconcile` after it keep `Sound` again.
`NoValueIsLost` follows one entry through `reconcile`: each loop keeps it or moves
the losing value to the history, `backfill_lost_versions` finds what is left, and
the attachment passes change no value (`Shows`).

**FoldFacts.** A loop over data is a fold in these models, over a set in the order in
which `CHOOSE` takes its members. The library's induction theorems take an
operator as a parameter, which no installed prover can instantiate; `FoldFacts` has
that operator as a CONSTANT of the module instead, so that an INSTANCE of it is one
induction. `FoldKeeps` says that what every round keeps the fold keeps,
`FoldUnfolds` and `FoldByPosition` that a loop over a list is a function of how far it
has come, `FoldOfNone` and `FoldOfOne` what the shortest loops give, and
`GreatestAndLeast` that a finite set of numbers has both; the other modules cite them
for their own rounds. So an invariant of a loop over data is in reach. What a loop
computes from its data (the best alignment, the set of matches) is not.

**AtomicWrite.** `Inv` says who owns and who has locked each temp file, that what a
power failure may leave is synced and not older than what was acknowledged, and
where the entries of a running clean-up are. `TargetsNeverTorn`,
`AcknowledgedSurvives`, `CleanupRemovesStale` and `LockedTempsAreSafe` follow.

**Registry.** `RegInv` is about the moments of a save: what a process has not touched
is in its snapshot as it was in its baseline (`SnapshotCovers`), the baseline is the
file from the compare to the write, for the lock is held (`WriteIsCurrent`), and a
path that is being created belongs to one command (`ReservedOnce`, `FileIsOwn`).
`ForeignEditsAreKept` and `RegistrySound` follow.

**VaultHandle.** `HandleInv`: a handle has the sidecar lock, a writer's excludes every
other, a reader's database is the file's, and a writer's has every edit of the file and
a key whose password was acknowledged or is one of a change that failed.
`HandlesAreSettled` follows.

**S3Client.** Each PUT stores bytes of its own, so the object that answers a retried
or verified PUT tells whose it is. `S3Inv` has a PUT sent over an older version than
the one it makes, and the versions it has replaced under an enforced `If-Match` are
at most the one it names: the first attempt, carried out and answered 503, and the
second cannot both replace something. `AnswersCanBeTrusted` follows.

**Credentials.** `CredentialsAreOwn`, for INI files of any length: between a
profile's header and the lines `FindSection` takes there is no other header, from
the least and the greatest of sets of positions.

**S3Target.** A sync that ends writes back the whole registry it has loaded, so
`TargetInv` claims of every loaded copy what it claims of the registry: canonical
targets that differ, and a cached support that a probe of that target would find.
Host and path of a request give back the target they were made from
(`ServerObjectIs`), so different canonical targets are different objects as long as
they are plainly spelled. `TargetsStayOwn` follows, for any inputs that are texts of
characters.

**AutoLock, LockSettings, UserPrefs, Terminal.** `LocksAreEarned`: the drain loop
leaves an active controller active if nothing but activity is in the channel.
`LockTableKept`: whatever a hand edit leaves under `lock` reads as a positive time or
as none. `SavesKeepWhatIsKnown`: under its lock a session knows what is in `config.toml`
(`Knows`), unless the user has touched the file. `SessionsAreAsConfigured`:
`SessionInv` has that every copy a session works with is within range, that
`clamp` and the parser change nothing in what it has written last, and that what is on
screen is what its launch gives with the configuration in memory (`Showing`) until it
adopts a change. `TerminalGivenBack`: `TermInv` has,
for each place of a prompt and of the TUI, the terminal's mode and which signals have
a handler that would restore it, and, for a new password, how many lines its
attempts have cost (`Confirming`).

**TuiSession.** `Inv` adds to the types: where vault and registry are in each phase
(`Places`), what a read-only session may hold (`Quiet`), that what was acknowledged
is in the file and in the open vault (`Durable`), and that the changes of an open
form are the target it knows (`Forms`). None of the checked invariants is
inductive alone: a lock screen is clean only because the workspace is shown
exactly while somebody has the vault, and a retry adds no second entry only
because the form's target is in memory. `RegistryIsPresent`,
`LockedSessionIsClean`, `ReadOnlyChangesNothing`, `AcknowledgedIsDurable` and
`FormsNeverDuplicate` follow.

**Keymap.** `KeysAreUnique`: whatever the patches bind, the keymap in use has no
conflict. The invariant `OthersAreDefault` says that a command that can no longer be
rejected has its preset's keys; a conflict then needs a command that still can be, and
the loop ends only when none of those is in one. `KeysMeanWhatIsShown` is all of
`KeysTellTheTruth`, for any patches. `KeymapInv` adds that bindings are triggers, that
a sequence under way is one key long, and that the count is what was typed. The hint
bar and the which-key menu follow from the absence of conflicts, because the commands
that a key could be taken for share a context (`HintsTell`, `MenuTells`); that the menu
names what a key fires without a count needs the motions in front of the count, and
`WhichKeyTells`, which claims it always, is refuted by a run. Each digit
typed keeps the saturated count equal to the number (`OneMoreDigit`), and a row of the
palette is enabled exactly when its command would act (`PaletteIsRight`). That a shown
key string is accepted again (`TriggerRoundTrips`) goes through `parse_key`'s loops
piece by piece: splitting a text behind its first separator (`SplitFirst`), then the
names and modifiers of one key (`KeyRoundTrips`). `KeymapInv` was an invariant of the
keymap's part of the run `progress` before it was proved.

**Screens.** `ScreenInv`: a search has its selection in its list, goes back to the
view it was opened over, and, in a terminal that shows the modal, has the selected
row among those drawn. A frame moves the offset after every event, so a row that was
drawn at one event is the one that the next acts on; the nine labels fit because the
smallest modal has eleven rows. `KeysActOnWhatIsShown` follows. `EveryFrameIsRight`
adds arithmetic for any title, match and width: the window of a cut title holds every
match shorter than itself (`WindowHoldsMatch`), and what `middle_truncate` gives to
the two ends of a breadcrumb adds up to the line's width (`CrumbFits`).

**Workspace.** The filters, the pins and the marks are lists and sets that a dozen
commands change. A list is filtered by one loop (`InSet`), and `InSetTwice` and
`InSetAgrees` say that filtering twice is filtering by both; the rows of the tree are
sound for any shape of the groups (`BuildRowsIsSound`), so that what a cursor is on
is an entry of the vault or a group. `WorkspaceInv` relates three copies of the pins:
those shown are the stored ones without entries that are gone from memory and file
(`PinsHold`), and what is gone stays so, since an entry that is not yet in the file was
never in a stored list (`BornHolds`). It also says that the vault is with no worker and
under no form in a read-only session (`ReadOnlyHolds`), and that the node a step back
has left is the next one forward (`ReturnHolds`). Every command keeps it, one lemma
each. `WorkspaceListsAreSound` and `WorkspaceMovesAreFaithful` follow. That a jump leads
to a row is a fact about a fold that goes one level deeper a round: where the groups
above a node are expanded and the root does not yet show it, one of them that did not
show it does a round later (`OneHigher`), so after as many rounds as there are groups
the root does (`BuildRowsShows`). The root itself and what lies in the recycle bin
have no row (`HasRow`).

**Cli.** The invariant speaks of the steps a command has passed (`Passed`): `ProgramOrder` has,
verb by verb, what precedes a step, so that a command that writes has read, and holds
the lock since. While it holds it the file is what it read; its change is then one
`Effect` on that file, and `saved` is set exactly when the file has it.
`CommandsKeepTheirPromise` follows, for any number of commands that fail or are killed
at any step.

Some of these are proved and in no run: the types of `Sync`, `AtomicWrite` and
`TuiSession`, `ReadOnlyIsReadOnly` and `NoDuplicateEntry` of a session,
`StaleTempsRemoved` and `LockedTempIsSafe` of the clean-up. `UniqueKeys` is a part of
the run's `KeysTellTheTruth`.

**What proving changed.** Two properties held within TLC's bounds and not beyond
them, and now say what is true. `PurgedStaysPurged` asked for a modification after
the tombstone; an entry that came back from a merge may be edited in the very second
of its tombstone, so it now says not before it. `KeepsForeignKeys` of `tui.toml` asked
that no save lose keys of another version; a session that started before another
wrote them does lose them, so it now speaks of keys that the session has found, which
`uiKeys` remembers. Some operators had CASE arms that overlapped, where the code has
an order (`Status`, `FromConfig`, `ThemeForTier`, `Validate`); they are disjoint now.
An empty string and a space have names of their own (`EndOfInput`, `NoName`, `NoText`,
`NoQuery`, `Space`, `Blank`), because the provers' translation has no literal for them.
`BreadcrumbFits` asked for a piece of the selected node where a group of another
program may have no name, which `middle_truncate` allows for; such parts are in the
model and in its run now.

**Only model-checked:** what rests on fairness (`Converges`, `LeaveIsKept`,
`AwayVaultCloses`, `SecretIsCleared`, `IdleVaultLocks`, `DropEnds`), which is beyond
the prover, and what recursive functions and folds compute from data (`SearchIsRight`,
`GeneratesAsAsked`, `OtpIsFaithful`, `MergesAgree`, `EditsAtCursor`,
`SaveIsFaithful`).

## What reading the code against the models showed

Beside the seven findings with a run, these behaviours are in the models, or came
up while writing them, and are worth a maintainer's attention. None has a property
of its own: either no document promises otherwise, or the sentence is too loose
to hold the code to.

*Sync and merge.* `sync_now` writes the backend class it has just found even when
it fails, where its comment (`sync.rs:288`) says the registry is left untouched.
Entries that compare equal but for their histories are skipped by the merge
(`merge/mod.rs:174`), so a version only the remote kept is lost, against
`merge/mod.rs:27-34`. An expiry edited on one side of an entry both have is never merged. Each
device makes a Recycle Bin of its own UUID. Saving a pool with holes renumbers
attachments. On an unresolvable merge the TUI drops the vault. The duplicate-target
check misses `/k` against `k`, `:443` against no port, and an explicit AWS URL
against none. A key with a space, `?`, `#` or `%` does not work, since the URL is
built verbatim. In `~/.aws/credentials` a line `[b] # comment` is not seen as a
header. The TUI seals a secret under a password it has not verified, where the CLI
verifies it; `change_master_password` does not seal it anew. The comment of
`envvars.rs` says `configure_remote` rejects empty prefixes, which it does not.

*Files and commands.* A clean-up can unlink a live writer's temp file between its
creation and its lock; the write then fails and nothing is lost. `vault create`
keeps the new vault's lock through the registry save, where a comment
(`falach-cli/src/commands/vault.rs:108`) says it is dropped. `entry get --copy`
holds the shared lock while it waits for the clipboard, so writers exit with 2.
`entry list` and `get --title` include recycled entries, `search` does not.
`entry list --offset` pages through a hash map whose order differs from process to
process. A sync may exit with 1, 2 or 3 after the local file was merged and saved.
End of input at a prompt is an empty password.

*Locking and clipboard.* Opening a vault without an override re-arms the controller
with the time of the vault opened before (`app.rs:519`, against `app.rs:508-509`).
Another application's copy between the timer's read and its write is cleared.
A signal between the call that turns echo off and the installation of its handler
leaves echo off; SIGINT and SIGQUIT sent to the TUI leave raw mode. The panic hook
is process-wide, so a panicking sync worker gives the terminal back while the loop
goes on drawing.

*Forms and workspace.* After a failed save, cancelling sync-on-lock drops the
change; retrying Ctrl+S does not reconcile with what failed. Any edit in the TUI
splits a tag of two words, and loses one with a semicolon; a custom field's name
is trimmed; a custom row called `Password` overrides the standard field without
protection; accepting the generate panel while it shows an error empties the
password. Moving marked entries into a collapsed group leaves the selection on a
hidden row; a jump back to a deleted entry shows it in the bin. Recents and jumps,
like pins, may name an entry that a sync has removed, and recents touched during one
are not saved. An edit of any field stores title, user name, URL and notes unprotected
(`view.rs:210-237`), also where another program had protected them.

*Keys and views.* A non-tab command bound to a two-key sequence is accepted, shown
and never fires; a command on Space with reveal unbound toggles marks in the tree,
and one on `g` or a digit is taken by counts and sequences. A pending count
survives a quit dialogue and mouse clicks. The wheel moves the tree behind an
overlay (`app.rs:1094`, against `app.rs:979-981`). In a terminal too small for the
search the keys act on rows that are not drawn. A match exactly as wide as an even
window loses its last character. The detail pane's scroll counts unwrapped lines.

*Preferences.* A user theme named like a built-in one is unreachable. A change in
Settings adopts the file's latest theme, keymap and mouse setting without applying
them (`app.rs:1892-1897`), so a restart may show another theme than the session did.
A save of `config.toml` drops its comments and the keys it does not know, as
`app.rs:1887-1892` says of the comments. `--config --read-only` takes the flag for a path, and `--dump-keys` writes
`config.toml` on a first run. A transient read error of `tui.toml` makes the next
save drop all pins, and two sessions' saves of it overwrite each other: the pins that
one has saved are gone with the other's next save.

## Not modelled

The sync log, serialisable views, help texts, TOML and KDBX layouts, the bytes of
HMAC, base32 and cryptography, process hardening, the test doubles and the
placeholder agent: they keep no state a protocol depends on. Layout and wording of
the screens other than the search, the history, the detail pane and the breadcrumb.
`deregister` with `delete_file = true`, which nobody calls. Group tombstones, which
never arise. The contents of entries are values, and the texts that are modelled
as characters (tags, URIs, patterns, key strings) are short.

## Plan

A sync in `Sync` that may fail in `reconcile`, with `Replicas`' conditions, so
that convergence is stated for databases and not for sets of edits.
