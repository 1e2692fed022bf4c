------------------------------ MODULE Replicas ------------------------------
(***************************************************************************)
(* Devices that edit copies of one vault and synchronise them one sync at  *)
(* a time: the data side of falach-sync.  Sync models how concurrent syncs *)
(* interleave and leaves the database out; here a sync is one step and the *)
(* database is the one of VaultData.                                       *)
(***************************************************************************)
EXTENDS Merge

CONSTANTS
    Device,
    Shared,     \* groups every device has from the start
    Ops,        \* the operations the users perform
    Light,      \* operations that count one; the others count two
    MaxOps,     \* bound: operations in a behaviour, counted so
    MaxClock,   \* bound: seconds
    Spaced      \* TRUE iff no two operations fall into one second

ASSUME ReplicasAssumption ==
    /\ Shared \subseteq Group \ {Root} /\ MaxOps \in Nat /\ MaxClock \in Nat /\ Spaced \in BOOLEAN
    /\ Ops \subseteq {"add", "edit", "tag", "move", "delete", "purge", "attach",
                      "detach", "expire", "group", "rename", "regroup", "ungroup"}

VARIABLES
    clock,   \* the time, in seconds
    db,      \* the database each device has open, as last saved
    dirty,   \* the vault file differs from the last synchronised one
    stale,   \* the remote object differs from the last synchronised one
    remote,  \* the database in the remote object
    ids,     \* UUIDs handed out so far
    ops      \* operations performed

repVars == <<clock, db, dirty, stale, remote, ids, ops>>

\* One entry and some groups below the root, known to every device.
Seed(e) ==
    LET db0 == FoldSet(LAMBDA g, acc : CreateGroup(acc, g, Root, "a", 0),
                       EmptyDatabase(0), Shared)
    IN AddEntry(db0, e, Root, CHOOSE v \in Value : TRUE, 0)

RepInit ==
    LET e == CHOOSE x \in Entry : TRUE IN
        /\ clock = IF Spaced THEN 1 ELSE 0
        /\ ops = 0
        /\ db = [d \in Device |-> Seed(e)]
        /\ remote = Seed(e)
        /\ dirty = [d \in Device |-> FALSE] /\ stale = [d \in Device |-> FALSE]
        /\ ids = {e, Root} \cup Shared

Tick ==
    /\ clock < MaxClock
    /\ clock' = clock + 1
    /\ UNCHANGED <<db, dirty, stale, remote, ids, ops>>

\* A command or a form saves the vault after its one operation.
Perform(d, op, new, used) ==
    /\ op \in Ops
    /\ ops' = ops + (IF op \in Light THEN 1 ELSE 2)
    /\ ops' <= MaxOps
    /\ db' = [db EXCEPT ![d] = new]
    /\ dirty' = [dirty EXCEPT ![d] = TRUE]
    /\ ids' = ids \cup used
    /\ clock' = IF Spaced THEN clock + 1 ELSE clock
    /\ clock' <= MaxClock
    /\ UNCHANGED <<stale, remote>>

Add(d) ==
    \E e \in Entry \ ids, g \in DOMAIN db[d].groups, v \in Value :
        Perform(d, "add", AddEntry(db[d], e, g, v, clock), {e})

Edit(d) ==
    \E e \in Live(db[d]), v \in Value :
        Perform(d, "edit", UpdateEntry(db[d], e, v, clock), {})

Tag(d) ==
    \E e \in Live(db[d]), v \in Value :
        Perform(d, "tag", SetTags(db[d], e, v, clock), {})

Move(d) ==
    \E e \in Live(db[d]), g \in DOMAIN db[d].groups :
        Perform(d, "move", MoveEntry(db[d], e, g, clock), {})

\* The UUID a new recycle bin would get; none is needed when there is a bin.
BinIds(d) == IF RecycleBin(db[d]) = NoGroup THEN Group \ ids ELSE {NoGroup}

Delete(d) ==
    \E e \in Live(db[d]), b \in BinIds(d) :
        Perform(d, "delete", DeleteEntry(db[d], e, b, clock), {b} \cap Group)

Purge(d) ==
    \E e \in Live(db[d]) : Perform(d, "purge", PurgeEntry(db[d], e, clock), {})

Attach(d) ==
    \E e \in Live(db[d]), x \in Bytes :
        Perform(d, "attach", AddAttachment(db[d], e, x, clock), {})

Detach(d) ==
    \E e \in Live(db[d]) :
        /\ db[d].entries[e].att # NoAtt
        /\ Perform(d, "detach", RemoveAttachment(db[d], e, clock), {})

Expire(d) ==
    \E e \in Live(db[d]), when \in {-1, MaxClock} :
        Perform(d, "expire", SetExpiration(db[d], e, when, clock), {})

NewGroup(d) ==
    \E g \in Group \ ids, p \in DOMAIN db[d].groups :
        Perform(d, "group", CreateGroup(db[d], g, p, "a", clock), {g})

Rename(d) ==
    \E g \in DOMAIN db[d].groups, n \in {"a", "b"} :
        Perform(d, "rename", RenameGroup(db[d], g, n, clock), {})

Regroup(d) ==
    \E g \in DOMAIN db[d].groups, to \in DOMAIN db[d].groups :
        /\ MoveGroupAllowed(db[d], g, to)
        /\ Perform(d, "regroup", RelocateGroup(db[d], g, to, clock), {})

Ungroup(d) ==
    \E g \in DOMAIN db[d].groups \ {Root}, b \in BinIds(d), recurse \in BOOLEAN :
        /\ recurse \/ GroupIsEmpty(db[d], g)
        /\ Perform(d, "ungroup", DeleteGroup(db[d], g, b, clock), {b} \cap Group)

\* The vault is closed and opened again (every CLI command does).
Reload(d) ==
    /\ db[d] # Reopen(db[d])
    /\ db' = [db EXCEPT ![d] = Reopen(@)]
    /\ UNCHANGED <<clock, dirty, stale, remote, ids, ops>>

----------------------------------------------------------------------------
(* The rows of run_state_machine's table.                                  *)

\* Local changed, remote not: the file is uploaded.
Upload(d, new) ==
    /\ remote' = Reopen(new)
    /\ dirty' = [dirty EXCEPT ![d] = FALSE]
    /\ stale' = [x \in Device |-> x # d]
    /\ db' = [db EXCEPT ![d] = new]
    /\ UNCHANGED <<clock, ids, ops>>
Push(d) == dirty[d] /\ ~stale[d] /\ Upload(d, db[d])

\* Remote changed, local not: the file is replaced and opened again.
FastReplace(d) ==
    /\ stale[d] /\ ~dirty[d]
    /\ db' = [db EXCEPT ![d] = remote]
    /\ stale' = [stale EXCEPT ![d] = FALSE]
    /\ UNCHANGED <<clock, dirty, remote, ids, ops>>

\* Both changed: the remote database is folded in, saved and uploaded.
\* A merge that fails is reported and nothing is saved.
MergeSync(d) ==
    /\ stale[d] /\ dirty[d]
    /\ ~MergeFails(db[d], remote)
    /\ Upload(d, Reconcile(db[d], remote, clock))

RepNext ==
    \/ Tick
    \/ \E d \in Device :
        \/ Add(d) \/ Edit(d) \/ Tag(d) \/ Move(d) \/ Delete(d) \/ Purge(d)
        \/ Attach(d) \/ Detach(d) \/ Expire(d)
        \/ NewGroup(d) \/ Rename(d) \/ Regroup(d) \/ Ungroup(d)
        \/ Reload(d) \/ Push(d) \/ FastReplace(d) \/ MergeSync(d)

RepSpec == RepInit /\ [][RepNext]_repVars

----------------------------------------------------------------------------
(* Properties.                                                             *)

Databases == {db[d] : d \in Device} \cup {remote}

\* Every database is a tree: the groups hang below the root and every entry
\* lies in a group, whatever moves of two devices are merged.
TreeIsRooted ==
    \A x \in Databases :
        /\ ~HasCycle(x)
        /\ \A e \in Live(x) : x.entries[e].parent \in DOMAIN x.groups

\* The values of an entry that can still be read: current or in its history.
Versions(x, e) == {x.entries[e].hist[i] : i \in DOMAIN x.entries[e].hist}
Values(x, e) == {x.entries[e].val} \cup {v.val : v \in Versions(x, e)}

\* reconcile's no-data-loss guarantee, as merge/mod.rs states it: after a
\* merge, the value every live entry had on either side is still its value or
\* in its history, and the newer of two versions is the current one.
MergeKeepsBothSides ==
    [][\A d \in Device : MergeSync(d) =>
         \A e \in Live(db'[d]) : \A x \in {db[d], remote} : e \in Live(x) =>
             /\ x.entries[e].val \in Values(db'[d], e)
             /\ \A y \in {db[d], remote} :
                    e \in Live(y) /\ x.entries[e].lm > y.entries[e].lm
                        => db'[d].entries[e].val = x.entries[e].val]_repVars

\* A purged entry comes back only if it was modified after the purge: where
\* an entry lives beside its own tombstone, its modification is not older.
\* (Not always younger: an entry that came back may be edited in the very
\* second of its tombstone.)
PurgedStaysPurged ==
    \A x \in Databases : \A e \in Live(x) \cap DOMAIN x.dead :
        x.entries[e].lm >= x.dead[e]

\* Whatever two devices change and merge, every copy is a sound database:
\* its groups are a tree and no deletion is undone (reconcile, purge_entry).
DatabaseIsSound == TreeIsRooted /\ PurgedStaysPurged

\* What a user sees of a database's entries, apart from where they lie.
Shown(x) == [e \in Live(x) |-> x.entries[e].val]

\* The entries both databases hold lie in the same groups.
SamePlaces(x, y) ==
    \A e \in Both(x, y) : x.entries[e].parent = y.entries[e].parent

\* No version of an entry has an attachment.
Plain(x) ==
    \A e \in Live(x) :
        x.entries[e].att = NoAtt /\ \A v \in Versions(x, e) : v.att = NoAtt

\* While nothing was moved or attached, merging the same remote again, as the
\* retry after a failed conditional PUT does, succeeds, changes nothing a user
\* sees, reports no change and puts no version into a history that was not
\* there.  It may list one twice: HistoriesDoNotGrow says that it does not.
ReMergeIsNoop ==
    \A d \in Device :
        /\ dirty[d] /\ stale[d] /\ ~MergeFails(db[d], remote)
        /\ SamePlaces(db[d], remote) /\ Plain(db[d]) /\ Plain(remote)
        => LET once  == Reconcile(db[d], remote, clock)
               twice == Reconcile(once, remote, clock)
           IN /\ ~MergeFails(once, remote)
              /\ Delta(once, twice) = [added |-> {}, removed |-> {}, modified |-> {}]
              /\ Shown(once) = Shown(twice)
              /\ \A e \in Live(twice) : Versions(twice, e) = Versions(once, e)

\* Two devices that both changed their copies and merge each other's database
\* in turn show the same entries, and it does not matter which begins.
OrderDoesNotMatter ==
    \A c \in Device, d \in Device : dirty[c] /\ dirty[d] =>
        LET one   == Reconcile(db[c], Reopen(db[d]), clock)
            two   == Reconcile(db[d], Reopen(one), clock)
            other == Reconcile(db[d], Reopen(db[c]), clock)
        IN ~MergeFails(db[c], Reopen(db[d])) /\ ~MergeFails(db[d], Reopen(one))
           /\ ~MergeFails(db[d], Reopen(db[c]))
               => Shown(one) = Shown(two) /\ Shown(one) = Shown(other)

\* Merges of the same changes agree, in whatever order and however often they
\* are made: reconcile is commutative and idempotent for what a user sees.
MergesAgree == ReMergeIsNoop /\ OrderDoesNotMatter

----------------------------------------------------------------------------
(* What merge/mod.rs says of itself and the code does not do: each of the  *)
(* next three has a run in which TLC finds a counterexample.               *)

\* merge/mod.rs lines 129-133: a merge is unresolvable only if an entry has
\* different contents and one modification time on the two sides.
OnlySameSecondClashes ==
    \A d \in Device : dirty[d] /\ stale[d] /\ MergeFails(db[d], remote) =>
        \E e \in Both(db[d], remote) :
            /\ db[d].entries[e].lm = remote.entries[e].lm
            /\ db[d].entries[e].val # remote.entries[e].val

\* merge/mod.rs lines 31-33 and 224-225: a version already in a history is
\* not added again, "so repeated syncs do not grow history".
HistoriesDoNotGrow ==
    \A d \in Device :
        dirty[d] /\ stale[d] /\ ~MergeFails(db[d], remote) =>
          LET once  == Reconcile(db[d], remote, clock)
              twice == Reconcile(once, remote, clock)
          IN ~MergeFails(once, remote) =>
                 \A e \in Live(twice) : Len(twice.entries[e].hist) <= Len(once.entries[e].hist)

\* merge/mod.rs lines 41-49: the attachment of an entry added from the remote
\* arrives, and those of entries only this device has are left alone.
AttachmentsSurviveMerge ==
    [][\A d \in Device : MergeSync(d) =>
         \A x \in {db[d], remote}, y \in {db[d], remote} :
             \A e \in (Live(x) \ Live(y)) \cap Live(db'[d]) :
                 BytesOf(Reopen(db'[d]), e) = BytesOf(x, e)]_repVars
=============================================================================
