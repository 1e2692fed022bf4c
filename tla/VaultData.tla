----------------------------- MODULE VaultData -----------------------------
(***************************************************************************)
(* The database of one vault and the operations of falach-core on it       *)
(* (src/crates/falach-core/src/entry/crud.rs, group.rs, attachment.rs,     *)
(* expiration.rs, view.rs), as operators from a database to a database.    *)
(*                                                                         *)
(* DATA.  The fields and tags of an entry are one value.  An entry holds   *)
(* at most one attachment: its name is left out, and what the entry stores *)
(* is the number of the attachment in the database's binary pool, as in    *)
(* the vendored keepass crate, whose pool keeps for every number the bytes *)
(* and the entries known to refer to it.  Times are whole seconds, as      *)
(* Times::now() returns them.                                              *)
(***************************************************************************)
EXTENDS Integers, Sequences, FiniteSets

CONSTANTS
    Entry,          \* UUIDs of entries
    Group,          \* UUIDs of groups
    Root,           \* the root group
    Value,          \* contents of the fields and tags of an entry
    Bytes,          \* contents of attachments
    HistoryMax,     \* Meta/HistoryMaxItems: negative unlimited, 0 disabled
    NoGroup, NoAtt  \* absent group, absent attachment

\* A UUID has 128 bits: there are finitely many.
ASSUME VaultDataAssumption ==
    /\ IsFiniteSet(Group) /\ Root \in Group /\ NoGroup \notin Group
    /\ IsFiniteSet(Entry) /\ Entry # {}
    /\ NoAtt \notin Nat /\ HistoryMax \in Int

\* The maps of a database: insertion, union (f wins) and removal.
Put(f, k, v) == [x \in DOMAIN f \cup {k} |-> IF x = k THEN v ELSE f[x]]
Union(f, g) ==
    [x \in DOMAIN f \cup DOMAIN g |-> IF x \in DOMAIN f THEN f[x] ELSE g[x]]
Without(f, k) == [x \in DOMAIN f \ {k} |-> f[x]]

\* Database::new, with the root group of Vault::create.
EmptyDatabase(now) ==
    [groups  |-> [g \in {Root} |-> [parent |-> NoGroup, name |-> "root",
                                   lm |-> now, lc |-> now]],
     entries |-> <<>>, dead |-> <<>>, pool |-> <<>>, bin |-> NoGroup]

Live(db) == DOMAIN db.entries

\* Database::recycle_bin: the group the metadata names, if it exists.
RecycleBin(db) == IF db.bin \in DOMAIN db.groups THEN db.bin ELSE NoGroup

----------------------------------------------------------------------------
(* The binary pool.                                                        *)

\* AttachmentId::next_free
NextFree(pool) ==
    CHOOSE n \in 0..Cardinality(DOMAIN pool) :
        /\ n \notin DOMAIN pool
        /\ \A k \in 0..(n - 1) : k \in DOMAIN pool

\* EntryMut::remove_attachment_by_id on the pool: the entry no longer refers
\* to the number, and a number without known referrer is dropped.
Release(pool, id, e) ==
    IF id \notin DOMAIN pool THEN pool
    ELSE IF pool[id].refs \subseteq {e} THEN Without(pool, id)
    ELSE [pool EXCEPT ![id].refs = @ \ {e}]

\* EntryMut::add_attachment.  The old number is released after the new one
\* is stored; when both are equal the new attachment goes with it.
StoreAttachment(db, e, data) ==
    LET id  == NextFree(db.pool)
        old == db.entries[e].att
        new == Put(db.pool, id, [data |-> data, refs |-> {e}])
    IN [db EXCEPT !.pool = IF old = NoAtt THEN new ELSE Release(new, old, e),
                  !.entries[e].att = IF old = id THEN NoAtt ELSE id]

\* EntryMut::remove_attachment_by_name
DropAttachment(db, e) ==
    [db EXCEPT !.pool = Release(@, db.entries[e].att, e),
               !.entries[e].att = NoAtt]

\* The bytes an entry's attachment is read as (attachment_by_name).
BytesOf(db, e) ==
    LET id == db.entries[e].att
    IN IF id \in DOMAIN db.pool THEN db.pool[id].data ELSE NoAtt

----------------------------------------------------------------------------
(* Saving and opening.  The file stores the pool as a list, so numbers are *)
(* positions after opening, a reference without position is dropped, and   *)
(* nobody is known to refer to an attachment.  An old version of an entry  *)
(* is read into the group of the entry.                                    *)

Reopen(db) ==
    LET size == Cardinality(DOMAIN db.pool)
        Nth(n) == CHOOSE id \in DOMAIN db.pool :
                      Cardinality({k \in DOMAIN db.pool : k < id}) = n
        Ref(id) == IF id \in 0..(size - 1) THEN id ELSE NoAtt
        Old(v, g) == [v EXCEPT !.parent = g, !.att = Ref(v.att)]
        Read(r) == [r EXCEPT
            !.att = Ref(r.att),
            !.hist = [i \in DOMAIN r.hist |-> Old(r.hist[i], r.parent)]]
    IN [db EXCEPT
          !.pool = [n \in 0..(size - 1) |->
                       [data |-> db.pool[Nth(n)].data, refs |-> {}]],
          !.entries = [e \in Live(db) |-> Read(db.entries[e])]]

----------------------------------------------------------------------------
(* Entries.                                                                *)

\* A version of an entry: what History keeps of it.
Version(r) == [parent |-> r.parent, val |-> r.val, att |-> r.att, lm |-> r.lm]

\* Vault::history_cap and prune_history: newest first, the newest are kept.
Prune(h) == IF HistoryMax < 0 \/ Len(h) <= HistoryMax
            THEN h ELSE SubSeq(h, 1, HistoryMax)

\* Vault::add_entry, populate_entry_from_draft
AddEntry(db, e, g, v, now) ==
    [db EXCEPT !.entries = Put(@, e,
        [parent |-> g, val |-> v, att |-> NoAtt, lm |-> now, lc |-> now,
         exp |-> -1, hist |-> <<>>])]

\* Vault::update_entry whose closure succeeds: one snapshot, then the edit.
UpdateEntry(db, e, v, now) ==
    LET r    == db.entries[e]
        hist == IF HistoryMax = 0 THEN r.hist
                ELSE Prune(<<Version(r)>> \o r.hist)
    IN [db EXCEPT !.entries[e] = [r EXCEPT !.val = v, !.lm = now, !.hist = hist]]

\* Vault::add_tag, remove_tag, set_tags: an edit without a snapshot.
SetTags(db, e, v, now) ==
    [db EXCEPT !.entries[e].val = v, !.entries[e].lm = now]

\* Vault::move_entry: a tracked move stamps the location only.
MoveEntry(db, e, g, now) ==
    [db EXCEPT !.entries[e].parent = g, !.entries[e].lc = now]

\* Vault::purge_entry: a tombstone, and the entry's attachment is released.
PurgeEntry(db, e, now) ==
    [db EXCEPT !.dead = Put(@, e, now), !.entries = Without(@, e),
               !.pool = Release(@, db.entries[e].att, e)]

\* recycle_bin_group_id_or_create; fresh is the UUID of a new bin.
WithBin(db, fresh, now) ==
    IF RecycleBin(db) # NoGroup THEN db
    ELSE [db EXCEPT !.bin = fresh,
                    !.groups = Put(@, fresh, [parent |-> Root, name |-> "bin",
                                              lm |-> now, lc |-> now])]

\* Faulty variant: an entry that goes to the bin leaves a tombstone.
BugDeleteEntry(db, e, fresh, now) ==
    LET d == WithBin(db, fresh, now)
    IN IF d.entries[e].parent = d.bin THEN d
       ELSE [MoveEntry(d, e, d.bin, now) EXCEPT !.dead = Put(@, e, now)]

\* Vault::delete_entry with the recycle bin enabled.
DeleteEntry(db, e, fresh, now) ==
    LET d == WithBin(db, fresh, now)
    IN IF d.entries[e].parent = d.bin THEN d ELSE MoveEntry(d, e, d.bin, now)

\* Vault::add_attachment, remove_attachment: the time, and no snapshot.
AddAttachment(db, e, data, now) ==
    [StoreAttachment(db, e, data) EXCEPT !.entries[e].lm = now]
RemoveAttachment(db, e, now) ==
    [DropAttachment(db, e) EXCEPT !.entries[e].lm = now]

\* Vault::set_expiration, clear_expiration; -1: never.
SetExpiration(db, e, when, now) ==
    [db EXCEPT !.entries[e].exp = when, !.entries[e].lm = now]

----------------------------------------------------------------------------
(* Groups.                                                                 *)

\* The parent of every group of S is again in S.
ClosedUpwards(db, S) == \A g \in S : db.groups[g].parent \in S \cup {NoGroup}

\* The groups from g up to the root, which GroupMut::move_to walks through:
\* those that no set of groups with g, closed upwards, leaves out.
Ancestors(db, g) ==
    {x \in DOMAIN db.groups :
        \A S \in SUBSET DOMAIN db.groups :
            g \in S /\ ClosedUpwards(db, S) => x \in S}

\* Vault::create_group and rename_group
CreateGroup(db, g, parent, name, now) ==
    [db EXCEPT !.groups = Put(@, g, [parent |-> parent, name |-> name,
                                     lm |-> now, lc |-> now])]
RenameGroup(db, g, name, now) ==
    [db EXCEPT !.groups[g].name = name, !.groups[g].lm = now]

\* GroupMut::move_to refuses the root, an absent target and a cycle.
CanMoveGroup(db, g, to) ==
    g # Root /\ to \in DOMAIN db.groups /\ g \notin Ancestors(db, to)
RelocateGroup(db, g, to, now) ==
    [db EXCEPT !.groups[g].parent = to, !.groups[g].lc = now]

\* Vault::move_group also refuses the recycle bin as a target.
MoveGroupAllowed(db, g, to) ==
    CanMoveGroup(db, g, to) /\ to # RecycleBin(db)

\* Vault::delete_group: with GroupDeleteBehavior::Refuse only an empty group.
\* The bin is created before the move may still be refused for a cycle.
GroupIsEmpty(db, g) ==
    /\ \A e \in Live(db) : db.entries[e].parent # g
    /\ \A x \in DOMAIN db.groups : db.groups[x].parent # g
DeleteGroup(db, g, fresh, now) ==
    LET d == WithBin(db, fresh, now)
    IN IF g = d.bin \/ ~CanMoveGroup(d, g, d.bin) THEN d
       ELSE RelocateGroup(d, g, d.bin, now)
=============================================================================
