------------------------------- MODULE Merge -------------------------------
(***************************************************************************)
(* reconcile (src/crates/falach-sync/src/merge/mod.rs): the fold of a      *)
(* remote database into the local one, on top of Database::merge of the    *)
(* vendored keepass crate (src/vendor/keepass/src/db/merge.rs).            *)
(*                                                                         *)
(* falach never deletes a group for good (delete_group moves it to the     *)
(* recycle bin), so only entries have tombstones here.                     *)
(***************************************************************************)
EXTENDS VaultData, FiniteSetsExt

\* content_only: id and group count, times and history do not.
Content(v) == [parent |-> v.parent, val |-> v.val, att |-> v.att]

\* history_has_version
HistoryHas(r, v) ==
    \E i \in DOMAIN r.hist :
        r.hist[i].lm = v.lm /\ Content(r.hist[i]) = Content(v)

----------------------------------------------------------------------------
(* Database::merge.                                                        *)

\* The history sorted by time, oldest first; equal times keep their order.
ByTime(h) ==
    LET Rank(i) == Cardinality({j \in DOMAIN h :
                        h[j].lm < h[i].lm \/ (h[j].lm = h[i].lm /\ j <= i)})
    IN [n \in 1..Len(h) |-> h[CHOOSE i \in DOMAIN h : Rank(i) = n]]

\* One round of the loop of merge_history: i versions of d and j of s are
\* left, and the newest of them, or both, are moved to the end of out.
HistoryRound(d, s, v) ==
    LET i == v.i
        j == v.j
    IN IF i = 0 /\ j = 0 THEN v
       ELSE IF j = 0 \/ (i > 0 /\ d[i].lm > s[j].lm)
            THEN [v EXCEPT !.i = i - 1, !.out = Append(v.out, d[i])]
       ELSE IF i = 0 \/ s[j].lm > d[i].lm
            THEN [v EXCEPT !.j = j - 1, !.out = Append(v.out, s[j])]
       ELSE [i |-> i - 1, j |-> j - 1,
             out |-> IF Content(d[i]) = Content(s[j]) THEN Append(v.out, d[i])
                     ELSE Append(Append(v.out, d[i]), s[j])]

\* merge_history: newest first, a version both sides have is taken once.
MergeHistory(dest, source) ==
    LET d == ByTime(dest)
        s == ByTime(source)
    IN FoldSet(LAMBDA n, v : HistoryRound(d, s, v),
               [i |-> Len(d), j |-> Len(s), out |-> <<>>],
               1..(Len(d) + Len(s))).out

\* merge_groups, first loop: groups of the source are added.
AddGroups(d, s) == [d EXCEPT !.groups = Union(@, s.groups)]

\* merge_entries, first loop: an entry only the source has is added as it is,
\* unless the destination deleted it at or after its last modification.
Returns(d, s, e) ==
    ~(e \in DOMAIN d.dead /\ d.dead[e] >= s.entries[e].lm)
AddEntries(d, s) ==
    LET new == {e \in Live(s) \ Live(d) : Returns(d, s, e)}
    IN [d EXCEPT !.entries = Union(@, [e \in new |-> s.entries[e]])]

\* Faulty variant: an entry modified in the second of its deletion is kept.
BugRemovedUnlessSameSecond(d, s) ==
    {e \in Live(d) \ Live(s) :
        e \in DOMAIN s.dead /\ ~(s.dead[e] <= d.entries[e].lm)}

\* merge_entries, second loop: an entry only the destination has is removed
\* when the source deleted it and it was not modified since.
Removed(d, s) ==
    {e \in Live(d) \ Live(s) :
        e \in DOMAIN s.dead /\ ~(s.dead[e] < d.entries[e].lm)}
RemoveEntries(d, s) ==
    FoldSet(LAMBDA e, acc : PurgeEntry(acc, e, s.dead[e]), d, Removed(d, s))

\* merge_entries, third loop, of two versions: first the more recent move
Relocated(r, q) ==
    IF r.parent # q.parent /\ q.lc > r.lc
    THEN [r EXCEPT !.parent = q.parent, !.lc = q.lc] ELSE r

\* merge_entries, third loop: then the more recent modification, which keeps the destination's
\* attachment and expiry.
Common(dest, q) ==
    LET r    == Relocated(dest, q)
        hist == MergeHistory(r.hist, q.hist)
        kept == IF hist # <<>> /\ Content(r) # Content(hist[1])
                THEN <<Version(r)>> \o hist ELSE hist
    IN IF r.lm = q.lm THEN r
       ELSE IF q.lm > r.lm
            THEN [r EXCEPT !.val = q.val, !.lm = q.lm, !.hist = kept]
            ELSE [r EXCEPT !.hist = hist]
Both(d, s) == Live(d) \cap Live(s)
MergeCommon(d, s) ==
    [d EXCEPT !.entries = [e \in Live(d) |->
        IF e \in Both(d, s) THEN Common(d.entries[e], s.entries[e])
        ELSE d.entries[e]]]

\* MergeError::EntryModificationTimeNotUpdated
EntryClash(d, s) ==
    \E e \in Both(d, s) :
        LET r == Relocated(d.entries[e], s.entries[e])
        IN r.lm = s.entries[e].lm /\ Content(r) # Content(s.entries[e])

\* merge_groups, last loop: the more recent move and the more recent name.
MergedGroup(g, h) ==
    LET moved == IF g.parent # h.parent /\ h.lc > g.lc
                 THEN [g EXCEPT !.parent = h.parent, !.lc = h.lc] ELSE g
    IN IF h.lm > g.lm THEN [moved EXCEPT !.name = h.name, !.lm = h.lm]
       ELSE moved
MergeGroups(d, s) ==
    [d EXCEPT !.groups = [g \in DOMAIN d.groups |->
        IF g \in DOMAIN s.groups THEN MergedGroup(d.groups[g], s.groups[g])
        ELSE d.groups[g]]]

\* MergeError::GroupModificationTimeNotUpdated, and the cycle that two moves
\* may close (the moves go through the root, so only the result counts).
GroupClash(d, s) ==
    \E g \in DOMAIN d.groups \cap DOMAIN s.groups :
        d.groups[g].lm = s.groups[g].lm /\ d.groups[g].name # s.groups[g].name
HasCycle(db) == \E g \in DOMAIN db.groups : Root \notin Ancestors(db, g)

DatabaseMerge(d, s) ==
    MergeGroups(MergeCommon(RemoveEntries(AddEntries(AddGroups(d, s), s), s), s), s)
MergeFails(d, s) ==
    EntryClash(d, s) \/ GroupClash(d, s) \/ HasCycle(DatabaseMerge(d, s))

----------------------------------------------------------------------------
(* The passes of reconcile after the merge.                                *)

\* Faulty variant: the losing version is not put back.
BugBackfillNothing(db, pre) == db

\* backfill_lost_versions
Backfill(db, pre) ==
    LET Kept(e) ==
            LET r == db.entries[e]
            IN IF /\ e \in Live(pre)
                  /\ Content(r) # Content(pre.entries[e])
                  /\ ~HistoryHas(r, pre.entries[e])
               THEN [r EXCEPT !.hist = <<Version(pre.entries[e])>> \o r.hist]
               ELSE r
    IN [db EXCEPT !.entries = [e \in Live(db) |-> Kept(e)]]

\* max(now, lm + 1s), after a pass has changed an attachment.
Advance(db, e, now) ==
    [db EXCEPT !.entries[e].lm = IF @ + 1 > now THEN @ + 1 ELSE now]

\* repair_added_entry_attachments
RepairAdded(db, l, r, now) ==
    LET todo == {e \in Live(db) \cap (Live(r) \ Live(l)) : r.entries[e].att # NoAtt}
        Fix(e, acc) == Advance(StoreAttachment(acc, e, BytesOf(r, e)), e, now)
    IN FoldSet(Fix, db, todo)

\* propagate_both_side_attachments: only where the remote is strictly newer
\* and the bytes differ.
PropagateBoth(db, l, r, now) ==
    LET todo == {e \in Live(db) \cap Live(l) \cap Live(r) :
                    r.entries[e].lm > l.entries[e].lm}
        Fix(e, acc) ==
            IF BytesOf(acc, e) = BytesOf(r, e) THEN acc
            ELSE Advance(IF r.entries[e].att = NoAtt THEN DropAttachment(acc, e)
                         ELSE StoreAttachment(acc, e, BytesOf(r, e)), e, now)
    IN FoldSet(Fix, db, todo)

\* reconcile.  On an error the caller drops the database without saving it.
Reconcile(l, r, now) ==
    LET merged == Backfill(Backfill(DatabaseMerge(l, r), l), r)
    IN PropagateBoth(RepairAdded(merged, l, r, now), l, r, now)

\* delta_between: what MergeSummary reports.
Delta(before, after) ==
    [added    |-> Live(after) \ Live(before),
     removed  |-> Live(before) \ Live(after),
     modified |-> {e \in Live(before) \cap Live(after) :
                      before.entries[e].lm # after.entries[e].lm}]
=============================================================================
