-------------------------- MODULE Replicas_proofs --------------------------
(***************************************************************************)
(* DatabaseIsSound of Replicas, proved for any number of devices, entries, *)
(* groups and operations: every copy of the database stays a tree with its *)
(* entries in it, and no entry lives on with a modification older than its *)
(* tombstone.                                                              *)
(***************************************************************************)
EXTENDS Replicas, FiniteSetTheorems, SequenceTheorems, TLAPS

----------------------------------------------------------------------------
(* The inductive invariant.  DatabaseIsSound speaks of the copies alone;   *)
(* what keeps them sound is that a new group gets a UUID nobody has (so    *)
(* every group of a copy is among ids) and that the time never goes back   *)
(* (so no tombstone is younger than the clock).                            *)

\* A history is a list of versions, whatever they hold.
Items(h) == {h[i] : i \in DOMAIN h}
IsHistory(h) == h \in Seq(Items(h))

\* The records a database is made of have the fields of VaultData.
IsDb(x) == DOMAIN x = {"groups", "entries", "dead", "pool", "bin"}
IsGroup(r) == DOMAIN r = {"parent", "name", "lm", "lc"}
IsEntry(r) ==
    /\ DOMAIN r = {"parent", "val", "att", "lm", "lc", "exp", "hist"}
    /\ IsHistory(r.hist)

\* Every group has a parent among the groups, or none.
HasParents(x) ==
    \A g \in DOMAIN x.groups :
        /\ IsGroup(x.groups[g])
        /\ x.groups[g].parent \in DOMAIN x.groups \cup {NoGroup}

\* From every group the way up ends at the root.
IsRooted(x) ==
    \A S \in SUBSET DOMAIN x.groups :
        S # {} /\ ClosedUpwards(x, S) => Root \in S

IsTree(x) ==
    /\ DOMAIN x.groups \subseteq Group
    /\ Root \in DOMAIN x.groups
    /\ HasParents(x)
    /\ IsRooted(x)

\* Every entry lies in a group.
HoldsEntries(x) ==
    /\ Live(x) \subseteq Entry
    /\ \A e \in Live(x) :
        /\ IsEntry(x.entries[e])
        /\ x.entries[e].parent \in DOMAIN x.groups
        /\ x.entries[e].lm \in Int

\* Tombstones are not from the future, and no entry is older than its own.
HoldsTombs(x, now) ==
    /\ \A e \in DOMAIN x.dead : x.dead[e] \in Int /\ x.dead[e] <= now
    /\ \A e \in Live(x) \cap DOMAIN x.dead : x.entries[e].lm >= x.dead[e]

Sound(x, now, known) ==
    /\ IsDb(x) /\ IsTree(x)
    /\ DOMAIN x.groups \subseteq known
    /\ HoldsEntries(x) /\ HoldsTombs(x, now)

\* A sound database, but for cycles among its groups.
Formed(x, now, known) ==
    /\ IsDb(x)
    /\ DOMAIN x.groups \subseteq Group \cap known /\ Root \in DOMAIN x.groups
    /\ HasParents(x) /\ HoldsEntries(x) /\ HoldsTombs(x, now)

RepInv ==
    /\ clock \in Int
    /\ db = [d \in Device |-> db[d]]
    /\ \A d \in Device : Sound(db[d], clock, ids)
    /\ Sound(remote, clock, ids)

----------------------------------------------------------------------------
(* Histories.                                                              *)

\* A function on 1..n is a history.
LEMMA FunctionIsHistory ==
    ASSUME NEW h, NEW n \in Nat, DOMAIN h = 1..n, h = [i \in 1..n |-> h[i]]
    PROVE  IsHistory(h)
<1>1. h \in [1..n -> Items(h)]
    BY DEF Items
<1> QED
    BY <1>1 DEF IsHistory

\* Every list is a history ...
LEMMA HistoryOf ==
    ASSUME NEW S, NEW h \in Seq(S)
    PROVE  IsHistory(h)
<1>1. h \in [1..Len(h) -> S] /\ Len(h) \in Nat
    OBVIOUS
<1>2. DOMAIN h = 1..Len(h) /\ h = [i \in 1..Len(h) |-> h[i]]
    BY <1>1
<1> QED
    BY <1>1, <1>2, FunctionIsHistory

\* ... and a history is a list of whatever holds its versions.
LEMMA HistoryIn ==
    ASSUME NEW h, IsHistory(h), NEW S, Items(h) \subseteq S
    PROVE  h \in Seq(S)
<1>1. h \in [1..Len(h) -> Items(h)] /\ Len(h) \in Nat
    BY DEF IsHistory
<1>2. h \in [1..Len(h) -> S]
    BY <1>1
<1> QED
    BY <1>1, <1>2

\* The history of a new entry.
LEMMA EmptyHistory == IsHistory(<<>>) /\ Items(<<>>) = {}
    BY DEF IsHistory, Items

\* One version more at the end, as merge_history's loop adds it.
LEMMA AppendHistory ==
    ASSUME NEW h, IsHistory(h), NEW v
    PROVE  IsHistory(Append(h, v))
<1>1. h \in Seq(Items(h) \cup {v})
    BY HistoryIn
<1>2. Append(h, v) \in Seq(Items(h) \cup {v})
    BY <1>1
<1> QED
    BY <1>2, HistoryOf

\* One version more in front, as update_entry and the backfill add it.
LEMMA ConsHistory ==
    ASSUME NEW h, IsHistory(h), NEW v
    PROVE  IsHistory(<<v>> \o h) /\ Items(<<v>> \o h) = Items(h) \cup {v}
<1> DEFINE S == Items(h) \cup {v}
<1>1. h \in Seq(S) /\ <<v>> \in Seq(S)
    BY HistoryIn
<1> DEFINE k == <<v>> \o h
<1>2. k \in Seq(S)
    BY <1>1
<1>3. DOMAIN h = 1..Len(h) /\ Len(h) \in Nat
    BY <1>1
<1>4. DOMAIN k = 1..(Len(h)+1) /\ k[1] = v /\ \A i \in 1..Len(h) : k[i+1] = h[i]
  <2> HIDE DEF S
  <2>1. /\ Len(k) = Len(<<v>>) + Len(h)
        /\ \A i \in 1 .. Len(<<v>>) + Len(h) : k[i] =
                     IF i <= Len(<<v>>) THEN <<v>>[i] ELSE h[i - Len(<<v>>)]
    BY <1>1, ConcatProperties
  <2>2. Len(<<v>>) = 1 /\ <<v>>[1] = v
    OBVIOUS
  <2>3. DOMAIN k = 1..Len(k)
    BY <1>2
  <2> HIDE DEF k
  <2> QED BY <1>3, <2>1, <2>2, <2>3
<1> HIDE DEF k
<1>5. Items(k) \subseteq S
    BY <1>2 DEF Items
<1>6. \A x \in Items(h) : x \in Items(k)
    BY <1>3, <1>4 DEF Items
<1>7. v \in Items(k)
    BY <1>3, <1>4 DEF Items
<1>8. IsHistory(k)
    BY <1>2, HistoryOf
<1> QED
    BY <1>5, <1>6, <1>7, <1>8 DEF k

\* The newest versions, as prune_history keeps them.
LEMMA SubHistory ==
    ASSUME NEW h, IsHistory(h), NEW n \in Nat, n <= Len(h)
    PROVE  IsHistory(SubSeq(h, 1, n))
<1>1. SubSeq(h, 1, n) \in Seq(Items(h))
    BY DEF IsHistory
<1> QED
    BY <1>1, HistoryOf

----------------------------------------------------------------------------
\* The invariant says what DatabaseIsSound says of one database.
LEMMA SoundIsRooted ==
    ASSUME NEW x, NEW now, NEW known, Sound(x, now, known)
    PROVE  /\ ~HasCycle(x)
           /\ \A e \in Live(x) : x.entries[e].parent \in DOMAIN x.groups
           /\ \A e \in Live(x) \cap DOMAIN x.dead : x.entries[e].lm >= x.dead[e]
<1>1. \A g \in DOMAIN x.groups : Root \in Ancestors(x, g)
    BY DEF Sound, IsTree, IsRooted, Ancestors
<1>2. ~HasCycle(x)
    BY <1>1 DEF HasCycle
<1> QED
    BY <1>2 DEF Sound, HoldsEntries, HoldsTombs

\* Time passes and UUIDs are handed out: a sound database stays sound.
LEMMA SoundLater ==
    ASSUME NEW x, NEW now \in Int, NEW known, Sound(x, now, known),
           NEW then \in Int, now <= then, NEW more, known \subseteq more
    PROVE  Sound(x, then, more)
<1>1. \A e \in DOMAIN x.dead : x.dead[e] \in Int /\ x.dead[e] <= then
    BY DEF Sound, HoldsTombs
<1> QED
    BY <1>1 DEF Sound, HoldsTombs

\* Only the groups of a database decide whether it is a tree.
LEMMA SameTree ==
    ASSUME NEW x, NEW y, IsTree(x), y.groups = x.groups
    PROVE  IsTree(y)
BY DEF IsTree, HasParents, IsRooted, ClosedUpwards

\* A cycle among the groups is all that can be wrong with their parents.
LEMMA TreeWithoutCycle ==
    ASSUME NEW x, DOMAIN x.groups \subseteq Group, Root \in DOMAIN x.groups,
           HasParents(x), ~HasCycle(x)
    PROVE  IsTree(x)
<1>1. \A g \in DOMAIN x.groups : Root \in Ancestors(x, g)
    BY DEF HasCycle
<1>2. IsRooted(x)
    BY <1>1 DEF Ancestors, IsRooted
<1> QED
    BY <1>2 DEF IsTree

\* A new group below a group of the tree gives a tree.
LEMMA TreeGrows ==
    ASSUME NEW x, NEW y, IsTree(x),
           NEW g \in Group, g \notin DOMAIN x.groups,
           NEW r, IsGroup(r), r.parent \in DOMAIN x.groups,
           y.groups = Put(x.groups, g, r)
    PROVE  IsTree(y)
<1>1. DOMAIN y.groups = DOMAIN x.groups \cup {g} /\ y.groups[g] = r
    BY DEF Put
<1>2. \A h \in DOMAIN x.groups : y.groups[h] = x.groups[h]
    BY DEF Put
<1>3. HasParents(y)
    BY <1>1, <1>2 DEF HasParents, IsTree
<1>4. NoGroup \notin DOMAIN x.groups /\ g # NoGroup
    BY VaultDataAssumption DEF IsTree
<1>5. ASSUME NEW S \in SUBSET DOMAIN y.groups, S # {}, ClosedUpwards(y, S)
      PROVE  Root \in S
  <2> DEFINE O == S \ {g}
  <2>1. O \in SUBSET DOMAIN x.groups
    BY <1>1
  <2>2. ClosedUpwards(x, O)
    BY <1>2, <1>5, <2>1 DEF ClosedUpwards, IsTree, HasParents
  <2>3. O # {}
    BY <1>1, <1>4, <1>5 DEF ClosedUpwards
  <2> QED
    BY <2>1, <2>2, <2>3 DEF IsTree, IsRooted
<1> QED
    BY <1>1, <1>3, <1>5 DEF IsTree, IsRooted

\* Moving a group to one that does not lie below it gives a tree.
LEMMA TreeMoves ==
    ASSUME NEW x, NEW y, IsTree(x),
           NEW g \in DOMAIN x.groups, NEW to, CanMoveGroup(x, g, to),
           DOMAIN y.groups = DOMAIN x.groups,
           IsGroup(y.groups[g]), y.groups[g].parent = to,
           \A h \in DOMAIN x.groups : h # g => y.groups[h] = x.groups[h]
    PROVE  IsTree(y)
<1>1. g # Root /\ to \in DOMAIN x.groups /\ g \notin Ancestors(x, to)
    BY DEF CanMoveGroup
<1>2. HasParents(y)
    BY <1>1 DEF HasParents, IsTree
<1>3. PICK A \in SUBSET DOMAIN x.groups :
          to \in A /\ ClosedUpwards(x, A) /\ g \notin A
    BY <1>1 DEF Ancestors
<1>4. ASSUME NEW S \in SUBSET DOMAIN y.groups, S # {}, ClosedUpwards(y, S)
      PROVE  Root \in S
  <2>1. CASE g \in S
    <3>1. to \in S
        BY <1>1, <1>4, <2>1, VaultDataAssumption DEF ClosedUpwards, IsTree
    <3>2. ClosedUpwards(x, S \cap A)
        BY <1>3, <1>4 DEF ClosedUpwards
    <3>3. S \cap A \in SUBSET DOMAIN x.groups /\ S \cap A # {}
        BY <1>3, <3>1
    <3> QED
        BY <3>2, <3>3 DEF IsTree, IsRooted
  <2>2. CASE g \notin S
    <3>1. ClosedUpwards(x, S)
        BY <1>4, <2>2 DEF ClosedUpwards
    <3> QED
        BY <1>4, <3>1 DEF IsTree, IsRooted
  <2> QED
    BY <2>1, <2>2
<1> QED
    BY <1>2, <1>4 DEF IsTree, IsRooted

----------------------------------------------------------------------------
(* The users' operations.                                                  *)

\* An entry is replaced by one in a group that is not older, or of now.
LEMMA EntryChanges ==
    ASSUME NEW x, NEW now \in Int, NEW known, Sound(x, now, known),
           NEW e \in Live(x), NEW r,
           IsEntry(r), r.parent \in DOMAIN x.groups, r.lm \in Int,
           r.lm = now \/ r.lm >= x.entries[e].lm,
           NEW y, IsDb(y), y.groups = x.groups, y.dead = x.dead,
           y.entries = [x.entries EXCEPT ![e] = r]
    PROVE  Sound(y, now, known) /\ Live(y) = Live(x)
<1>1. Live(y) = Live(x) /\ y.entries[e] = r
    BY DEF Live
<1>2. \A f \in Live(x) : f # e => y.entries[f] = x.entries[f]
    BY DEF Live
<1>3. IsTree(y)
    BY <1>1, SameTree DEF Sound
<1>4. HoldsEntries(y)
    BY <1>1, <1>2 DEF Sound, HoldsEntries
<1>5. \A f \in Live(y) \cap DOMAIN y.dead : y.entries[f].lm >= y.dead[f]
    BY <1>1, <1>2 DEF Sound, HoldsTombs, HoldsEntries
<1> QED
    BY <1>1, <1>3, <1>4, <1>5 DEF Sound, HoldsTombs

\* add_entry keeps a database sound: its entry is in a group and has no tombstone.
LEMMA AddEntrySound ==
    ASSUME NEW x, NEW now \in Int, NEW known, Sound(x, now, known),
           NEW e \in Entry, NEW g \in DOMAIN x.groups, NEW v
    PROVE  Sound(AddEntry(x, e, g, v, now), now, known)
<1> DEFINE r == [parent |-> g, val |-> v, att |-> NoAtt, lm |-> now, lc |-> now,
                 exp |-> -1, hist |-> <<>>]
<1> DEFINE y == AddEntry(x, e, g, v, now)
<1>1. /\ IsDb(y) /\ y.groups = x.groups /\ y.dead = x.dead
      /\ y.entries = Put(x.entries, e, r)
    BY DEF AddEntry, Sound, IsDb
<1>2. IsEntry(r) /\ r.parent = g /\ r.lm = now
    BY EmptyHistory DEF IsEntry
<1> HIDE DEF r, y
<1>3. /\ IsDb(y) /\ y.groups = x.groups /\ y.dead = x.dead
      /\ y.entries = Put(x.entries, e, r)
    BY <1>1
<1>4. Live(y) = Live(x) \cup {e} /\ y.entries[e] = r
    BY <1>3 DEF Live, Put
<1>5. \A f \in Live(x) : f # e => y.entries[f] = x.entries[f]
    BY <1>3 DEF Live, Put
<1>6. IsTree(y)
    BY <1>3, SameTree DEF Sound
<1>7. HoldsEntries(y)
    BY <1>2, <1>3, <1>4, <1>5 DEF Sound, HoldsEntries
<1>8. \A f \in Live(y) \cap DOMAIN y.dead : y.entries[f].lm >= y.dead[f]
    BY <1>2, <1>3, <1>4, <1>5 DEF Sound, HoldsTombs
<1>9. Sound(y, now, known)
    BY <1>3, <1>6, <1>7, <1>8 DEF Sound, HoldsTombs
<1> QED
    BY <1>9 DEF y

\* Pruning a history to its limit leaves a history in order.
LEMMA PrunedHistory ==
    ASSUME NEW h, IsHistory(h)
    PROVE  IsHistory(Prune(h))
<1>1. HistoryMax \in Int /\ Len(h) \in Nat
    BY VaultDataAssumption DEF IsHistory
<1> QED
    BY <1>1, SubHistory DEF Prune

\* update_entry keeps a database sound: the old version goes into the history.
LEMMA UpdateEntrySound ==
    ASSUME NEW x, NEW now \in Int, NEW known, Sound(x, now, known),
           NEW e \in Live(x), NEW v
    PROVE  Sound(UpdateEntry(x, e, v, now), now, known)
<1> DEFINE q == x.entries[e]
<1> DEFINE h == IF HistoryMax = 0 THEN q.hist
                ELSE Prune(<<Version(q)>> \o q.hist)
<1> DEFINE r == [q EXCEPT !.val = v, !.lm = now, !.hist = h]
<1> DEFINE y == UpdateEntry(x, e, v, now)
<1>1. IsEntry(q) /\ q.parent \in DOMAIN x.groups
    BY DEF Sound, HoldsEntries
<1>2. y = [x EXCEPT !.entries = [x.entries EXCEPT ![e] = r]]
    BY DEF UpdateEntry
<1> HIDE DEF q, y
<1>3. IsHistory(h)
    BY <1>1, ConsHistory, PrunedHistory DEF IsEntry
<1> HIDE DEF h
<1>4. IsEntry(r) /\ r.parent = q.parent /\ r.lm = now
    BY <1>1, <1>3 DEF IsEntry
<1> HIDE DEF r
<1>5. /\ IsDb(y) /\ y.groups = x.groups /\ y.dead = x.dead
      /\ y.entries = [x.entries EXCEPT ![e] = r]
    BY <1>2 DEF Sound, IsDb
<1>6. Sound(y, now, known)
    BY <1>1, <1>4, <1>5, EntryChanges
<1> QED
    BY <1>6 DEF y

\* An edit of the time alone, or of fields the invariant does not speak of.
LEMMA SetTagsSound ==
    ASSUME NEW x, NEW now \in Int, NEW known, Sound(x, now, known),
           NEW e \in Live(x), NEW v
    PROVE  Sound(SetTags(x, e, v, now), now, known)
<1> DEFINE q == x.entries[e]
<1> DEFINE r == [q EXCEPT !.val = v, !.lm = now]
<1> DEFINE y == SetTags(x, e, v, now)
<1>1. IsEntry(q) /\ q.parent \in DOMAIN x.groups
    BY DEF Sound, HoldsEntries
<1>2. /\ IsDb(y) /\ y.groups = x.groups /\ y.dead = x.dead
      /\ y.entries = [x.entries EXCEPT ![e] = r]
    BY DEF SetTags, Sound, IsDb, Live
<1> HIDE DEF q, y
<1>3. IsEntry(r) /\ r.parent = q.parent /\ r.lm = now
    BY <1>1 DEF IsEntry
<1>4. Sound(y, now, known)
  <2> HIDE DEF r
  <2> QED BY <1>1, <1>2, <1>3, EntryChanges
<1> QED
    BY <1>4 DEF y

\* move_entry keeps a database sound: the entry goes to a group that is there.
LEMMA MoveEntrySound ==
    ASSUME NEW x, NEW now \in Int, NEW known, Sound(x, now, known),
           NEW e \in Live(x), NEW g \in DOMAIN x.groups
    PROVE  Sound(MoveEntry(x, e, g, now), now, known)
<1> DEFINE q == x.entries[e]
<1> DEFINE r == [q EXCEPT !.parent = g, !.lc = now]
<1> DEFINE y == MoveEntry(x, e, g, now)
<1>1. IsEntry(q) /\ q.lm \in Int
    BY DEF Sound, HoldsEntries
<1>2. /\ IsDb(y) /\ y.groups = x.groups /\ y.dead = x.dead
      /\ y.entries = [x.entries EXCEPT ![e] = r]
    BY DEF MoveEntry, Sound, IsDb, Live
<1>3. IsEntry(r) /\ r.parent = g /\ r.lm = q.lm
    BY <1>1 DEF IsEntry
<1>4. Sound(y, now, known)
  <2> HIDE DEF r, y
  <2> QED BY <1>1, <1>2, <1>3, EntryChanges
<1> QED
    BY <1>4 DEF y

\* set_expiration keeps a database sound.
LEMMA SetExpirationSound ==
    ASSUME NEW x, NEW now \in Int, NEW known, Sound(x, now, known),
           NEW e \in Live(x), NEW when
    PROVE  Sound(SetExpiration(x, e, when, now), now, known)
<1> DEFINE q == x.entries[e]
<1> DEFINE r == [q EXCEPT !.exp = when, !.lm = now]
<1> DEFINE y == SetExpiration(x, e, when, now)
<1>1. IsEntry(q) /\ q.parent \in DOMAIN x.groups
    BY DEF Sound, HoldsEntries
<1>2. /\ IsDb(y) /\ y.groups = x.groups /\ y.dead = x.dead
      /\ y.entries = [x.entries EXCEPT ![e] = r]
    BY DEF SetExpiration, Sound, IsDb, Live
<1>3. IsEntry(r) /\ r.parent = q.parent /\ r.lm = now
    BY <1>1 DEF IsEntry
<1>4. Sound(y, now, known)
  <2> HIDE DEF r, y
  <2> QED BY <1>1, <1>2, <1>3, EntryChanges
<1> QED
    BY <1>4 DEF y

\* The time an attachment operation sets: now, or one past the old time.
LEMMA TimeSound ==
    ASSUME NEW x, NEW now \in Int, NEW known, Sound(x, now, known),
           NEW e \in Live(x), NEW t \in Int,
           t = now \/ t >= x.entries[e].lm
    PROVE  /\ Sound([x EXCEPT !.entries[e].lm = t], now, known)
           /\ Live([x EXCEPT !.entries[e].lm = t]) = Live(x)
<1> DEFINE q == x.entries[e]
<1> DEFINE r == [q EXCEPT !.lm = t]
<1> DEFINE y == [x EXCEPT !.entries[e].lm = t]
<1>1. IsEntry(q) /\ q.parent \in DOMAIN x.groups
    BY DEF Sound, HoldsEntries
<1>2. /\ IsDb(y) /\ y.groups = x.groups /\ y.dead = x.dead
      /\ y.entries = [x.entries EXCEPT ![e] = r]
    BY DEF Sound, IsDb, Live
<1>3. IsEntry(r) /\ r.parent = q.parent /\ r.lm = t
    BY <1>1 DEF IsEntry
<1>4. Sound(y, now, known) /\ Live(y) = Live(x)
  <2> HIDE DEF r, y
  <2> QED BY <1>1, <1>2, <1>3, EntryChanges
<1> QED
    BY <1>4 DEF y

\* The pool and the number of an attachment may become anything.
LEMMA NumberSound ==
    ASSUME NEW x, NEW now \in Int, NEW known, Sound(x, now, known),
           NEW e \in Live(x), NEW id,
           NEW y, IsDb(y), y.groups = x.groups, y.dead = x.dead,
           y.entries = [x.entries EXCEPT ![e].att = id]
    PROVE  Sound(y, now, known) /\ Live(y) = Live(x)
<1> DEFINE q == x.entries[e]
<1> DEFINE r == [q EXCEPT !.att = id]
<1>1. IsEntry(q) /\ q.parent \in DOMAIN x.groups /\ q.lm \in Int
    BY DEF Sound, HoldsEntries
<1>2. IsEntry(r) /\ r.parent = q.parent /\ r.lm = q.lm
    BY <1>1 DEF IsEntry
<1>3. y.entries = [x.entries EXCEPT ![e] = r]
    OBVIOUS
<1> HIDE DEF r
<1> QED
    BY <1>1, <1>2, <1>3, EntryChanges

\* Storing an attachment keeps the pool and the references to it in step.
LEMMA StoreAttachmentSound ==
    ASSUME NEW x, NEW now \in Int, NEW known, Sound(x, now, known),
           NEW e \in Live(x), NEW data
    PROVE  /\ Sound(StoreAttachment(x, e, data), now, known)
           /\ Live(StoreAttachment(x, e, data)) = Live(x)
<1> DEFINE num  == NextFree(x.pool)
<1> DEFINE old  == x.entries[e].att
<1> DEFINE new  == Put(x.pool, num, [data |-> data, refs |-> {e}])
<1> DEFINE pool == IF old = NoAtt THEN new ELSE Release(new, old, e)
<1> DEFINE id   == IF old = num THEN NoAtt ELSE num
<1> DEFINE y    == StoreAttachment(x, e, data)
<1>1. y = [x EXCEPT !.pool = pool, !.entries[e].att = id]
    BY DEF StoreAttachment
<1> HIDE DEF pool, id, y
<1>2. /\ IsDb(y) /\ y.groups = x.groups /\ y.dead = x.dead
      /\ y.entries = [x.entries EXCEPT ![e].att = id]
    BY <1>1 DEF Sound, IsDb
<1>3. Sound(y, now, known) /\ Live(y) = Live(x)
    BY <1>2, NumberSound
<1> QED
    BY <1>3 DEF y

\* Dropping an attachment takes it from the pool when nothing else refers to it.
LEMMA DropAttachmentSound ==
    ASSUME NEW x, NEW now \in Int, NEW known, Sound(x, now, known),
           NEW e \in Live(x)
    PROVE  /\ Sound(DropAttachment(x, e), now, known)
           /\ Live(DropAttachment(x, e)) = Live(x)
<1> DEFINE y == DropAttachment(x, e)
<1>1. /\ IsDb(y) /\ y.groups = x.groups /\ y.dead = x.dead
      /\ y.entries = [x.entries EXCEPT ![e].att = NoAtt]
    BY DEF DropAttachment, Sound, IsDb
<1> HIDE DEF y
<1>2. Sound(y, now, known) /\ Live(y) = Live(x)
    BY <1>1, NumberSound
<1> QED
    BY <1>2 DEF y

\* add_attachment keeps a database sound, the modification it records included.
LEMMA AddAttachmentSound ==
    ASSUME NEW x, NEW now \in Int, NEW known, Sound(x, now, known),
           NEW e \in Live(x), NEW data
    PROVE  Sound(AddAttachment(x, e, data, now), now, known)
BY StoreAttachmentSound, TimeSound DEF AddAttachment

\* remove_attachment keeps a database sound, the modification it records included.
LEMMA RemoveAttachmentSound ==
    ASSUME NEW x, NEW now \in Int, NEW known, Sound(x, now, known),
           NEW e \in Live(x)
    PROVE  Sound(RemoveAttachment(x, e, now), now, known)
BY DropAttachmentSound, TimeSound DEF RemoveAttachment

\* A purge buries the entry at a time that is not in the future.
LEMMA PurgeEntryFormed ==
    ASSUME NEW x, NEW now \in Int, NEW known, Formed(x, now, known),
           NEW e, NEW t \in Int, t <= now
    PROVE  /\ Formed(PurgeEntry(x, e, t), now, known)
           /\ PurgeEntry(x, e, t).groups = x.groups
<1> DEFINE y == PurgeEntry(x, e, t)
<1>1. /\ IsDb(y) /\ y.groups = x.groups
      /\ y.dead = Put(x.dead, e, t) /\ y.entries = Without(x.entries, e)
    BY DEF PurgeEntry, Formed, IsDb
<1> HIDE DEF y
<1>2. Live(y) = Live(x) \ {e}
    BY <1>1 DEF Live, Without
<1>3. \A f \in Live(y) : y.entries[f] = x.entries[f]
    BY <1>1 DEF Live, Without
<1>4. HasParents(y)
    BY <1>1 DEF Formed, HasParents
<1>5. HoldsEntries(y)
    BY <1>1, <1>2, <1>3 DEF Formed, HoldsEntries
<1>6. DOMAIN y.dead = DOMAIN x.dead \cup {e} /\ y.dead[e] = t
    BY <1>1 DEF Put
<1>7. \A f \in DOMAIN x.dead : f # e => y.dead[f] = x.dead[f]
    BY <1>1 DEF Put
<1>8. HoldsTombs(y, now)
    BY <1>2, <1>3, <1>6, <1>7 DEF Formed, HoldsTombs
<1>9. Formed(y, now, known)
    BY <1>1, <1>4, <1>5, <1>8 DEF Formed
<1> QED
    BY <1>1, <1>9 DEF y

\* purge_entry keeps a database sound: an entry gives way to its tombstone.
LEMMA PurgeEntrySound ==
    ASSUME NEW x, NEW now \in Int, NEW known, Sound(x, now, known),
           NEW e, NEW t \in Int, t <= now
    PROVE  Sound(PurgeEntry(x, e, t), now, known)
<1>1. Formed(x, now, known)
    BY DEF Sound, Formed, IsTree
<1>2. /\ Formed(PurgeEntry(x, e, t), now, known)
      /\ PurgeEntry(x, e, t).groups = x.groups
    BY <1>1, PurgeEntryFormed
<1>3. IsTree(PurgeEntry(x, e, t))
    BY <1>2, SameTree DEF Sound
<1> QED
    BY <1>2, <1>3 DEF Sound, Formed

\* The groups of a database change, its entries and tombstones do not.
LEMMA GroupsChange ==
    ASSUME NEW x, NEW now \in Int, NEW known, Sound(x, now, known),
           NEW y, IsDb(y), IsTree(y), NEW more, known \subseteq more,
           y.entries = x.entries, y.dead = x.dead,
           DOMAIN x.groups \subseteq DOMAIN y.groups, DOMAIN y.groups \subseteq more
    PROVE  Sound(y, now, more)
<1>1. HoldsEntries(y)
    BY DEF Sound, HoldsEntries, Live
<1>2. HoldsTombs(y, now)
    BY DEF Sound, HoldsTombs, Live
<1> QED
    BY <1>1, <1>2 DEF Sound

\* create_group keeps a database sound: the new UUID was never used before.
LEMMA CreateGroupSound ==
    ASSUME NEW x, NEW now \in Int, NEW known, Sound(x, now, known),
           NEW g \in Group \ known, NEW p \in DOMAIN x.groups, NEW name
    PROVE  Sound(CreateGroup(x, g, p, name, now), now, known \cup {g})
<1> DEFINE r == [parent |-> p, name |-> name, lm |-> now, lc |-> now]
<1> DEFINE y == CreateGroup(x, g, p, name, now)
<1>1. /\ IsDb(y) /\ y.entries = x.entries /\ y.dead = x.dead
      /\ y.groups = Put(x.groups, g, r)
    BY DEF CreateGroup, Sound, IsDb
<1>2. IsGroup(r) /\ r.parent = p
    BY DEF IsGroup
<1> HIDE DEF r, y
<1>3. g \notin DOMAIN x.groups
    BY DEF Sound
<1>4. IsTree(y)
    BY <1>1, <1>2, <1>3, TreeGrows DEF Sound
<1>5. DOMAIN y.groups = DOMAIN x.groups \cup {g}
    BY <1>1 DEF Put
<1>6. /\ DOMAIN x.groups \subseteq DOMAIN y.groups
      /\ DOMAIN y.groups \subseteq known \cup {g}
    BY <1>5 DEF Sound
<1>7. Sound(y, now, known \cup {g})
    BY <1>1, <1>4, <1>6, GroupsChange
<1> QED
    BY <1>7 DEF y

\* A new name leaves the tree as it is.
LEMMA RenameGroupSound ==
    ASSUME NEW x, NEW now \in Int, NEW known, Sound(x, now, known),
           NEW g \in DOMAIN x.groups, NEW name
    PROVE  Sound(RenameGroup(x, g, name, now), now, known)
<1> DEFINE y == RenameGroup(x, g, name, now)
<1>1. \A h \in DOMAIN x.groups : IsGroup(x.groups[h])
    BY DEF Sound, IsTree, HasParents
<1>2. /\ IsDb(y) /\ y.entries = x.entries /\ y.dead = x.dead
      /\ DOMAIN y.groups = DOMAIN x.groups
    BY DEF RenameGroup, Sound, IsDb
<1>3. ASSUME NEW h \in DOMAIN x.groups
      PROVE  IsGroup(y.groups[h]) /\ y.groups[h].parent = x.groups[h].parent
    BY <1>1, <1>3 DEF RenameGroup, Sound, IsDb, IsGroup
<1> HIDE DEF y
<1>4. IsRooted(y)
    BY <1>2, <1>3 DEF Sound, IsTree, IsRooted, ClosedUpwards
<1>5. IsTree(y)
    BY <1>2, <1>3, <1>4 DEF Sound, IsTree, HasParents
<1>6. Sound(y, now, known)
    BY <1>2, <1>5, GroupsChange DEF Sound
<1> QED
    BY <1>6 DEF y

\* move_group keeps the groups a tree: it refuses a target below the group.
LEMMA RelocateGroupSound ==
    ASSUME NEW x, NEW now \in Int, NEW known, Sound(x, now, known),
           NEW g \in DOMAIN x.groups, NEW to, CanMoveGroup(x, g, to)
    PROVE  Sound(RelocateGroup(x, g, to, now), now, known)
<1> DEFINE y == RelocateGroup(x, g, to, now)
<1>1. IsGroup(x.groups[g])
    BY DEF Sound, IsTree, HasParents
<1>2. /\ IsDb(y) /\ y.entries = x.entries /\ y.dead = x.dead
      /\ DOMAIN y.groups = DOMAIN x.groups
    BY DEF RelocateGroup, Sound, IsDb
<1>3. IsGroup(y.groups[g]) /\ y.groups[g].parent = to
    BY <1>1 DEF RelocateGroup, Sound, IsDb, IsGroup
<1>4. \A h \in DOMAIN x.groups : h # g => y.groups[h] = x.groups[h]
    BY DEF RelocateGroup, Sound, IsDb
<1> HIDE DEF y
<1>5. IsTree(y)
    BY <1>2, <1>3, <1>4, TreeMoves DEF Sound
<1>6. Sound(y, now, known)
    BY <1>2, <1>5, GroupsChange DEF Sound
<1> QED
    BY <1>6 DEF y

\* The bin that a deletion finds or creates is a group of the database; a new
\* one takes a UUID that nobody has.
LEMMA WithBinSound ==
    ASSUME NEW x, NEW now \in Int, NEW known, Sound(x, now, known),
           NEW b, b \in IF RecycleBin(x) = NoGroup THEN Group \ known ELSE {NoGroup}
    PROVE  /\ Sound(WithBin(x, b, now), now, known \cup ({b} \cap Group))
           /\ WithBin(x, b, now).bin \in DOMAIN WithBin(x, b, now).groups
           /\ DOMAIN x.groups \subseteq DOMAIN WithBin(x, b, now).groups
           /\ Live(WithBin(x, b, now)) = Live(x)
<1> DEFINE more == known \cup ({b} \cap Group)
<1> DEFINE y == WithBin(x, b, now)
<1>1. CASE RecycleBin(x) # NoGroup
  <2>1. y = x
    BY <1>1 DEF WithBin
  <2>2. x.bin \in DOMAIN x.groups
    BY <1>1 DEF RecycleBin
  <2>3. Sound(x, now, more)
    BY SoundLater
  <2> QED
    BY <2>1, <2>2, <2>3
<1>2. CASE RecycleBin(x) = NoGroup
  <2>1. b \in Group \ known
    BY <1>2
  <2> DEFINE r == [parent |-> Root, name |-> "bin", lm |-> now, lc |-> now]
  <2>2. /\ IsDb(y) /\ y.entries = x.entries /\ y.dead = x.dead
        /\ y.groups = Put(x.groups, b, r) /\ y.bin = b
    BY <1>2 DEF WithBin, Sound, IsDb
  <2>3. IsGroup(r) /\ r.parent = Root
    BY DEF IsGroup
  <2> HIDE DEF r, y
  <2>4. b \notin DOMAIN x.groups /\ Root \in DOMAIN x.groups
    BY <2>1 DEF Sound, IsTree
  <2>5. IsTree(y)
    BY <2>1, <2>2, <2>3, <2>4, TreeGrows DEF Sound
  <2>6. DOMAIN y.groups = DOMAIN x.groups \cup {b}
    BY <2>2 DEF Put
  <2>7. DOMAIN x.groups \subseteq DOMAIN y.groups /\ DOMAIN y.groups \subseteq more
    BY <2>1, <2>6 DEF Sound
  <2>8. Sound(y, now, more)
    BY <2>2, <2>5, <2>7, GroupsChange
  <2>9. y.bin \in DOMAIN y.groups /\ Live(y) = Live(x)
    BY <2>2, <2>6 DEF Live
  <2> QED
    BY <2>7, <2>8, <2>9 DEF y
<1> QED
    BY <1>1, <1>2

\* delete_entry keeps a database sound, the recycle bin that it may create included.
LEMMA DeleteEntrySound ==
    ASSUME NEW x, NEW now \in Int, NEW known, Sound(x, now, known),
           NEW b, b \in IF RecycleBin(x) = NoGroup THEN Group \ known ELSE {NoGroup},
           NEW e \in Live(x)
    PROVE  Sound(DeleteEntry(x, e, b, now), now, known \cup ({b} \cap Group))
<1> DEFINE more == known \cup ({b} \cap Group)
<1> DEFINE y == WithBin(x, b, now)
<1>1. Sound(y, now, more) /\ y.bin \in DOMAIN y.groups /\ Live(y) = Live(x)
    BY WithBinSound
<1>2. DeleteEntry(x, e, b, now) = y \/ DeleteEntry(x, e, b, now) = MoveEntry(y, e, y.bin, now)
    BY DEF DeleteEntry
<1> HIDE DEF y, more
<1>3. Sound(MoveEntry(y, e, y.bin, now), now, more)
    BY <1>1, MoveEntrySound
<1>4. Sound(DeleteEntry(x, e, b, now), now, more)
    BY <1>1, <1>2, <1>3
<1> QED
    BY <1>4 DEF more

\* delete_group keeps a database sound, the recycle bin that it may create included.
LEMMA DeleteGroupSound ==
    ASSUME NEW x, NEW now \in Int, NEW known, Sound(x, now, known),
           NEW b, b \in IF RecycleBin(x) = NoGroup THEN Group \ known ELSE {NoGroup},
           NEW g \in DOMAIN x.groups
    PROVE  Sound(DeleteGroup(x, g, b, now), now, known \cup ({b} \cap Group))
<1> DEFINE more == known \cup ({b} \cap Group)
<1> DEFINE y == WithBin(x, b, now)
<1>1. Sound(y, now, more) /\ g \in DOMAIN y.groups
    BY WithBinSound
<1>2. DeleteGroup(x, g, b, now) = y
      \/ /\ CanMoveGroup(y, g, y.bin)
         /\ DeleteGroup(x, g, b, now) = RelocateGroup(y, g, y.bin, now)
    BY DEF DeleteGroup
<1> HIDE DEF y, more
<1>3. CanMoveGroup(y, g, y.bin) => Sound(RelocateGroup(y, g, y.bin, now), now, more)
    BY <1>1, RelocateGroupSound
<1>4. Sound(DeleteGroup(x, g, b, now), now, more)
    BY <1>1, <1>2, <1>3
<1> QED
    BY <1>4 DEF more

\* A database that is closed and opened again is as sound as before.
LEMMA ReopenSound ==
    ASSUME NEW x, NEW now \in Int, NEW known, Sound(x, now, known)
    PROVE  Sound(Reopen(x), now, known)
<1> DEFINE size == Cardinality(DOMAIN x.pool)
           Ref(id) == IF id \in 0..(size - 1) THEN id ELSE NoAtt
           Old(v, g) == [v EXCEPT !.parent = g, !.att = Ref(v.att)]
           Hist(r) == [i \in DOMAIN r.hist |-> Old(r.hist[i], r.parent)]
           Read(r) == [r EXCEPT !.att = Ref(r.att), !.hist = Hist(r)]
           y == Reopen(x)
<1>1. /\ IsDb(y) /\ y.groups = x.groups /\ y.dead = x.dead
      /\ y.entries = [e \in Live(x) |-> Read(x.entries[e])]
    BY DEF Reopen, Sound, IsDb
<1> HIDE DEF size, Ref, Old, y
<1>h. ASSUME NEW r, IsHistory(r.hist) PROVE IsHistory(Hist(r))
  <2>1. DOMAIN r.hist = 1..Len(r.hist) /\ Len(r.hist) \in Nat
    BY <1>h DEF IsHistory
  <2>2. DOMAIN Hist(r) = DOMAIN r.hist /\ Hist(r) = [i \in DOMAIN r.hist |-> Hist(r)[i]]
    OBVIOUS
  <2> HIDE DEF Hist
  <2> QED
    BY <2>1, <2>2, FunctionIsHistory
<1> HIDE DEF Hist
<1>2. \A r : IsEntry(r) => /\ IsEntry(Read(r))
                           /\ Read(r).parent = r.parent /\ Read(r).lm = r.lm
    BY <1>h DEF IsEntry
<1> HIDE DEF Read
<1>3. Live(y) = Live(x) /\ \A e \in Live(x) : y.entries[e] = Read(x.entries[e])
    BY <1>1 DEF Live
<1>4. IsTree(y)
    BY <1>1, SameTree DEF Sound
<1>5. \A e \in Live(x) : y.entries[e].lm = x.entries[e].lm
    BY <1>2, <1>3 DEF Sound, HoldsEntries
<1>6. HoldsEntries(y)
    BY <1>1, <1>2, <1>3 DEF Sound, HoldsEntries
<1>7. HoldsTombs(y, now)
    BY <1>1, <1>3, <1>5 DEF Sound, HoldsTombs
<1>8. Sound(y, now, known)
    BY <1>1, <1>4, <1>6, <1>7 DEF Sound
<1> QED
    BY <1>8 DEF y

----------------------------------------------------------------------------
(* Database::merge.  Between its loops the groups may form a cycle; a      *)
(* merge whose result has one fails (MergeFails).                          *)

\* After merge's loop over the groups every group of both replicas is there.
LEMMA AddGroupsFormed ==
    ASSUME NEW d, NEW s, NEW now \in Int, NEW known,
           Sound(d, now, known), Sound(s, now, known)
    PROVE  /\ Formed(AddGroups(d, s), now, known)
           /\ AddGroups(d, s).groups = Union(d.groups, s.groups)
           /\ Live(AddGroups(d, s)) = Live(d)
<1> DEFINE y == AddGroups(d, s)
<1>1. /\ IsDb(y) /\ y.groups = Union(d.groups, s.groups)
      /\ y.dead = d.dead /\ y.entries = d.entries
    BY DEF AddGroups, Sound, IsDb
<1> HIDE DEF y
<1>2. DOMAIN y.groups = DOMAIN d.groups \cup DOMAIN s.groups
    BY <1>1 DEF Union
<1>3. \A g \in DOMAIN y.groups :
          \/ g \in DOMAIN d.groups /\ y.groups[g] = d.groups[g]
          \/ g \in DOMAIN s.groups /\ y.groups[g] = s.groups[g]
    BY <1>1 DEF Union
<1>4. HasParents(y)
    BY <1>2, <1>3 DEF Sound, IsTree, HasParents
<1>5. HoldsEntries(y)
    BY <1>1, <1>2 DEF Sound, HoldsEntries, Live
<1>6. HoldsTombs(y, now)
    BY <1>1 DEF Sound, HoldsTombs, Live
<1>7. Formed(y, now, known)
    BY <1>1, <1>2, <1>4, <1>5, <1>6 DEF Sound, IsTree, Formed
<1> QED
    BY <1>1, <1>7 DEF y, Live

\* An entry only the source has comes in younger than its tombstone, if any.
LEMMA AddEntriesFormed ==
    ASSUME NEW d, NEW s, NEW now \in Int, NEW known,
           Formed(d, now, known), Sound(s, now, known),
           DOMAIN s.groups \subseteq DOMAIN d.groups
    PROVE  /\ Formed(AddEntries(d, s), now, known)
           /\ AddEntries(d, s).groups = d.groups
<1> DEFINE new == {e \in Live(s) \ Live(d) : Returns(d, s, e)}
<1> DEFINE y == AddEntries(d, s)
<1>1. /\ IsDb(y) /\ y.groups = d.groups /\ y.dead = d.dead
      /\ y.entries = Union(d.entries, [e \in new |-> s.entries[e]])
    BY DEF AddEntries, Formed, IsDb
<1>2. new \subseteq Live(s) /\ \A e \in new : e \notin Live(d) /\ Returns(d, s, e)
    OBVIOUS
<1> HIDE DEF y, new
<1>3. Live(y) = Live(d) \cup new
    BY <1>1 DEF Live, Union
<1>4. /\ \A e \in Live(d) : y.entries[e] = d.entries[e]
      /\ \A e \in new : y.entries[e] = s.entries[e]
    BY <1>1, <1>2 DEF Live, Union
<1>5. HasParents(y)
    BY <1>1 DEF Formed, HasParents
<1>6. HoldsEntries(y)
    BY <1>1, <1>2, <1>3, <1>4 DEF Formed, Sound, HoldsEntries
<1>7. ASSUME NEW e \in Live(y) \cap DOMAIN y.dead PROVE y.entries[e].lm >= y.dead[e]
  <2>1. CASE e \in Live(d)
    BY <1>1, <1>4, <1>7, <2>1 DEF Formed, HoldsTombs
  <2>2. CASE e \in new
    <3>1. ~(d.dead[e] >= s.entries[e].lm) /\ y.entries[e] = s.entries[e]
        BY <1>1, <1>2, <1>4, <1>7, <2>2 DEF Returns
    <3>2. d.dead[e] \in Int /\ s.entries[e].lm \in Int
        BY <1>1, <1>2, <1>7, <2>2 DEF Formed, HoldsTombs, Sound, HoldsEntries
    <3> QED
        BY <1>1, <3>1, <3>2
  <2> QED
    BY <1>3, <2>1, <2>2
<1>8. HoldsTombs(y, now)
    BY <1>1, <1>7 DEF Formed, HoldsTombs
<1>9. Formed(y, now, known)
    BY <1>1, <1>5, <1>6, <1>8 DEF Formed
<1> QED
    BY <1>1, <1>9 DEF y

\* FoldSet takes its elements in an order that nothing depends on.
AnyOf(s) == CHOOSE x \in s : TRUE

\* The loop that removes the entries the source deleted: its round for one
\* entry, and what every round keeps.
PurgeRound(source, unused, e, v) == PurgeEntry(v, e, source.dead[e])
FormedOn(k, v) == Formed(v, k.now, k.known) /\ v.groups = k.groups
Purging == INSTANCE FoldFacts WITH Op <- PurgeRound, Good <- FormedOn, Pick <- AnyOf

\* merge's loop over the tombstones removes entries and keeps the groups.
LEMMA RemoveEntriesFormed ==
    ASSUME NEW d, NEW s, NEW now \in Int, NEW known,
           Formed(d, now, known), Sound(s, now, known)
    PROVE  /\ Formed(RemoveEntries(d, s), now, known)
           /\ RemoveEntries(d, s).groups = d.groups
<1> DEFINE S == Removed(d, s)
<1> DEFINE k == [now |-> now, known |-> known, groups |-> d.groups]
<1>1. Purging!IsFiniteSet(S) /\ Purging!PicksFrom(S)
  <2>1. S \subseteq Entry
    BY DEF Removed, Formed, HoldsEntries
  <2>2. IsFiniteSet(S)
    BY <2>1, VaultDataAssumption, FS_Subset
  <2> HIDE DEF S
  <2> QED
    BY <2>2 DEF IsFiniteSet, Purging!IsFiniteSet, Purging!PicksFrom, AnyOf
<1>2. \A e \in S : s.dead[e] \in Int /\ s.dead[e] <= now
    BY DEF Removed, Sound, HoldsTombs
<1>3. RemoveEntries(d, s) = Purging!Fold(s, s, d, S)
    BY DEF RemoveEntries, Purging!Fold, FoldSet, AnyOf, MapThenFoldSet,
           Purging!MapThenFoldSet, PurgeRound
<1> HIDE DEF S
<1>4. \A e \in S : \A v : FormedOn(k, v) => FormedOn(k, PurgeRound(s, s, e, v))
    BY <1>2, PurgeEntryFormed DEF FormedOn, PurgeRound
<1>5. FormedOn(k, d)
    BY DEF FormedOn
<1>6. FormedOn(k, Purging!Fold(s, s, d, S))
  <2> HIDE DEF k
  <2> QED BY <1>1, <1>4, <1>5, Purging!FoldKeeps
<1> QED
    BY <1>3, <1>6 DEF FormedOn

\* The loop of merge_history.
HistoryLoop(d, s, n, v) == HistoryRound(d, s, v)
IsLoopState(k, v) == DOMAIN v = {"i", "j", "out"} /\ IsHistory(v.out)
Merging == INSTANCE FoldFacts WITH Op <- HistoryLoop, Good <- IsLoopState, Pick <- AnyOf

\* The union of two histories, sorted by time, is a history in order.
LEMMA MergeHistoryIsHistory ==
    ASSUME NEW dest, NEW source, IsHistory(dest), IsHistory(source)
    PROVE  IsHistory(MergeHistory(dest, source))
<1> DEFINE d    == ByTime(dest)
           s    == ByTime(source)
           S    == 1..(Len(d) + Len(s))
           base == [i |-> Len(d), j |-> Len(s), out |-> <<>>]
<1>1. MergeHistory(dest, source) = Merging!Fold(d, s, base, S).out
    BY DEF MergeHistory, Merging!Fold, FoldSet, AnyOf, MapThenFoldSet,
           Merging!MapThenFoldSet, HistoryLoop
<1>2. Len(d) \in Nat /\ Len(s) \in Nat
  <2>1. ASSUME NEW h, IsHistory(h) PROVE Len(ByTime(h)) \in Nat
    <3>1. Len(h) \in Nat
        BY <2>1 DEF IsHistory
    <3>2. DOMAIN ByTime(h) = 1..Len(h)
        BY DEF ByTime
    <3>3. ByTime(h) = [n \in 1..Len(h) |-> ByTime(h)[n]]
        BY DEF ByTime
    <3>4. IsHistory(ByTime(h))
        BY <3>1, <3>2, <3>3, FunctionIsHistory
    <3> QED
        BY <3>4 DEF IsHistory
  <2> QED
    BY <2>1
<1>3. IsLoopState(0, base)
    BY EmptyHistory DEF IsLoopState
<1> HIDE DEF d, s, base
<1>4. Merging!IsFiniteSet(S) /\ Merging!PicksFrom(S)
  <2>1. IsFiniteSet(S)
    BY <1>2, FS_Interval
  <2> HIDE DEF S
  <2> QED
    BY <2>1 DEF IsFiniteSet, Merging!IsFiniteSet, Merging!PicksFrom, AnyOf
<1> HIDE DEF S
<1>5. \A n \in S : \A v : IsLoopState(0, v) => IsLoopState(0, HistoryLoop(d, s, n, v))
    BY AppendHistory DEF IsLoopState, HistoryLoop, HistoryRound
<1>6. IsLoopState(0, Merging!Fold(d, s, base, S))
    BY <1>3, <1>4, <1>5, Merging!FoldKeeps
<1> QED
    BY <1>1, <1>6 DEF IsLoopState

\* Of two versions of an entry the merge makes one that lies where one of them
\* lies and is not older than the destination's.
LEMMA CommonEntry ==
    ASSUME NEW r, NEW q, IsEntry(r), IsEntry(q), r.lm \in Int, q.lm \in Int
    PROVE  /\ IsEntry(Common(r, q)) /\ Common(r, q).parent \in {r.parent, q.parent}
           /\ Common(r, q).lm \in Int /\ Common(r, q).lm >= r.lm
<1> DEFINE m    == Relocated(r, q)
<1> DEFINE hist == MergeHistory(m.hist, q.hist)
<1> DEFINE kept == IF hist # <<>> /\ Content(m) # Content(hist[1])
                   THEN <<Version(m)>> \o hist ELSE hist
<1>1. Common(r, q) = IF m.lm = q.lm THEN m
                     ELSE IF q.lm > m.lm
                          THEN [m EXCEPT !.val = q.val, !.lm = q.lm, !.hist = kept]
                          ELSE [m EXCEPT !.hist = hist]
    BY DEF Common
<1>2. IsEntry(m) /\ m.parent \in {r.parent, q.parent} /\ m.lm = r.lm
    BY DEF Relocated, IsEntry
<1> HIDE DEF m
<1>h. IsHistory(hist) /\ IsHistory(kept)
  <2>1. IsHistory(hist)
    BY <1>2, MergeHistoryIsHistory DEF IsEntry
  <2> HIDE DEF hist
  <2> QED
    BY <2>1, ConsHistory
<1> HIDE DEF hist, kept
<1>3. CASE m.lm = q.lm
    BY <1>1, <1>2, <1>3
<1>4. CASE m.lm # q.lm /\ q.lm > m.lm
  <2> DEFINE w == [m EXCEPT !.val = q.val, !.lm = q.lm, !.hist = kept]
  <2>1. IsEntry(w) /\ w.parent = m.parent /\ w.lm = q.lm
    BY <1>2, <1>h DEF IsEntry
  <2>2. Common(r, q) = w
    BY <1>1, <1>4
  <2> HIDE DEF w
  <2> QED
    BY <1>2, <1>4, <2>1, <2>2
<1>5. CASE m.lm # q.lm /\ ~(q.lm > m.lm)
  <2> DEFINE w == [m EXCEPT !.hist = hist]
  <2>1. IsEntry(w) /\ w.parent = m.parent /\ w.lm = m.lm
    BY <1>2, <1>h DEF IsEntry
  <2>2. Common(r, q) = w
    BY <1>1, <1>5
  <2> HIDE DEF w
  <2> QED
    BY <1>2, <2>1, <2>2
<1> QED
    BY <1>3, <1>4, <1>5

\* merge's loop over the entries of both replicas keeps a database well formed.
LEMMA MergeCommonFormed ==
    ASSUME NEW d, NEW s, NEW now \in Int, NEW known,
           Formed(d, now, known), Sound(s, now, known),
           DOMAIN s.groups \subseteq DOMAIN d.groups
    PROVE  /\ Formed(MergeCommon(d, s), now, known)
           /\ MergeCommon(d, s).groups = d.groups
<1> DEFINE Merged(e) == IF e \in Both(d, s) THEN Common(d.entries[e], s.entries[e])
                        ELSE d.entries[e]
<1> DEFINE y == MergeCommon(d, s)
<1>1. /\ IsDb(y) /\ y.groups = d.groups /\ y.dead = d.dead
      /\ y.entries = [e \in Live(d) |-> Merged(e)]
    BY DEF MergeCommon, Formed, IsDb
<1> HIDE DEF y
<1>2. ASSUME NEW e \in Live(d)
      PROVE  /\ IsEntry(Merged(e)) /\ Merged(e).parent \in DOMAIN d.groups
             /\ Merged(e).lm \in Int /\ Merged(e).lm >= d.entries[e].lm
  <2>1. /\ IsEntry(d.entries[e]) /\ d.entries[e].lm \in Int
        /\ d.entries[e].parent \in DOMAIN d.groups
    BY DEF Formed, HoldsEntries
  <2>2. CASE e \in Both(d, s)
    <3>1. /\ s.entries[e].lm \in Int /\ s.entries[e].parent \in DOMAIN d.groups
          /\ IsEntry(s.entries[e])
        BY <2>2 DEF Both, Sound, HoldsEntries
    <3>2. Merged(e) = Common(d.entries[e], s.entries[e])
        BY <2>2
    <3> HIDE DEF Merged
    <3> QED
        BY <2>1, <3>1, <3>2, CommonEntry
  <2>3. CASE e \notin Both(d, s)
    BY <2>1, <2>3
  <2> QED
    BY <2>2, <2>3
<1> HIDE DEF Merged
<1>3. Live(y) = Live(d) /\ \A e \in Live(d) : y.entries[e] = Merged(e)
    BY <1>1 DEF Live
<1>4. HasParents(y)
    BY <1>1 DEF Formed, HasParents
<1>5. HoldsEntries(y)
    BY <1>1, <1>2, <1>3 DEF Formed, HoldsEntries
<1>6. ASSUME NEW e \in Live(y) \cap DOMAIN y.dead PROVE y.entries[e].lm >= y.dead[e]
  <2>1. d.entries[e].lm >= d.dead[e] /\ d.dead[e] \in Int /\ d.entries[e].lm \in Int
    BY <1>1, <1>3, <1>6 DEF Formed, HoldsTombs, HoldsEntries
  <2>2. y.dead[e] = d.dead[e] /\ y.entries[e] = Merged(e)
    BY <1>1, <1>3, <1>6
  <2> QED
    BY <1>2, <1>3, <1>6, <2>1, <2>2
<1>7. HoldsTombs(y, now)
    BY <1>1, <1>6 DEF Formed, HoldsTombs
<1>8. Formed(y, now, known)
    BY <1>1, <1>4, <1>5, <1>7 DEF Formed
<1> QED
    BY <1>1, <1>8 DEF y

\* merge's loop over the groups of both replicas keeps a database well formed.
LEMMA MergeGroupsFormed ==
    ASSUME NEW d, NEW s, NEW now \in Int, NEW known,
           Formed(d, now, known), Sound(s, now, known),
           DOMAIN s.groups \subseteq DOMAIN d.groups
    PROVE  Formed(MergeGroups(d, s), now, known)
<1> DEFINE Merged(g) == IF g \in DOMAIN s.groups
                        THEN MergedGroup(d.groups[g], s.groups[g]) ELSE d.groups[g]
<1> DEFINE y == MergeGroups(d, s)
<1>1. /\ IsDb(y) /\ y.entries = d.entries /\ y.dead = d.dead
      /\ y.groups = [g \in DOMAIN d.groups |-> Merged(g)]
    BY DEF MergeGroups, Formed, IsDb
<1> HIDE DEF y
<1>2. \A g, h : IsGroup(g) => /\ IsGroup(MergedGroup(g, h))
                              /\ MergedGroup(g, h).parent \in {g.parent, h.parent}
  <2> TAKE g, h
  <2> HAVE IsGroup(g)
  <2> DEFINE m == IF g.parent # h.parent /\ h.lc > g.lc
                  THEN [g EXCEPT !.parent = h.parent, !.lc = h.lc] ELSE g
  <2>1. IsGroup(m) /\ m.parent \in {g.parent, h.parent}
    BY DEF IsGroup
  <2>2. MergedGroup(g, h) = IF h.lm > g.lm THEN [m EXCEPT !.name = h.name, !.lm = h.lm]
                            ELSE m
    BY DEF MergedGroup
  <2> HIDE DEF m
  <2> QED
    BY <2>1, <2>2 DEF IsGroup
<1>3. ASSUME NEW g \in DOMAIN d.groups
      PROVE  IsGroup(Merged(g)) /\ Merged(g).parent \in DOMAIN d.groups \cup {NoGroup}
    BY <1>2 DEF Formed, Sound, IsTree, HasParents
<1> HIDE DEF Merged
<1>4. DOMAIN y.groups = DOMAIN d.groups /\ HasParents(y)
    BY <1>1, <1>3 DEF HasParents
<1>5. HoldsEntries(y)
    BY <1>1, <1>4 DEF Formed, HoldsEntries, Live
<1>6. HoldsTombs(y, now)
    BY <1>1 DEF Formed, HoldsTombs, Live
<1>7. Formed(y, now, known)
    BY <1>1, <1>4, <1>5, <1>6 DEF Formed
<1> QED
    BY <1>7 DEF y

\* A merge that does not fail gives a sound database.
LEMMA DatabaseMergeSound ==
    ASSUME NEW d, NEW s, NEW now \in Int, NEW known,
           Sound(d, now, known), Sound(s, now, known), ~MergeFails(d, s)
    PROVE  Sound(DatabaseMerge(d, s), now, known)
<1> DEFINE d1 == AddGroups(d, s)
<1> DEFINE d2 == AddEntries(d1, s)
<1> DEFINE d3 == RemoveEntries(d2, s)
<1> DEFINE d4 == MergeCommon(d3, s)
<1> DEFINE d5 == MergeGroups(d4, s)
<1>1. d5 = DatabaseMerge(d, s)
    BY DEF DatabaseMerge
<1>2. Formed(d1, now, known) /\ DOMAIN s.groups \subseteq DOMAIN d1.groups
  <2>1. Formed(d1, now, known) /\ d1.groups = Union(d.groups, s.groups)
    BY AddGroupsFormed
  <2> HIDE DEF d1
  <2> QED
    BY <2>1 DEF Union
<1> HIDE DEF d1
<1>3. Formed(d2, now, known) /\ d2.groups = d1.groups
    BY <1>2, AddEntriesFormed
<1> HIDE DEF d2
<1>4. Formed(d3, now, known) /\ d3.groups = d1.groups
    BY <1>3, RemoveEntriesFormed
<1> HIDE DEF d3
<1>5. Formed(d4, now, known) /\ d4.groups = d1.groups
    BY <1>2, <1>4, MergeCommonFormed
<1> HIDE DEF d4
<1>6. Formed(d5, now, known)
    BY <1>2, <1>5, MergeGroupsFormed
<1> HIDE DEF d5
<1>7. ~HasCycle(d5)
    BY <1>1 DEF MergeFails
<1>8. IsTree(d5)
    BY <1>6, <1>7, TreeWithoutCycle DEF Formed
<1> QED
    BY <1>1, <1>6, <1>8 DEF Formed, Sound

----------------------------------------------------------------------------
(* The passes of reconcile after the merge.                                *)

\* Putting versions that the merge lost back into histories keeps a database sound.
LEMMA BackfillSound ==
    ASSUME NEW x, NEW now \in Int, NEW known, Sound(x, now, known), NEW pre
    PROVE  Sound(Backfill(x, pre), now, known)
<1> DEFINE Kept(e) ==
              LET r == x.entries[e]
              IN IF /\ e \in Live(pre)
                    /\ Content(r) # Content(pre.entries[e])
                    /\ ~HistoryHas(r, pre.entries[e])
                 THEN [r EXCEPT !.hist = <<Version(pre.entries[e])>> \o r.hist]
                 ELSE r
<1> DEFINE y == Backfill(x, pre)
<1>1. /\ IsDb(y) /\ y.groups = x.groups /\ y.dead = x.dead
      /\ y.entries = [e \in Live(x) |-> Kept(e)]
    BY DEF Backfill, Sound, IsDb
<1> HIDE DEF y
<1>2. \A e \in Live(x) : IsEntry(x.entries[e]) => /\ IsEntry(Kept(e))
                            /\ Kept(e).parent = x.entries[e].parent
                            /\ Kept(e).lm = x.entries[e].lm
    BY ConsHistory DEF IsEntry
<1> HIDE DEF Kept
<1>3. Live(y) = Live(x) /\ \A e \in Live(x) : y.entries[e] = Kept(e)
    BY <1>1 DEF Live
<1>4. IsTree(y)
    BY <1>1, SameTree DEF Sound
<1>5. \A e \in Live(x) : y.entries[e].lm = x.entries[e].lm
    BY <1>2, <1>3 DEF Sound, HoldsEntries
<1>6. HoldsEntries(y)
    BY <1>1, <1>2, <1>3 DEF Sound, HoldsEntries
<1>7. HoldsTombs(y, now)
    BY <1>1, <1>3, <1>5 DEF Sound, HoldsTombs
<1>8. Sound(y, now, known)
    BY <1>1, <1>4, <1>6, <1>7 DEF Sound
<1> QED
    BY <1>8 DEF y

\* Each round of the two attachment passes stamps an entry later than it was.
LEMMA AdvanceSound ==
    ASSUME NEW x, NEW now \in Int, NEW known, Sound(x, now, known),
           NEW e \in Live(x)
    PROVE  Sound(Advance(x, e, now), now, known) /\ Live(Advance(x, e, now)) = Live(x)
<1> DEFINE old == x.entries[e].lm
<1> DEFINE t   == IF old + 1 > now THEN old + 1 ELSE now
<1>1. Advance(x, e, now) = [x EXCEPT !.entries[e].lm = t]
    BY DEF Advance
<1>2. old \in Int
    BY DEF Sound, HoldsEntries
<1>3. t \in Int /\ (t = now \/ t >= old)
    BY <1>2
<1> HIDE DEF t
<1> QED
    BY <1>1, <1>3, TimeSound

SoundOn(k, v) == Sound(v, k.now, k.known) /\ Live(v) = k.live

\* The loop of repair_added_entry_attachments.
RepairRound(r, now, e, v) == Advance(StoreAttachment(v, e, BytesOf(r, e)), e, now)
Repairing == INSTANCE FoldFacts WITH Op <- RepairRound, Good <- SoundOn, Pick <- AnyOf

\* Repairing the attachments of entries that merge added keeps a database sound.
LEMMA RepairAddedSound ==
    ASSUME NEW x, NEW l, NEW r, NEW now \in Int, NEW known, Sound(x, now, known)
    PROVE  Sound(RepairAdded(x, l, r, now), now, known)
<1> DEFINE S == {e \in Live(x) \cap (Live(r) \ Live(l)) : r.entries[e].att # NoAtt}
<1> DEFINE k == [now |-> now, known |-> known, live |-> Live(x)]
<1>1. RepairAdded(x, l, r, now) = Repairing!Fold(r, now, x, S)
    BY DEF RepairAdded, Repairing!Fold, FoldSet, AnyOf, MapThenFoldSet,
           Repairing!MapThenFoldSet, RepairRound
<1>2. S \subseteq Live(x)
    OBVIOUS
<1> HIDE DEF S
<1>3. Repairing!IsFiniteSet(S) /\ Repairing!PicksFrom(S)
  <2>1. S \subseteq Entry
    BY <1>2 DEF Sound, HoldsEntries
  <2>2. IsFiniteSet(S)
    BY <2>1, VaultDataAssumption, FS_Subset
  <2> QED
    BY <2>2 DEF IsFiniteSet, Repairing!IsFiniteSet, Repairing!PicksFrom, AnyOf
<1>4. \A e \in S : \A v : SoundOn(k, v) => SoundOn(k, RepairRound(r, now, e, v))
    BY <1>2, StoreAttachmentSound, AdvanceSound DEF SoundOn, RepairRound
<1>5. SoundOn(k, x)
    BY DEF SoundOn
<1>6. SoundOn(k, Repairing!Fold(r, now, x, S))
  <2> HIDE DEF k
  <2> QED BY <1>3, <1>4, <1>5, Repairing!FoldKeeps
<1> QED
    BY <1>1, <1>6 DEF SoundOn

\* The loop of propagate_both_side_attachments.
PropagateRound(r, now, e, v) ==
    IF BytesOf(v, e) = BytesOf(r, e) THEN v
    ELSE Advance(IF r.entries[e].att = NoAtt THEN DropAttachment(v, e)
                 ELSE StoreAttachment(v, e, BytesOf(r, e)), e, now)
Propagating == INSTANCE FoldFacts WITH Op <- PropagateRound, Good <- SoundOn, Pick <- AnyOf

\* Taking over the newer side's attachments keeps a database sound.
LEMMA PropagateBothSound ==
    ASSUME NEW x, NEW l, NEW r, NEW now \in Int, NEW known, Sound(x, now, known)
    PROVE  Sound(PropagateBoth(x, l, r, now), now, known)
<1> DEFINE S == {e \in Live(x) \cap Live(l) \cap Live(r) :
                    r.entries[e].lm > l.entries[e].lm}
<1> DEFINE k == [now |-> now, known |-> known, live |-> Live(x)]
<1>1. PropagateBoth(x, l, r, now) = Propagating!Fold(r, now, x, S)
    BY DEF PropagateBoth, Propagating!Fold, FoldSet, AnyOf,
           MapThenFoldSet, Propagating!MapThenFoldSet, PropagateRound
<1>2. S \subseteq Live(x)
    OBVIOUS
<1> HIDE DEF S
<1>3. Propagating!IsFiniteSet(S) /\ Propagating!PicksFrom(S)
  <2>1. S \subseteq Entry
    BY <1>2 DEF Sound, HoldsEntries
  <2>2. IsFiniteSet(S)
    BY <2>1, VaultDataAssumption, FS_Subset
  <2> QED
    BY <2>2 DEF IsFiniteSet, Propagating!IsFiniteSet, Propagating!PicksFrom, AnyOf
<1>4. \A e \in S : \A v : SoundOn(k, v) => SoundOn(k, PropagateRound(r, now, e, v))
  <2> TAKE e \in S
  <2> TAKE v
  <2> HAVE SoundOn(k, v)
  <2>1. Sound(v, now, known) /\ Live(v) = Live(x) /\ e \in Live(v)
    BY <1>2 DEF SoundOn
  <2>2. SoundOn(k, Advance(DropAttachment(v, e), e, now))
    BY <2>1, DropAttachmentSound, AdvanceSound DEF SoundOn
  <2>3. SoundOn(k, Advance(StoreAttachment(v, e, BytesOf(r, e)), e, now))
    BY <2>1, StoreAttachmentSound, AdvanceSound DEF SoundOn
  <2> QED
    BY <2>2, <2>3 DEF PropagateRound
<1>5. SoundOn(k, x)
    BY DEF SoundOn
<1>6. SoundOn(k, Propagating!Fold(r, now, x, S))
  <2> HIDE DEF k
  <2> QED BY <1>3, <1>4, <1>5, Propagating!FoldKeeps
<1> QED
    BY <1>1, <1>6 DEF SoundOn

\* The whole of reconcile.
LEMMA ReconcileSound ==
    ASSUME NEW l, NEW r, NEW now \in Int, NEW known,
           Sound(l, now, known), Sound(r, now, known), ~MergeFails(l, r)
    PROVE  Sound(Reconcile(l, r, now), now, known)
<1>1. Sound(DatabaseMerge(l, r), now, known)
    BY DatabaseMergeSound
<1>2. Sound(Backfill(Backfill(DatabaseMerge(l, r), l), r), now, known)
    BY <1>1, BackfillSound
<1> QED
    BY <1>2, RepairAddedSound, PropagateBothSound DEF Reconcile

----------------------------------------------------------------------------
(* The specification.                                                      *)

\* The loop that makes the groups every device starts with.
SeedRound(unused, none, g, v) == CreateGroup(v, g, Root, "a", 0)
SeededOn(k, v) ==
    /\ IsDb(v) /\ Live(v) = {} /\ DOMAIN v.dead = {}
    /\ DOMAIN v.groups \subseteq Shared \cup {Root} /\ Root \in DOMAIN v.groups
    /\ \A g \in DOMAIN v.groups :
        /\ IsGroup(v.groups[g])
        /\ v.groups[g].parent = IF g = Root THEN NoGroup ELSE Root
Seeding == INSTANCE FoldFacts WITH Op <- SeedRound, Good <- SeededOn, Pick <- AnyOf

\* The database that every replica starts from is sound.
LEMMA SeedSound ==
    ASSUME NEW e \in Entry
    PROVE  Sound(Seed(e), 0, {e, Root} \cup Shared)
<1> DEFINE x == FoldSet(LAMBDA g, acc : CreateGroup(acc, g, Root, "a", 0),
                        EmptyDatabase(0), Shared)
<1>1. x = Seeding!Fold(0, 0, EmptyDatabase(0), Shared)
    BY DEF Seeding!Fold, FoldSet, AnyOf, MapThenFoldSet,
           Seeding!MapThenFoldSet, SeedRound
<1>2. Seeding!IsFiniteSet(Shared) /\ Seeding!PicksFrom(Shared)
  <2>1. IsFiniteSet(Shared)
    BY VaultDataAssumption, ReplicasAssumption, FS_Subset
  <2> QED
    BY <2>1 DEF IsFiniteSet, Seeding!IsFiniteSet, Seeding!PicksFrom, AnyOf
<1>3. SeededOn(0, EmptyDatabase(0))
    BY DEF SeededOn, EmptyDatabase, IsDb, IsGroup, Live
<1>4. \A g \in Shared : \A v : SeededOn(0, v) => SeededOn(0, SeedRound(0, 0, g, v))
  <2> TAKE g \in Shared
  <2> TAKE v
  <2> HAVE SeededOn(0, v)
  <2> DEFINE r == [parent |-> Root, name |-> "a", lm |-> 0, lc |-> 0]
  <2> DEFINE y == SeedRound(0, 0, g, v)
  <2>1. /\ IsDb(y) /\ y.entries = v.entries /\ y.dead = v.dead
        /\ y.groups = Put(v.groups, g, r)
    BY DEF SeedRound, CreateGroup, SeededOn, IsDb
  <2>2. IsGroup(r) /\ r.parent = Root
    BY DEF IsGroup
  <2> HIDE DEF r, y
  <2>3. g # Root
    BY ReplicasAssumption
  <2>4. /\ DOMAIN y.groups = DOMAIN v.groups \cup {g} /\ y.groups[g] = r
        /\ \A h \in DOMAIN v.groups : h # g => y.groups[h] = v.groups[h]
    BY <2>1 DEF Put
  <2>5. SeededOn(0, y)
    BY <2>1, <2>2, <2>3, <2>4 DEF SeededOn, Live
  <2> QED
    BY <2>5 DEF y
<1>5. SeededOn(0, x)
  <2> HIDE DEF x
  <2> QED BY <1>1, <1>2, <1>3, <1>4, Seeding!FoldKeeps
<1> DEFINE v == CHOOSE v \in Value : TRUE
<1>6. Seed(e) = AddEntry(x, e, Root, v, 0)
    BY DEF Seed
<1> HIDE DEF x, v
<1>7. Sound(x, 0, {e, Root} \cup Shared)
  <2>1. DOMAIN x.groups \subseteq Group
    BY <1>5, VaultDataAssumption, ReplicasAssumption DEF SeededOn
  <2>2. HasParents(x)
    BY <1>5 DEF SeededOn, HasParents
  <2>3. ASSUME NEW S \in SUBSET DOMAIN x.groups, S # {}, ClosedUpwards(x, S)
        PROVE  Root \in S
    BY <1>5, <2>1, <2>3, VaultDataAssumption DEF SeededOn, ClosedUpwards
  <2>4. IsTree(x)
    BY <1>5, <2>1, <2>2, <2>3 DEF SeededOn, IsTree, IsRooted
  <2> QED
    BY <1>5, <2>4 DEF SeededOn, Sound, HoldsEntries, HoldsTombs
<1>8. Root \in DOMAIN x.groups
    BY <1>5 DEF SeededOn
<1> QED
    BY <1>6, <1>7, <1>8, AddEntrySound

\* Every replica starts with the same sound database, and its UUIDs are known.
LEMMA InitSound == RepInit => RepInv
<1> SUFFICES ASSUME RepInit PROVE RepInv
    OBVIOUS
<1> DEFINE e == CHOOSE x \in Entry : TRUE
<1>1. e \in Entry
    BY VaultDataAssumption
<1>2. /\ clock = IF Spaced THEN 1 ELSE 0
      /\ db = [d \in Device |-> Seed(e)] /\ remote = Seed(e)
      /\ ids = {e, Root} \cup Shared
    BY DEF RepInit
<1> HIDE DEF e
<1>3. clock \in Int /\ 0 <= clock
    BY <1>2
<1>4. Sound(Seed(e), clock, ids)
    BY <1>1, <1>2, <1>3, SeedSound, SoundLater
<1> QED
    BY <1>2, <1>3, <1>4 DEF RepInv

\* An operation whose result is sound keeps every copy sound.
LEMMA PerformSound ==
    ASSUME RepInv, NEW d \in Device, NEW op, NEW new, NEW used,
           Perform(d, op, new, used), Sound(new, clock, ids \cup used)
    PROVE  RepInv'
<1>1. /\ clock \in Int /\ clock' \in Int /\ clock <= clock'
      /\ ids' = ids \cup used /\ remote' = remote
      /\ db' = [db EXCEPT ![d] = new]
    BY DEF RepInv, Perform
<1>2. db' = [c \in Device |-> IF c = d THEN new ELSE db[c]]
    BY <1>1 DEF RepInv
<1>3. \A c \in Device : Sound(db[c], clock, ids)
    BY DEF RepInv
<1>4. \A c \in Device : Sound(db[c], clock', ids')
    BY <1>1, <1>3, SoundLater
<1>5. Sound(new, clock', ids') /\ Sound(remote, clock', ids')
    BY <1>1, SoundLater DEF RepInv
<1>6. \A c \in Device : Sound(db'[c], clock', ids')
    BY <1>2, <1>4, <1>5
<1>7. db' = [c \in Device |-> db'[c]]
    BY <1>2
<1> QED
    BY <1>1, <1>5, <1>6, <1>7 DEF RepInv

\* The operations on entries.
LEMMA EntryActionsSound ==
    ASSUME RepInv, NEW d \in Device,
           \/ Add(d) \/ Edit(d) \/ Tag(d) \/ Move(d) \/ Delete(d) \/ Purge(d)
           \/ Attach(d) \/ Detach(d) \/ Expire(d)
    PROVE  RepInv'
<1> DEFINE x == db[d]
<1>1. clock \in Int /\ Sound(x, clock, ids) /\ Sound(x, clock, ids \cup {})
    BY DEF RepInv
<1>2. ASSUME Add(d) PROVE RepInv'
  <2>1. PICK e \in Entry \ ids, g \in DOMAIN x.groups, v \in Value :
            Perform(d, "add", AddEntry(x, e, g, v, clock), {e})
    BY <1>2 DEF Add
  <2> DEFINE new == AddEntry(x, e, g, v, clock)
  <2>2. Sound(new, clock, ids)
    BY <1>1, AddEntrySound
  <2> HIDE DEF x, new
  <2>3. Sound(new, clock, ids \cup {e})
    BY <1>1, <2>2, SoundLater
  <2> QED
    BY <2>1, <2>3, PerformSound DEF new
<1>3. ASSUME Edit(d) PROVE RepInv'
  <2>1. PICK e \in Live(x), v \in Value :
            Perform(d, "edit", UpdateEntry(x, e, v, clock), {})
    BY <1>3 DEF Edit
  <2>2. Sound(UpdateEntry(x, e, v, clock), clock, ids \cup {})
    BY <1>1, UpdateEntrySound
  <2> QED
    BY <2>1, <2>2, PerformSound
<1>4. ASSUME Tag(d) PROVE RepInv'
  <2>1. PICK e \in Live(x), v \in Value :
            Perform(d, "tag", SetTags(x, e, v, clock), {})
    BY <1>4 DEF Tag
  <2>2. Sound(SetTags(x, e, v, clock), clock, ids \cup {})
    BY <1>1, SetTagsSound
  <2> QED
    BY <2>1, <2>2, PerformSound
<1>5. ASSUME Move(d) PROVE RepInv'
  <2>1. PICK e \in Live(x), g \in DOMAIN x.groups :
            Perform(d, "move", MoveEntry(x, e, g, clock), {})
    BY <1>5 DEF Move
  <2>2. Sound(MoveEntry(x, e, g, clock), clock, ids \cup {})
    BY <1>1, MoveEntrySound
  <2> QED
    BY <2>1, <2>2, PerformSound
<1>6. ASSUME Delete(d) PROVE RepInv'
  <2>1. PICK e \in Live(x), b \in BinIds(d) :
            Perform(d, "delete", DeleteEntry(x, e, b, clock), {b} \cap Group)
    BY <1>6 DEF Delete
  <2>2. b \in IF RecycleBin(x) = NoGroup THEN Group \ ids ELSE {NoGroup}
    BY DEF BinIds
  <2>3. Sound(DeleteEntry(x, e, b, clock), clock, ids \cup ({b} \cap Group))
    BY <1>1, <2>2, DeleteEntrySound
  <2> QED
    BY <2>1, <2>3, PerformSound
<1>7. ASSUME Purge(d) PROVE RepInv'
  <2>1. PICK e \in Live(x) : Perform(d, "purge", PurgeEntry(x, e, clock), {})
    BY <1>7 DEF Purge
  <2>2. Sound(PurgeEntry(x, e, clock), clock, ids \cup {})
    BY <1>1, PurgeEntrySound
  <2> QED
    BY <2>1, <2>2, PerformSound
<1>8. ASSUME Attach(d) PROVE RepInv'
  <2>1. PICK e \in Live(x), data \in Bytes :
            Perform(d, "attach", AddAttachment(x, e, data, clock), {})
    BY <1>8 DEF Attach
  <2>2. Sound(AddAttachment(x, e, data, clock), clock, ids \cup {})
    BY <1>1, AddAttachmentSound
  <2> QED
    BY <2>1, <2>2, PerformSound
<1>9. ASSUME Detach(d) PROVE RepInv'
  <2>1. PICK e \in Live(x) : Perform(d, "detach", RemoveAttachment(x, e, clock), {})
    BY <1>9 DEF Detach
  <2>2. Sound(RemoveAttachment(x, e, clock), clock, ids \cup {})
    BY <1>1, RemoveAttachmentSound
  <2> QED
    BY <2>1, <2>2, PerformSound
<1>10. ASSUME Expire(d) PROVE RepInv'
  <2>1. PICK e \in Live(x), when \in {-1, MaxClock} :
            Perform(d, "expire", SetExpiration(x, e, when, clock), {})
    BY <1>10 DEF Expire
  <2>2. Sound(SetExpiration(x, e, when, clock), clock, ids \cup {})
    BY <1>1, SetExpirationSound
  <2> QED
    BY <2>1, <2>2, PerformSound
<1> QED
    BY <1>2, <1>3, <1>4, <1>5, <1>6, <1>7, <1>8, <1>9, <1>10

\* The operations on groups.
LEMMA GroupActionsSound ==
    ASSUME RepInv, NEW d \in Device,
           NewGroup(d) \/ Rename(d) \/ Regroup(d) \/ Ungroup(d)
    PROVE  RepInv'
<1> DEFINE x == db[d]
<1>1. clock \in Int /\ Sound(x, clock, ids)
    BY DEF RepInv
<1>2. ASSUME NewGroup(d) PROVE RepInv'
  <2>1. PICK g \in Group \ ids, p \in DOMAIN x.groups :
            Perform(d, "group", CreateGroup(x, g, p, "a", clock), {g})
    BY <1>2 DEF NewGroup
  <2>2. Sound(CreateGroup(x, g, p, "a", clock), clock, ids \cup {g})
    BY <1>1, CreateGroupSound
  <2> QED
    BY <2>1, <2>2, PerformSound
<1>3. ASSUME Rename(d) PROVE RepInv'
  <2>1. PICK g \in DOMAIN x.groups, n \in {"a", "b"} :
            Perform(d, "rename", RenameGroup(x, g, n, clock), {})
    BY <1>3 DEF Rename
  <2>2. Sound(RenameGroup(x, g, n, clock), clock, ids \cup {})
    BY <1>1, RenameGroupSound
  <2> QED
    BY <2>1, <2>2, PerformSound
<1>4. ASSUME Regroup(d) PROVE RepInv'
  <2>1. PICK g \in DOMAIN x.groups, to \in DOMAIN x.groups :
            /\ MoveGroupAllowed(x, g, to)
            /\ Perform(d, "regroup", RelocateGroup(x, g, to, clock), {})
    BY <1>4 DEF Regroup
  <2>2. CanMoveGroup(x, g, to)
    BY <2>1 DEF MoveGroupAllowed
  <2>3. Sound(RelocateGroup(x, g, to, clock), clock, ids \cup {})
    BY <1>1, <2>2, RelocateGroupSound
  <2> QED
    BY <2>1, <2>3, PerformSound
<1>5. ASSUME Ungroup(d) PROVE RepInv'
  <2>1. PICK g \in DOMAIN x.groups \ {Root}, b \in BinIds(d) :
            Perform(d, "ungroup", DeleteGroup(x, g, b, clock), {b} \cap Group)
    BY <1>5 DEF Ungroup
  <2>2. b \in IF RecycleBin(x) = NoGroup THEN Group \ ids ELSE {NoGroup}
    BY DEF BinIds
  <2>3. Sound(DeleteGroup(x, g, b, clock), clock, ids \cup ({b} \cap Group))
    BY <1>1, <2>2, DeleteGroupSound
  <2> QED
    BY <2>1, <2>3, PerformSound
<1> QED
    BY <1>2, <1>3, <1>4, <1>5

\* Opening, uploading, replacing and merging.
LEMMA SyncActionsSound ==
    ASSUME RepInv, NEW d \in Device,
           Reload(d) \/ Push(d) \/ FastReplace(d) \/ MergeSync(d)
    PROVE  RepInv'
<1> DEFINE x == db[d]
<1>1. clock \in Int /\ Sound(x, clock, ids) /\ Sound(remote, clock, ids)
    BY DEF RepInv
<1>2. ASSUME NEW new, Sound(new, clock, ids),
             db' = [db EXCEPT ![d] = new], clock' = clock, ids' = ids,
             remote' = remote \/ remote' = Reopen(new)
      PROVE  RepInv'
  <2>1. db' = [c \in Device |-> IF c = d THEN new ELSE db[c]]
    BY <1>2 DEF RepInv
  <2>2. Sound(remote', clock, ids)
    BY <1>1, <1>2, ReopenSound
  <2>3. \A c \in Device : Sound(db'[c], clock, ids)
    BY <1>2, <2>1 DEF RepInv
  <2> QED
    BY <1>1, <1>2, <2>1, <2>2, <2>3 DEF RepInv
<1>3. ASSUME Reload(d) PROVE RepInv'
    BY <1>1, <1>2, <1>3, ReopenSound DEF Reload
<1>4. ASSUME Push(d) PROVE RepInv'
    BY <1>1, <1>2, <1>4 DEF Push, Upload
<1>5. ASSUME FastReplace(d) PROVE RepInv'
    BY <1>1, <1>2, <1>5 DEF FastReplace
<1>6. ASSUME MergeSync(d) PROVE RepInv'
  <2>1. Sound(Reconcile(x, remote, clock), clock, ids)
    BY <1>1, <1>6, ReconcileSound DEF MergeSync
  <2> QED
    BY <1>2, <1>6, <2>1 DEF MergeSync, Upload
<1> QED
    BY <1>3, <1>4, <1>5, <1>6

\* Every step of the specification keeps the invariant.
LEMMA NextSound == RepInv /\ [RepNext]_repVars => RepInv'
<1> SUFFICES ASSUME RepInv, [RepNext]_repVars PROVE RepInv'
    OBVIOUS
<1>1. CASE Tick
  <2>1. /\ clock \in Int /\ clock' \in Int /\ clock <= clock'
        /\ db' = db /\ remote' = remote /\ ids' = ids
    BY <1>1 DEF RepInv, Tick
  <2>2. \A d \in Device : Sound(db[d], clock', ids)
    BY <2>1, SoundLater DEF RepInv
  <2>3. Sound(remote, clock', ids)
    BY <2>1, SoundLater DEF RepInv
  <2> QED
    BY <2>1, <2>2, <2>3 DEF RepInv
<1>2. CASE UNCHANGED repVars
    BY <1>2 DEF repVars, RepInv
<1>3. ASSUME NEW d \in Device,
             \/ Add(d) \/ Edit(d) \/ Tag(d) \/ Move(d) \/ Delete(d) \/ Purge(d)
             \/ Attach(d) \/ Detach(d) \/ Expire(d)
             \/ NewGroup(d) \/ Rename(d) \/ Regroup(d) \/ Ungroup(d)
             \/ Reload(d) \/ Push(d) \/ FastReplace(d) \/ MergeSync(d)
      PROVE  RepInv'
    BY <1>3, EntryActionsSound, GroupActionsSound, SyncActionsSound
<1> QED
    BY <1>1, <1>2, <1>3 DEF RepNext

\* Whatever users do on whatever devices and in whatever order the copies are
\* pushed, replaced and merged, every copy and the remote object hold a tree
\* of groups with all entries in it, and no entry that is older than its own
\* tombstone (reconcile, move_to, purge_entry, merge_entries).
THEOREM DatabasesAreSound == RepSpec => []DatabaseIsSound
<1>1. RepInv => DatabaseIsSound
  <2> SUFFICES ASSUME RepInv, NEW x \in Databases
               PROVE  Sound(x, clock, ids)
    BY SoundIsRooted DEF DatabaseIsSound, TreeIsRooted, PurgedStaysPurged
  <2> QED
    BY DEF Databases, RepInv
<1> QED
    BY InitSound, NextSound, <1>1, PTL DEF RepSpec

----------------------------------------------------------------------------
(* No value is lost in a merge (MergeKeepsBothSides).  The argument follows *)
(* one entry through reconcile: the merge makes it Common of both versions, *)
(* each backfill puts the version of its side into the history unless its   *)
(* value is there, and nothing after that touches values or histories.      *)

\* The entries an operation leaves alone.
KeepsEntry(x, y, e) == e \in Live(y) /\ y.entries[e] = x.entries[e]

\* merge's loop over the entries of one replica only leaves those of both alone.
LEMMA AddEntriesKeeps ==
    ASSUME NEW d, NEW s, IsDb(d), NEW e \in Live(d)
    PROVE  KeepsEntry(d, AddEntries(d, s), e)
<1> DEFINE new == {f \in Live(s) \ Live(d) : Returns(d, s, f)}
<1>1. AddEntries(d, s).entries = Union(d.entries, [f \in new |-> s.entries[f]])
    BY DEF AddEntries, IsDb
<1> HIDE DEF new
<1> QED
    BY <1>1 DEF Union, KeepsEntry, Live

\* What the loop that removes entries keeps of those it does not remove.
KeepsOthers(k, v) == IsDb(v) /\ \A e \in k.others : KeepsEntry(k.db, v, e)
PurgingOthers == INSTANCE FoldFacts WITH Op <- PurgeRound, Good <- KeepsOthers, Pick <- AnyOf

\* merge's loop over the tombstones does not take an entry that both replicas have
\* as live.
LEMMA RemoveEntriesKeeps ==
    ASSUME NEW d, NEW s, IsDb(d), Live(d) \subseteq Entry, NEW e \in Both(d, s)
    PROVE  KeepsEntry(d, RemoveEntries(d, s), e)
<1> DEFINE S == Removed(d, s)
<1> DEFINE k == [db |-> d, others |-> {e}]
<1>1. S \subseteq Live(d) \ Live(s) /\ e \notin S
    BY DEF Removed, Both
<1>2. RemoveEntries(d, s) = PurgingOthers!Fold(s, s, d, S)
    BY DEF RemoveEntries, PurgingOthers!Fold, FoldSet, AnyOf,
           MapThenFoldSet, PurgingOthers!MapThenFoldSet, PurgeRound
<1> HIDE DEF S
<1>3. PurgingOthers!IsFiniteSet(S) /\ PurgingOthers!PicksFrom(S)
  <2>1. IsFiniteSet(S)
    BY <1>1, VaultDataAssumption, FS_Subset
  <2> QED
    BY <2>1 DEF IsFiniteSet, PurgingOthers!IsFiniteSet, PurgingOthers!PicksFrom, AnyOf
<1>4. \A f \in S : \A v : KeepsOthers(k, v) => KeepsOthers(k, PurgeRound(s, s, f, v))
  <2> TAKE f \in S
  <2> TAKE v
  <2> HAVE KeepsOthers(k, v)
  <2> DEFINE y == PurgeRound(s, s, f, v)
  <2>1. IsDb(y) /\ y.entries = Without(v.entries, f)
    BY DEF PurgeRound, PurgeEntry, KeepsOthers, IsDb
  <2> HIDE DEF y
  <2>2. f # e
    BY <1>1
  <2>3. KeepsEntry(d, v, e)
    BY DEF KeepsOthers
  <2>4. KeepsEntry(d, y, e)
    BY <2>1, <2>2, <2>3 DEF KeepsEntry, Without, Live
  <2>5. KeepsOthers(k, y)
    BY <2>1, <2>4 DEF KeepsOthers
  <2> QED
    BY <2>5 DEF y
<1>5. KeepsOthers(k, d)
    BY DEF KeepsOthers, KeepsEntry, Both
<1>6. KeepsOthers(k, PurgingOthers!Fold(s, s, d, S))
  <2> HIDE DEF k
  <2> QED BY <1>3, <1>4, <1>5, PurgingOthers!FoldKeeps
<1> QED
    BY <1>2, <1>6 DEF KeepsOthers

\* An entry of both sides is in the merged database what Common makes of it.
LEMMA DatabaseMergeOfBoth ==
    ASSUME NEW d, NEW s, NEW now \in Int, NEW known,
           Sound(d, now, known), Sound(s, now, known), NEW e \in Both(d, s)
    PROVE  /\ e \in Live(DatabaseMerge(d, s))
           /\ DatabaseMerge(d, s).entries[e] = Common(d.entries[e], s.entries[e])
<1> DEFINE d1 == AddGroups(d, s)
<1> DEFINE d2 == AddEntries(d1, s)
<1> DEFINE d3 == RemoveEntries(d2, s)
<1> DEFINE d4 == MergeCommon(d3, s)
<1> DEFINE d5 == MergeGroups(d4, s)
<1>1. d5 = DatabaseMerge(d, s)
    BY DEF DatabaseMerge
<1>2. /\ Formed(d1, now, known) /\ DOMAIN s.groups \subseteq DOMAIN d1.groups
      /\ d1.entries = d.entries
  <2>1. Formed(d1, now, known) /\ d1.groups = Union(d.groups, s.groups)
    BY AddGroupsFormed
  <2>2. d1.entries = d.entries
    BY DEF AddGroups, Sound, IsDb
  <2> HIDE DEF d1
  <2> QED
    BY <2>1, <2>2 DEF Union
<1> HIDE DEF d1
<1>3. Formed(d2, now, known) /\ d2.groups = d1.groups /\ KeepsEntry(d1, d2, e)
    BY <1>2, AddEntriesFormed, AddEntriesKeeps DEF Formed, Both, Live
<1> HIDE DEF d2
<1>4. Formed(d3, now, known) /\ d3.groups = d1.groups /\ KeepsEntry(d2, d3, e)
  <2>1. e \in Both(d2, s)
    BY <1>3 DEF KeepsEntry, Both
  <2>2. IsDb(d2) /\ Live(d2) \subseteq Entry
    BY <1>3 DEF Formed, HoldsEntries
  <2> QED
    BY <1>3, <2>1, <2>2, RemoveEntriesFormed, RemoveEntriesKeeps
<1> HIDE DEF d3
<1>5. e \in Both(d3, s) /\ d3.entries[e] = d.entries[e]
    BY <1>2, <1>3, <1>4 DEF KeepsEntry, Both
<1>6. /\ Formed(d4, now, known) /\ e \in Live(d4)
      /\ d4.entries[e] = Common(d.entries[e], s.entries[e])
  <2>1. Formed(d4, now, known)
    BY <1>2, <1>4, MergeCommonFormed
  <2>2. d4.entries = [f \in Live(d3) |->
                          IF f \in Both(d3, s) THEN Common(d3.entries[f], s.entries[f])
                          ELSE d3.entries[f]]
    BY <1>4 DEF MergeCommon, Formed, IsDb
  <2> HIDE DEF d4
  <2> QED
    BY <1>5, <2>1, <2>2 DEF Both, Live
<1> HIDE DEF d4
<1>7. d5.entries = d4.entries
    BY <1>6 DEF MergeGroups, Formed, IsDb
<1> HIDE DEF d5
<1> QED
    BY <1>1, <1>6, <1>7 DEF Live

\* The newer of two versions keeps its value.
LEMMA CommonKeepsNewer ==
    ASSUME NEW r, NEW q, IsEntry(r), IsEntry(q), r.lm \in Int, q.lm \in Int
    PROVE  /\ r.lm > q.lm => Common(r, q).val = r.val
           /\ q.lm > r.lm => Common(r, q).val = q.val
<1> DEFINE m    == Relocated(r, q)
<1> DEFINE hist == MergeHistory(m.hist, q.hist)
<1> DEFINE kept == IF hist # <<>> /\ Content(m) # Content(hist[1])
                   THEN <<Version(m)>> \o hist ELSE hist
<1>1. Common(r, q) = IF m.lm = q.lm THEN m
                     ELSE IF q.lm > m.lm
                          THEN [m EXCEPT !.val = q.val, !.lm = q.lm, !.hist = kept]
                          ELSE [m EXCEPT !.hist = hist]
    BY DEF Common
<1>2. IsEntry(m) /\ m.lm = r.lm /\ m.val = r.val
    BY DEF Relocated, IsEntry
<1> HIDE DEF m, hist, kept
<1>3. [m EXCEPT !.val = q.val, !.lm = q.lm, !.hist = kept].val = q.val
    BY <1>2 DEF IsEntry
<1>4. [m EXCEPT !.hist = hist].val = m.val
    BY <1>2 DEF IsEntry
<1>5. CASE r.lm > q.lm
  <2>1. Common(r, q) = [m EXCEPT !.hist = hist]
    BY <1>1, <1>2, <1>5
  <2> QED
    BY <1>2, <1>4, <1>5, <2>1
<1>6. CASE q.lm > r.lm
  <2>1. Common(r, q) = [m EXCEPT !.val = q.val, !.lm = q.lm, !.hist = kept]
    BY <1>1, <1>2, <1>6
  <2> QED
    BY <1>3, <1>6, <2>1
<1> QED
    BY <1>5, <1>6

\* y shows what x shows: the same entries, with their values and histories.
Shows(x, y) ==
    /\ Live(y) = Live(x)
    /\ \A e \in Live(x) : /\ y.entries[e].val = x.entries[e].val
                          /\ y.entries[e].hist = x.entries[e].hist

\* A backfill loses no value and puts in those of its side.
LEMMA BackfillKeeps ==
    ASSUME NEW x, NEW now \in Int, NEW known, Sound(x, now, known), NEW pre,
           NEW y, y = Backfill(x, pre)
    PROVE  /\ Live(y) = Live(x)
           /\ \A e \in Live(x) :
                /\ y.entries[e].val = x.entries[e].val
                /\ Values(x, e) \subseteq Values(y, e)
                /\ e \in Live(pre) => pre.entries[e].val \in Values(y, e)
<1> DEFINE Kept(e) ==
              LET r == x.entries[e]
              IN IF /\ e \in Live(pre)
                    /\ Content(r) # Content(pre.entries[e])
                    /\ ~HistoryHas(r, pre.entries[e])
                 THEN [r EXCEPT !.hist = <<Version(pre.entries[e])>> \o r.hist]
                 ELSE r
<1>1. y.entries = [e \in Live(x) |-> Kept(e)]
    BY DEF Backfill, Sound, IsDb
<1>2. Live(y) = Live(x)
    BY <1>1 DEF Live
<1>3. ASSUME NEW e \in Live(x)
      PROVE  /\ y.entries[e].val = x.entries[e].val
             /\ Values(x, e) \subseteq Values(y, e)
             /\ e \in Live(pre) => pre.entries[e].val \in Values(y, e)
  <2> DEFINE r == x.entries[e]
             p == pre.entries[e]
             w == y.entries[e]
             Old(z) == {z.val} \cup {v.val : v \in Items(z.hist)}
  <2>1. w = IF e \in Live(pre) /\ Content(r) # Content(p) /\ ~HistoryHas(r, p)
            THEN [r EXCEPT !.hist = <<Version(p)>> \o r.hist] ELSE r
    BY <1>1
  <2>2. IsEntry(r)
    BY DEF Sound, HoldsEntries
  <2>3. Values(x, e) = Old(r) /\ Values(y, e) = Old(w)
    BY DEF Values, Versions, Items
  <2> HIDE DEF r, p, w
  <2>4. CASE e \in Live(pre) /\ Content(r) # Content(p) /\ ~HistoryHas(r, p)
    <3>1. w = [r EXCEPT !.hist = <<Version(p)>> \o r.hist]
        BY <2>1, <2>4
    <3>2. w.val = r.val /\ w.hist = <<Version(p)>> \o r.hist
        BY <2>2, <3>1 DEF IsEntry
    <3>3. Items(w.hist) = Items(r.hist) \cup {Version(p)}
        BY <2>2, <3>2, ConsHistory DEF IsEntry
    <3>4. Version(p).val = p.val
        BY DEF Version
    <3> HIDE <3>1
    <3>5. w.val = r.val /\ Old(r) \subseteq Old(w) /\ p.val \in Old(w)
        BY <3>2, <3>3, <3>4
    <3> QED
        BY <2>3, <3>5 DEF r, p, w
  <2>5. CASE ~(e \in Live(pre) /\ Content(r) # Content(p) /\ ~HistoryHas(r, p))
    <3>1. w = r
        BY <2>1, <2>5
    <3>2. CASE e \in Live(pre) /\ Content(r) = Content(p)
      <4>1. r.val = p.val
        BY <3>2 DEF Content
      <4> QED
        BY <2>3, <3>1, <4>1 DEF r, p, w
    <3>3. CASE e \in Live(pre) /\ HistoryHas(r, p)
      <4>1. PICK i \in DOMAIN r.hist : Content(r.hist[i]) = Content(p)
        BY <3>3 DEF HistoryHas
      <4>2. r.hist[i] \in Items(r.hist) /\ r.hist[i].val = p.val
        BY <4>1 DEF Items, Content
      <4>3. p.val \in Old(r)
        BY <4>2
      <4> QED
        BY <2>3, <3>1, <4>3 DEF r, p, w
    <3>4. CASE e \notin Live(pre)
        BY <2>3, <3>1, <3>4 DEF r, w
    <3> QED
        BY <2>5, <3>2, <3>3, <3>4
  <2> QED
    BY <2>4, <2>5
<1> QED
    BY <1>2, <1>3

\* Attachments and times are not what a user is shown of an entry.
LEMMA NumberShows ==
    ASSUME NEW x, NEW now, NEW known, Sound(x, now, known), NEW e \in Live(x),
           NEW id, NEW y, y.entries = [x.entries EXCEPT ![e].att = id]
    PROVE  Shows(x, y)
<1>1. \A f \in Live(x) : IsEntry(x.entries[f])
    BY DEF Sound, HoldsEntries
<1>2. Live(y) = Live(x)
    BY DEF Live
<1>3. \A f \in Live(x) : /\ y.entries[f].val = x.entries[f].val
                         /\ y.entries[f].hist = x.entries[f].hist
    BY <1>1 DEF IsEntry, Live
<1> QED
    BY <1>2, <1>3 DEF Shows

\* Storing an attachment changes no entry's value.
LEMMA StoreAttachmentShows ==
    ASSUME NEW x, NEW now, NEW known, Sound(x, now, known), NEW e \in Live(x),
           NEW data
    PROVE  Shows(x, StoreAttachment(x, e, data))
<1> DEFINE num  == NextFree(x.pool)
<1> DEFINE old  == x.entries[e].att
<1> DEFINE new  == Put(x.pool, num, [data |-> data, refs |-> {e}])
<1> DEFINE pool == IF old = NoAtt THEN new ELSE Release(new, old, e)
<1> DEFINE id   == IF old = num THEN NoAtt ELSE num
<1> DEFINE y    == StoreAttachment(x, e, data)
<1>1. y = [x EXCEPT !.pool = pool, !.entries[e].att = id]
    BY DEF StoreAttachment
<1> HIDE DEF pool, id, y
<1>2. y.entries = [x.entries EXCEPT ![e].att = id]
    BY <1>1 DEF Sound, IsDb
<1>3. Shows(x, y)
    BY <1>2, NumberShows
<1> QED
    BY <1>3 DEF y

\* Dropping an attachment changes no entry's value.
LEMMA DropAttachmentShows ==
    ASSUME NEW x, NEW now, NEW known, Sound(x, now, known), NEW e \in Live(x)
    PROVE  Shows(x, DropAttachment(x, e))
<1> DEFINE y == DropAttachment(x, e)
<1>1. y.entries = [x.entries EXCEPT ![e].att = NoAtt]
    BY DEF DropAttachment, Sound, IsDb
<1> HIDE DEF y
<1>2. Shows(x, y)
    BY <1>1, NumberShows
<1> QED
    BY <1>2 DEF y

\* A new modification time keeps the values that an entry or its history shows.
LEMMA AdvanceShows ==
    ASSUME NEW x, NEW now, NEW known, Sound(x, now, known), NEW e \in Live(x)
    PROVE  Shows(x, Advance(x, e, now))
<1> DEFINE old == x.entries[e].lm
<1> DEFINE t   == IF old + 1 > now THEN old + 1 ELSE now
<1> DEFINE y   == Advance(x, e, now)
<1>1. y.entries = [x.entries EXCEPT ![e].lm = t]
    BY DEF Advance, Sound, IsDb
<1> HIDE DEF t, y
<1>2. \A f \in Live(x) : IsEntry(x.entries[f])
    BY DEF Sound, HoldsEntries
<1>3. Live(y) = Live(x)
    BY <1>1 DEF Live
<1>4. \A f \in Live(x) : /\ y.entries[f].val = x.entries[f].val
                         /\ y.entries[f].hist = x.entries[f].hist
    BY <1>1, <1>2 DEF IsEntry, Live
<1> QED
    BY <1>3, <1>4 DEF Shows, y

\* What two steps in a row both keep is kept.
LEMMA ShowsTransitive ==
    ASSUME NEW x, NEW y, NEW z, Shows(x, y), Shows(y, z)
    PROVE  Shows(x, z)
BY DEF Shows

ShownOn(k, v) == Sound(v, k.now, k.known) /\ Shows(k.db, v)
RepairingShown == INSTANCE FoldFacts WITH Op <- RepairRound, Good <- ShownOn, Pick <- AnyOf
PropagatingShown == INSTANCE FoldFacts WITH Op <- PropagateRound, Good <- ShownOn, Pick <- AnyOf

\* Repairing the attachments of entries that merge added changes no value.
LEMMA RepairAddedShows ==
    ASSUME NEW x, NEW l, NEW r, NEW now \in Int, NEW known, Sound(x, now, known)
    PROVE  Shows(x, RepairAdded(x, l, r, now))
<1> DEFINE S == {e \in Live(x) \cap (Live(r) \ Live(l)) : r.entries[e].att # NoAtt}
<1> DEFINE k == [now |-> now, known |-> known, db |-> x]
<1>1. RepairAdded(x, l, r, now) = RepairingShown!Fold(r, now, x, S)
    BY DEF RepairAdded, RepairingShown!Fold, FoldSet, AnyOf,
           MapThenFoldSet, RepairingShown!MapThenFoldSet, RepairRound
<1>2. S \subseteq Live(x)
    OBVIOUS
<1> HIDE DEF S
<1>3. RepairingShown!IsFiniteSet(S) /\ RepairingShown!PicksFrom(S)
  <2>1. S \subseteq Entry
    BY <1>2 DEF Sound, HoldsEntries
  <2>2. IsFiniteSet(S)
    BY <2>1, VaultDataAssumption, FS_Subset
  <2> QED
    BY <2>2 DEF IsFiniteSet, RepairingShown!IsFiniteSet, RepairingShown!PicksFrom, AnyOf
<1>4. \A e \in S : \A v : ShownOn(k, v) => ShownOn(k, RepairRound(r, now, e, v))
  <2> TAKE e \in S
  <2> TAKE v
  <2> HAVE ShownOn(k, v)
  <2> DEFINE w == StoreAttachment(v, e, BytesOf(r, e))
  <2> DEFINE y == Advance(w, e, now)
  <2>1. Sound(v, now, known) /\ Shows(x, v) /\ e \in Live(v)
    BY <1>2 DEF ShownOn, Shows
  <2>2. Sound(w, now, known) /\ Live(w) = Live(v) /\ Shows(v, w)
    BY <2>1, StoreAttachmentSound, StoreAttachmentShows
  <2> HIDE DEF w
  <2>3. Sound(y, now, known) /\ Shows(w, y)
    BY <2>1, <2>2, AdvanceSound, AdvanceShows
  <2> HIDE DEF y
  <2>4. Shows(x, y)
    BY <2>1, <2>2, <2>3, ShowsTransitive
  <2>5. ShownOn(k, y)
    BY <2>3, <2>4 DEF ShownOn
  <2> QED
    BY <2>5 DEF RepairRound, y, w
<1>5. ShownOn(k, x)
    BY DEF ShownOn, Shows
<1>6. ShownOn(k, RepairingShown!Fold(r, now, x, S))
  <2> HIDE DEF k
  <2> QED BY <1>3, <1>4, <1>5, RepairingShown!FoldKeeps
<1> QED
    BY <1>1, <1>6 DEF ShownOn

\* Taking over the newer side's attachments changes no value.
LEMMA PropagateBothShows ==
    ASSUME NEW x, NEW l, NEW r, NEW now \in Int, NEW known, Sound(x, now, known)
    PROVE  Shows(x, PropagateBoth(x, l, r, now))
<1> DEFINE S == {e \in Live(x) \cap Live(l) \cap Live(r) :
                    r.entries[e].lm > l.entries[e].lm}
<1> DEFINE k == [now |-> now, known |-> known, db |-> x]
<1>1. PropagateBoth(x, l, r, now) = PropagatingShown!Fold(r, now, x, S)
    BY DEF PropagateBoth, PropagatingShown!Fold, FoldSet, AnyOf,
           MapThenFoldSet, PropagatingShown!MapThenFoldSet, PropagateRound
<1>2. S \subseteq Live(x)
    OBVIOUS
<1> HIDE DEF S
<1>3. PropagatingShown!IsFiniteSet(S) /\ PropagatingShown!PicksFrom(S)
  <2>1. S \subseteq Entry
    BY <1>2 DEF Sound, HoldsEntries
  <2>2. IsFiniteSet(S)
    BY <2>1, VaultDataAssumption, FS_Subset
  <2> QED
    BY <2>2 DEF IsFiniteSet, PropagatingShown!IsFiniteSet, PropagatingShown!PicksFrom, AnyOf
<1>4. \A e \in S : \A v : ShownOn(k, v) => ShownOn(k, PropagateRound(r, now, e, v))
  <2> TAKE e \in S
  <2> TAKE v
  <2> HAVE ShownOn(k, v)
  <2> DEFINE Fixed(w) == Advance(w, e, now)
  <2>1. Sound(v, now, known) /\ Shows(x, v) /\ e \in Live(v)
    BY <1>2 DEF ShownOn, Shows
  <2>2. ASSUME NEW w, Sound(w, now, known), Live(w) = Live(v), Shows(v, w)
        PROVE  ShownOn(k, Advance(w, e, now))
    <3> DEFINE y == Advance(w, e, now)
    <3>1. Sound(y, now, known) /\ Shows(w, y)
        BY <2>1, <2>2, AdvanceSound, AdvanceShows
    <3> HIDE DEF y
    <3>2. Shows(x, y)
        BY <2>1, <2>2, <3>1, ShowsTransitive
    <3>3. ShownOn(k, y)
        BY <3>1, <3>2 DEF ShownOn
    <3> QED
        BY <3>3 DEF y
  <2>3. ShownOn(k, Advance(DropAttachment(v, e), e, now))
    BY <2>1, <2>2, DropAttachmentSound, DropAttachmentShows
  <2>4. ShownOn(k, Advance(StoreAttachment(v, e, BytesOf(r, e)), e, now))
    BY <2>1, <2>2, StoreAttachmentSound, StoreAttachmentShows
  <2> QED
    BY <2>3, <2>4 DEF PropagateRound
<1>5. ShownOn(k, x)
    BY DEF ShownOn, Shows
<1>6. ShownOn(k, PropagatingShown!Fold(r, now, x, S))
  <2> HIDE DEF k
  <2> QED BY <1>3, <1>4, <1>5, PropagatingShown!FoldKeeps
<1> QED
    BY <1>1, <1>6 DEF ShownOn

\* Both guarantees for the result of reconcile.
LEMMA ReconcileKeepsBothSides ==
    ASSUME NEW l, NEW r, NEW now \in Int, NEW known,
           Sound(l, now, known), Sound(r, now, known), ~MergeFails(l, r),
           NEW z, z = Reconcile(l, r, now), NEW e \in Live(z)
    PROVE  /\ \A x \in {l, r} : e \in Live(x) => x.entries[e].val \in Values(z, e)
           /\ \A x, y \in {l, r} :
                 e \in Live(x) /\ e \in Live(y) /\ x.entries[e].lm > y.entries[e].lm
                    => z.entries[e].val = x.entries[e].val
<1> DEFINE m  == DatabaseMerge(l, r)
<1> DEFINE b1 == Backfill(m, l)
<1> DEFINE b2 == Backfill(b1, r)
<1> DEFINE p  == RepairAdded(b2, l, r, now)
<1>1. z = PropagateBoth(p, l, r, now)
    BY DEF Reconcile
<1>2. /\ Sound(m, now, known)
      /\ e \in Both(l, r) => m.entries[e] = Common(l.entries[e], r.entries[e])
    BY DatabaseMergeSound, DatabaseMergeOfBoth
<1> HIDE DEF m
<1>3. /\ Sound(b1, now, known) /\ Live(b1) = Live(m)
      /\ e \in Live(m) => /\ b1.entries[e].val = m.entries[e].val
                          /\ e \in Live(l) => l.entries[e].val \in Values(b1, e)
    BY <1>2, BackfillSound, BackfillKeeps
<1> HIDE DEF b1
<1>4. /\ Sound(b2, now, known) /\ Live(b2) = Live(m)
      /\ e \in Live(m) => /\ b2.entries[e].val = b1.entries[e].val
                          /\ Values(b1, e) \subseteq Values(b2, e)
                          /\ e \in Live(r) => r.entries[e].val \in Values(b2, e)
    BY <1>3, BackfillSound, BackfillKeeps
<1> HIDE DEF b2
<1>5. Sound(p, now, known) /\ Shows(b2, p)
    BY <1>4, RepairAddedSound, RepairAddedShows
<1> HIDE DEF p
<1>6. Shows(b2, z)
    BY <1>1, <1>5, PropagateBothShows, ShowsTransitive
<1>7. /\ e \in Live(m) /\ z.entries[e].val = m.entries[e].val
      /\ Values(z, e) = Values(b2, e)
    BY <1>3, <1>4, <1>6 DEF Shows, Values, Versions
<1>8. \A x \in {l, r} : e \in Live(x) => x.entries[e].val \in Values(z, e)
    BY <1>3, <1>4, <1>7
<1>9. ASSUME e \in Both(l, r)
      PROVE  /\ l.entries[e].lm > r.entries[e].lm => z.entries[e].val = l.entries[e].val
             /\ r.entries[e].lm > l.entries[e].lm => z.entries[e].val = r.entries[e].val
  <2>1. /\ IsEntry(l.entries[e]) /\ l.entries[e].lm \in Int
        /\ IsEntry(r.entries[e]) /\ r.entries[e].lm \in Int
    BY <1>9 DEF Both, Sound, HoldsEntries
  <2> QED
    BY <1>2, <1>7, <1>9, <2>1, CommonKeepsNewer
<1>10. \A x \in {l, r} : e \in Live(x) => ~(x.entries[e].lm > x.entries[e].lm)
    BY DEF Sound, HoldsEntries
<1> QED
    BY <1>8, <1>9, <1>10 DEF Both

\* Whatever the two sides of a merge hold, the value every live entry had on
\* either side is still its value or in its history, and of two versions the
\* newer is the current one (reconcile, backfill_lost_versions).
THEOREM NoValueIsLost == RepSpec => MergeKeepsBothSides
<1>1. RepInv /\ [RepNext]_repVars => [\A d \in Device : MergeSync(d) =>
         \A e \in Live(db'[d]) : \A x \in {db[d], remote} : e \in Live(x) =>
             /\ x.entries[e].val \in Values(db'[d], e)
             /\ \A y \in {db[d], remote} :
                    e \in Live(y) /\ x.entries[e].lm > y.entries[e].lm
                        => db'[d].entries[e].val = x.entries[e].val]_repVars
  <2> SUFFICES ASSUME RepInv, NEW d \in Device, MergeSync(d), NEW e \in Live(db'[d])
               PROVE  \A x \in {db[d], remote} : e \in Live(x) =>
                        /\ x.entries[e].val \in Values(db'[d], e)
                        /\ \A y \in {db[d], remote} :
                            e \in Live(y) /\ x.entries[e].lm > y.entries[e].lm
                                => db'[d].entries[e].val = x.entries[e].val
    OBVIOUS
  <2> DEFINE l == db[d]
  <2> DEFINE z == db'[d]
  <2>1. /\ clock \in Int /\ Sound(l, clock, ids) /\ Sound(remote, clock, ids)
        /\ db = [c \in Device |-> db[c]]
    BY DEF RepInv
  <2>2. ~MergeFails(l, remote) /\ z = Reconcile(l, remote, clock)
    BY <2>1 DEF MergeSync, Upload
  <2>3. e \in Live(z)
    OBVIOUS
  <2> HIDE DEF l, z
  <2>4. /\ \A x \in {l, remote} : e \in Live(x) => x.entries[e].val \in Values(z, e)
        /\ \A x, y \in {l, remote} :
              e \in Live(x) /\ e \in Live(y) /\ x.entries[e].lm > y.entries[e].lm
                 => z.entries[e].val = x.entries[e].val
    BY <2>1, <2>2, <2>3, ReconcileKeepsBothSides
  <2> QED
    BY <2>4 DEF l, z
<1> QED
    BY InitSound, NextSound, <1>1, PTL DEF RepSpec, MergeKeepsBothSides
=============================================================================
