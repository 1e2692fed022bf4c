------------------------------- MODULE Search -------------------------------
(***************************************************************************)
(* Entry search (falach-core entry/search.rs, fuzzy.rs): the wildcard      *)
(* matcher as the loop it is, the dynamic program of fuzzy_match, the      *)
(* scores of an entry and the list search_database returns, each to be     *)
(* compared with a definition that says what it should compute.            *)
(*                                                                         *)
(* DATA.  Text is a sequence of the characters of Char; "-" is a           *)
(* delimiter and "A" the upper case of "a".  UUIDs are numbers.            *)
(***************************************************************************)
EXTENDS Integers, Sequences, SequencesExt, FiniteSets, FiniteSetsExt, Functions

CONSTANTS
    Patterns, Values,   \* inputs of the wildcard matcher
    Needles, Haystacks, \* inputs of fuzzy_match
    SearchDb,           \* databases: sequences of entries (the UUID is the index)
    Queries,            \* SearchOptions: [mode, terms, recycled, scope, boost]
    NoStar              \* star_p before a star was met

VARIABLES
    job,                      \* "wildcard", "fuzzy" or "search"
    pattern, value,           \* arguments of wildcard_match
    pos,                      \* its variables p, v, star_p and star_v, from 0
    verdict,                  \* its answer, "none" while it runs
    needle, haystack,         \* arguments of fuzzy_match
    entries, query            \* arguments of search_database

searchVars == <<job, pattern, value, pos, verdict, needle, haystack, entries, query>>

SearchInit ==
    /\ job \in {"wildcard", "fuzzy", "search"}
    /\ pos = [p |-> 0, v |-> 0, starP |-> NoStar, starV |-> 0]
    /\ IF job = "wildcard"
       THEN pattern \in Patterns /\ value \in Values /\ verdict = "none"
       ELSE pattern = <<>> /\ value = <<>> /\ verdict = "unused"
    /\ IF job = "fuzzy" THEN needle \in Needles /\ haystack \in Haystacks
                        ELSE needle = <<>> /\ haystack = <<>>
    /\ IF job = "search" THEN entries \in SearchDb /\ query \in Queries
                         ELSE entries = <<>> /\ query = "none"

----------------------------------------------------------------------------
(* wildcard_match, an action per branch of its loop.                       *)

Running == verdict = "none"
More == pos.v < Len(value)
PatternLeft == pos.p < Len(pattern)
AtStar == PatternLeft /\ pattern[pos.p + 1] = "*"
Fits == PatternLeft /\ pattern[pos.p + 1] \in {"?", value[pos.v + 1]}

MatcherMoves(new, answer) ==
    /\ pos' = new /\ verdict' = answer
    /\ UNCHANGED <<job, pattern, value, needle, haystack, entries, query>>

TakeStar ==
    /\ Running /\ More /\ AtStar
    /\ MatcherMoves([pos EXCEPT !.starP = pos.p, !.starV = pos.v, !.p = @ + 1], "none")

TakeChar ==
    /\ Running /\ More /\ ~AtStar /\ Fits
    /\ MatcherMoves([pos EXCEPT !.p = @ + 1, !.v = @ + 1], "none")

\* The last star takes one character more.
Backtrack == [pos EXCEPT !.p = pos.starP + 1, !.starV = @ + 1, !.v = pos.starV + 1]

Retry ==
    /\ Running /\ More /\ ~AtStar /\ ~Fits
    /\ IF pos.starP = NoStar THEN MatcherMoves(pos, "no") ELSE MatcherMoves(Backtrack, "none")

\* Only stars may be left of the pattern.
AtEnd ==
    /\ Running /\ ~More
    /\ MatcherMoves(pos, IF \A i \in (pos.p + 1)..Len(pattern) : pattern[i] = "*" THEN "yes" ELSE "no")

SearchNext == TakeStar \/ TakeChar \/ Retry \/ AtEnd

SearchSpec == SearchInit /\ [][SearchNext]_searchVars

----------------------------------------------------------------------------
(* fuzzy_match                                                             *)

LowerOf(c) == IF c = "A" THEN "a" ELSE c
CharMatches(n, h) == n = h \/ (n # "A" /\ n = LowerOf(h))

PositionBonus(h, j) ==
    IF j = 1 THEN 16
    ELSE IF h[j - 1] = "-" THEN 8
    ELSE IF h[j - 1] # "A" /\ h[j] = "A" THEN 7 ELSE 0

\* is_subsequence, by the positions the greedy scan reaches.
IsSubsequence(n, h) ==
    LET reach[i \in 0..Len(n)] ==
            IF i = 0 THEN 0
            ELSE LET next == {j \in DOMAIN h : j > reach[i - 1] /\ CharMatches(n[i], h[j])}
                 IN IF reach[i - 1] > Len(h) \/ next = {} THEN Len(h) + 1 ELSE Min(next)
    IN reach[Len(n)] <= Len(h)

Unreachable == -1000

\* Faulty variant: the gap penalty is that of the best score, not of the best
\* score for its distance.
BugGapBase(prev, j) == LET s == {prev[k] : k \in 1..(j - 2)} IN IF s = {} THEN Unreachable ELSE Max(s) + (j - 2)

\* The best gap_base up to k = j - 2.
GapBase(prev, j) ==
    LET s == {prev[k] + k : k \in {k \in 1..(j - 2) : prev[k] # Unreachable}}
    IN IF s = {} THEN Unreachable ELSE Max(s)

\* A row of dp: the best score with character i of the needle at position j,
\* from the best gapped or the adjacent predecessor.
Dp(n, h) ==
    LET row[i \in 1..Len(n)] ==
            [j \in 1..Len(h) |->
                IF j < i \/ ~CharMatches(n[i], h[j]) THEN Unreachable
                ELSE IF i = 1 THEN 16 + PositionBonus(h, j)
                ELSE LET gapped == IF GapBase(row[i - 1], j) = Unreachable THEN Unreachable
                                   ELSE GapBase(row[i - 1], j) - 3 - (j - 2)
                         next == IF j = 1 \/ row[i - 1][j - 1] = Unreachable THEN Unreachable
                                 ELSE row[i - 1][j - 1] + 4
                         best == IF next > gapped THEN next ELSE gapped
                     IN IF best = Unreachable THEN Unreachable ELSE best + 16 + PositionBonus(h, j)]
    IN row

NoMatch == -2000

\* The score of fuzzy_match, NoMatch for None.
FuzzyMatch(n, h) ==
    IF n = <<>> THEN 0
    ELSE IF ~IsSubsequence(n, h) THEN NoMatch
    ELSE Max({Dp(n, h)[Len(n)][j] : j \in DOMAIN h})

----------------------------------------------------------------------------
(* search_database                                                         *)

Field == {"title", "username", "url", "notes", "tags"}
Rank == [title |-> 8, username |-> 4, url |-> 2, notes |-> 1, tags |-> 4]

\* score_entry_fuzzy: every term counts in its best field, and a term without
\* one excludes the entry.
TermScore(e, t) ==
    LET hits == {f \in Field : FuzzyMatch(t, e.text[f]) # NoMatch}
    IN IF hits = {} THEN NoMatch ELSE Max({FuzzyMatch(t, e.text[f]) * Rank[f] : f \in hits})

\* The total, not below zero.
ScoreEntryFuzzy(e, terms) ==
    LET total == FoldLeft(LAMBDA acc, t : acc + TermScore(e, t), 0, terms)
    IN IF \E i \in DOMAIN terms : TermScore(e, terms[i]) = NoMatch THEN NoMatch
       ELSE IF total < 0 THEN 0 ELSE total

ContainsText(text, part) ==
    \E i \in 0..(Len(text) - Len(part)) : SubSeq(text, i + 1, i + Len(part)) = part

\* score_entry: the ranks of the fields that contain the text.
ScoreEntry(e, text) ==
    LET low(s) == [i \in DOMAIN s |-> LowerOf(s[i])]
        hits == {f \in Field : ContainsText(low(e.text[f]), low(text))}
    IN IF hits = {} THEN NoMatch ELSE MapThenSumSet(LAMBDA f : Rank[f], hits)

\* The recycle bin, the scope (a group's subtree or a tag) and the options.
InScope(e, q) ==
    /\ q.recycled \/ ~e.recycled
    /\ CASE q.scope.kind = "all" -> TRUE
         [] q.scope.kind = "group" -> q.scope.name \in e.groups
         [] q.scope.kind = "tag" -> q.scope.name \in e.tags

Candidates(q) == {u \in DOMAIN entries : InScope(entries[u], q)}

Score(q, u) == IF q.mode = "fuzzy" THEN ScoreEntryFuzzy(entries[u], q.terms)
                                   ELSE ScoreEntry(entries[u], q.terms[1])

Boosted(q, u) == \E i \in DOMAIN q.boost : q.boost[i] = u

\* The comparison of sort_by: the score, then boosted ones, then the UUID.
Before(q, u, w) ==
    IF Score(q, u) # Score(q, w) THEN Score(q, u) > Score(q, w)
    ELSE IF Boosted(q, u) # Boosted(q, w) THEN Boosted(q, u) ELSE u < w

\* Titles as to_lowercase and cmp compare them.
Code == [c \in {"-", "a", "b"} |-> CASE c = "-" -> 1 [] c = "a" -> 2 [] c = "b" -> 3]
TitleCode(u) == [i \in DOMAIN entries[u].text["title"] |-> Code[LowerOf(entries[u].text["title"][i])]]
TitleLess(s, t) ==
    \/ Len(s) < Len(t) /\ SubSeq(t, 1, Len(s)) = s
    \/ \E i \in DOMAIN s \cap DOMAIN t : s[i] < t[i] /\ \A k \in 1..(i - 1) : s[k] = t[k]

\* browse_results: the boosted ones once each, then the rest by title.
BrowseResults(q) ==
    LET first == SelectSeq(q.boost, LAMBDA u : u \in Candidates(q))
        head == FoldLeft(LAMBDA acc, u : IF u \in Range(acc) THEN acc ELSE Append(acc, u), <<>>, first)
    IN head \o SetToSortSeq(Candidates(q) \ Range(head),
                            LAMBDA u, w : TitleLess(TitleCode(u), TitleCode(w))
                                          \/ (TitleCode(u) = TitleCode(w) /\ u < w))

SearchDatabase(q) ==
    IF q.terms = <<>> THEN IF q.mode = "fuzzy" THEN BrowseResults(q) ELSE <<>>
    ELSE SetToSortSeq({u \in Candidates(q) : Score(q, u) # NoMatch}, LAMBDA u, w : Before(q, u, w))

----------------------------------------------------------------------------
(* Properties.                                                             *)

\* What a wildcard pattern means: the rest i of the pattern fits the rest j of
\* the text.
Glob(p, t) ==
    LET g[i \in 1..(Len(p) + 1), j \in 1..(Len(t) + 1)] ==
            IF i > Len(p) THEN j > Len(t)
            ELSE IF p[i] = "*" THEN g[i + 1, j] \/ (j <= Len(t) /\ g[i, j + 1])
            ELSE j <= Len(t) /\ p[i] \in {"?", t[j]} /\ g[i + 1, j + 1]
    IN g[1, 1]

\* The loop of wildcard_match, which remembers only its last star, answers
\* what the pattern means.
WildcardIsGlob == job = "wildcard" /\ verdict # "none" => (verdict = "yes" <=> Glob(pattern, value))

\* All ways to place the needle in the text, and what one is worth.
Alignments(n, h) ==
    {a \in [1..Len(n) -> 1..Len(h)] :
        /\ \A i \in 1..(Len(n) - 1) : a[i] < a[i + 1]
        /\ \A i \in 1..Len(n) : CharMatches(n[i], h[a[i]])}
Worth(n, h, a) ==
    LET step(i) == 16 + PositionBonus(h, a[i])
                   + (IF i = 1 THEN 0 ELSE IF a[i] = a[i - 1] + 1 THEN 4
                      ELSE -3 - (a[i] - a[i - 1] - 2))
    IN FoldLeft(LAMBDA acc, i : acc + step(i), 0, [i \in 1..Len(n) |-> i])

\* fuzzy_match finds the best of all placements, though it keeps one number
\* for all gapped predecessors of a column.
FuzzyIsBest ==
    job = "fuzzy" /\ needle # <<>> =>
        FuzzyMatch(needle, haystack) =
            (IF Alignments(needle, haystack) = {} THEN NoMatch
             ELSE Max({Worth(needle, haystack, a) : a \in Alignments(needle, haystack)}))

\* A fuzzy search lists every entry in scope of which each term is somewhere,
\* once, and none that the query excludes; without terms every entry in scope.
SearchIsExact ==
    job = "search" /\ query.mode = "fuzzy" =>
        /\ Range(SearchDatabase(query)) =
              {u \in Candidates(query) : \A i \in DOMAIN query.terms : \E f \in Field :
                   Alignments(query.terms[i], entries[u].text[f]) # {}}
        /\ \A i, k \in DOMAIN SearchDatabase(query) :
              SearchDatabase(query)[i] = SearchDatabase(query)[k] => i = k

\* Each of the three algorithms computes what its definition says
\* (wildcard_match, fuzzy_match, search_database).
SearchIsRight == WildcardIsGlob /\ FuzzyIsBest /\ SearchIsExact
=============================================================================
