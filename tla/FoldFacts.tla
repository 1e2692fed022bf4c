----------------------------- MODULE FoldFacts -----------------------------
(***************************************************************************)
(* What a fold computes, for the proofs about the loops of the models: the *)
(* code's loops over a set of entries or groups are written as FoldSet,    *)
(* its loops over a queue or a line of characters as FoldLeft, and what    *)
(* every round of a loop keeps, the loop keeps.                            *)
(*                                                                         *)
(* The step of the loop, its order and the fact it keeps are CONSTANTS of  *)
(* this module, so that a module with a loop takes the theorem by INSTANCE *)
(* with its own step, order and fact for them.  The first arguments of the *)
(* step and of the fact are what they use from outside the loop.           *)
(***************************************************************************)
EXTENDS FiniteSetTheorems, FiniteSetsExt, WellFoundedInduction, TLAPS

CONSTANTS
    Op(_, _, _, _),  \* Op(a, b, x, v): v after the round for x
    Good(_, _),      \* Good(k, v): what every round keeps of v
    Pick(_)          \* Pick(s): the element that is taken last of s

\* A loop over the elements of S.
Fold(a, b, base, S) ==
    MapThenFoldSet(LAMBDA x, v : Op(a, b, x, v), base, LAMBDA x : x, Pick, S)

\* Pick takes an element of every part of S.
PicksFrom(S) == \A s \in SUBSET S : s # {} => Pick(s) \in s

\* The elements before the last.
Rest(s) == s \ {Pick(s)}

\* The value at s of a fold that g computes for smaller sets.
Round(a, b, base, g, s) == IF s = {} THEN base ELSE Op(a, b, Pick(s), g[Rest(s)])

\* g computes the fold for the sets in its domain, as far as it goes.
Computes(a, b, base, S, g) ==
    /\ DOMAIN g \subseteq SUBSET S
    /\ \A s \in DOMAIN g : s # {} => Rest(s) \in DOMAIN g
    /\ \A s \in DOMAIN g : g[s] = Round(a, b, base, g, s)

----------------------------------------------------------------------------

\* Induction over the subsets of a finite set: a set of subsets that holds the
\* empty one, and every one whose rest it holds, holds them all.  (Every loop
\* of the code runs over a finite set.)
THEOREM SubsetInduction ==
    ASSUME NEW S, IsFiniteSet(S), PicksFrom(S), NEW T,
           {} \in T,
           \A s \in SUBSET S : s # {} /\ Rest(s) \in T => s \in T
    PROVE  SUBSET S \subseteq T
<1> SUFFICES ASSUME (SUBSET S) \ T # {} PROVE FALSE
    OBVIOUS
<1> DEFINE R == StrictSubsetOrdering(S)
<1> DEFINE D == FiniteSubsetsOf(S)
<1> DEFINE Missed == (SUBSET S) \ T
<1>1. D = SUBSET S
    BY FS_FiniteSubsetsOfFinite
<1>2. IsWellFoundedOn(R, D)
    BY FS_StrictSubsetOrderingWellFounded
<1>3. Missed \subseteq D /\ Missed # {}
    BY <1>1
<1>4. \E x \in Missed : \A y \in Missed : ~(<<y, x>> \in R)
  <2> HIDE DEF R, D, Missed
  <2> QED BY <1>2, <1>3, WFMin
<1>5. PICK x \in Missed : \A y \in Missed : ~(<<y, x>> \in R)
    BY <1>4
<1>6. x # {} /\ x \subseteq S /\ x \notin T
    BY <1>5
<1>7. Pick(x) \in x
    BY <1>6 DEF PicksFrom
<1>8. Rest(x) \in SUBSET S /\ Rest(x) \subseteq x /\ Rest(x) # x
    BY <1>6, <1>7 DEF Rest
<1>9. <<Rest(x), x>> \in R
    BY <1>6, <1>8 DEF StrictSubsetOrdering
<1>10. Rest(x) \in T
    BY <1>5, <1>8, <1>9
<1> QED
    BY <1>6, <1>10

\* A finite set of numbers that is not empty has a greatest and a least
\* element: a fold over a sequence takes its positions by them.
LEMMA GreatestAndLeast ==
    ASSUME NEW S \in SUBSET Int, IsFiniteSet(S), PicksFrom(S)
    PROVE  \A s \in SUBSET S : s # {} =>
               /\ Max(s) \in s /\ \A y \in s : Max(s) >= y
               /\ Min(s) \in s /\ \A y \in s : Min(s) <= y
<1> DEFINE Ordered(s) == /\ \E m \in s : \A y \in s : m >= y
                         /\ \E m \in s : \A y \in s : m <= y
           T == {s \in SUBSET S : s # {} => Ordered(s)}
<1>1. {} \in T
    OBVIOUS
<1>2. ASSUME NEW s \in SUBSET S, s # {}, Rest(s) \in T PROVE s \in T
  <2>1. Pick(s) \in s /\ s = Rest(s) \cup {Pick(s)}
    BY <1>2 DEF PicksFrom, Rest
  <2>2. CASE Rest(s) = {}
    <3>1. s = {Pick(s)} /\ Pick(s) \in Int
        BY <2>1, <2>2
    <3>2. \A y \in s : Pick(s) >= y /\ Pick(s) <= y
        BY <3>1
    <3> QED
        BY <2>1, <3>2
  <2>3. CASE Rest(s) # {}
    <3>1. PICK m \in Rest(s) : \A y \in Rest(s) : m >= y
        BY <1>2, <2>3
    <3>2. PICK l \in Rest(s) : \A y \in Rest(s) : l <= y
        BY <1>2, <2>3
    <3>3. m \in Int /\ l \in Int /\ Pick(s) \in Int /\ m \in s /\ l \in s
        BY <2>1
    <3>4. \E x \in s : \A y \in s : x >= y
      <4>1. CASE Pick(s) >= m
        BY <2>1, <3>1, <3>3, <4>1
      <4>2. CASE ~(Pick(s) >= m)
        BY <2>1, <3>1, <3>3, <4>2
      <4> QED BY <4>1, <4>2
    <3>5. \E x \in s : \A y \in s : x <= y
      <4>1. CASE Pick(s) <= l
        BY <2>1, <3>2, <3>3, <4>1
      <4>2. CASE ~(Pick(s) <= l)
        BY <2>1, <3>2, <3>3, <4>2
      <4> QED BY <4>1, <4>2
    <3> QED
        BY <3>4, <3>5
  <2> QED
    BY <2>2, <2>3
<1>3. SUBSET S \subseteq T
  <2> HIDE DEF T
  <2> QED BY <1>1, <1>2, SubsetInduction
<1>4. ASSUME NEW s \in SUBSET S, s # {} PROVE Ordered(s)
    BY <1>3, <1>4
<1> QED
    BY <1>4 DEF Max, Min

\* Two computations of one fold agree where both are defined.
LEMMA ComputationsAgree ==
    ASSUME NEW S, IsFiniteSet(S), PicksFrom(S), NEW a, NEW b, NEW base, NEW g, NEW h,
           Computes(a, b, base, S, g), Computes(a, b, base, S, h)
    PROVE  \A s \in (DOMAIN g) \cap (DOMAIN h) : g[s] = h[s]
<1> DEFINE T == {s \in SUBSET S : s \in (DOMAIN g) \cap (DOMAIN h) => g[s] = h[s]}
<1>1. {} \in T
    BY DEF Computes, Round
<1>2. \A s \in SUBSET S : s # {} /\ Rest(s) \in T => s \in T
    BY DEF Computes, Round
<1>3. SUBSET S \subseteq T
  <2> HIDE DEF T
  <2> QED BY <1>1, <1>2, SubsetInduction
<1> QED
    BY <1>3 DEF Computes

\* For every subset there is a computation that reaches it.
LEMMA ComputationExists ==
    ASSUME NEW S, IsFiniteSet(S), PicksFrom(S), NEW a, NEW b, NEW base
    PROVE  \A s \in SUBSET S : \E g : Computes(a, b, base, S, g) /\ s \in DOMAIN g
<1> DEFINE T == {s \in SUBSET S : \E g : Computes(a, b, base, S, g) /\ s \in DOMAIN g}
<1>1. {} \in T
  <2> DEFINE g == [s \in {{}} |-> base]
  <2>1. Computes(a, b, base, S, g) /\ {} \in DOMAIN g
    BY DEF Computes, Round
  <2> QED
    BY <2>1
<1>2. ASSUME NEW s \in SUBSET S, s # {}, Rest(s) \in T
      PROVE  s \in T
  <2>1. PICK g : Computes(a, b, base, S, g) /\ Rest(s) \in DOMAIN g
    BY <1>2
  <2>2. CASE s \in DOMAIN g
    BY <2>1, <2>2
  <2>3. CASE s \notin DOMAIN g
    <3> DEFINE h == [t \in (DOMAIN g) \cup {s} |->
                        IF t = s THEN Op(a, b, Pick(s), g[Rest(s)]) ELSE g[t]]
    <3>1. DOMAIN h = (DOMAIN g) \cup {s} /\ DOMAIN h \subseteq SUBSET S
        BY <2>1 DEF Computes
    <3>2. \A t \in DOMAIN g : h[t] = g[t]
        BY <2>3
    <3>3. h[s] = Op(a, b, Pick(s), g[Rest(s)])
        OBVIOUS
    <3> HIDE DEF h
    <3>4. \A t \in DOMAIN h : t # {} => Rest(t) \in DOMAIN g
        BY <2>1, <3>1 DEF Computes
    <3>5. \A t \in DOMAIN g : h[t] = Round(a, b, base, h, t)
        BY <2>1, <3>1, <3>2, <3>4 DEF Computes, Round
    <3>6. h[s] = Round(a, b, base, h, s)
        BY <1>2, <2>1, <3>2, <3>3 DEF Round
    <3>7. Computes(a, b, base, S, h)
        BY <3>1, <3>4, <3>5, <3>6 DEF Computes
    <3> QED
        BY <3>1, <3>7
  <2> QED
    BY <2>2, <2>3
<1>3. SUBSET S \subseteq T
  <2> HIDE DEF T
  <2> QED BY <1>1, <1>2, SubsetInduction
<1> QED
    BY <1>3

\* So the recursive function in the definition of FoldSet exists.
LEMMA FoldIsDefined ==
    ASSUME NEW S, IsFiniteSet(S), PicksFrom(S), NEW a, NEW b, NEW base
    PROVE  \E g : g = [s \in SUBSET S |-> Round(a, b, base, g, s)]
<1> DEFINE At(s) == CHOOSE g : Computes(a, b, base, S, g) /\ s \in DOMAIN g
<1> DEFINE G == [s \in SUBSET S |-> At(s)[s]]
<1>1. \A s \in SUBSET S : Computes(a, b, base, S, At(s)) /\ s \in DOMAIN At(s)
    BY ComputationExists
<1> HIDE DEF At
<1>2. \A s \in SUBSET S : G[s] = At(s)[s]
    OBVIOUS
<1>3. DOMAIN G = SUBSET S /\ G = [s \in SUBSET S |-> G[s]]
    OBVIOUS
<1> HIDE DEF G
<1>4. ASSUME NEW s \in SUBSET S PROVE G[s] = Round(a, b, base, G, s)
  <2>1. Computes(a, b, base, S, At(s)) /\ s \in DOMAIN At(s)
    BY <1>1
  <2>2. At(s)[s] = Round(a, b, base, At(s), s)
    BY <2>1 DEF Computes
  <2>3. CASE s = {}
    BY <1>2, <2>2, <2>3 DEF Round
  <2>4. CASE s # {}
    <3>1. Rest(s) \in DOMAIN At(s) /\ Rest(s) \in SUBSET S
        BY <2>1, <2>4 DEF Computes
    <3>2. Computes(a, b, base, S, At(Rest(s))) /\ Rest(s) \in DOMAIN At(Rest(s))
        BY <1>1, <3>1
    <3>3. At(s)[Rest(s)] = At(Rest(s))[Rest(s)]
        BY <2>1, <3>1, <3>2, ComputationsAgree
    <3>4. At(s)[Rest(s)] = G[Rest(s)]
        BY <1>2, <3>1, <3>3
    <3> QED
        BY <1>2, <2>2, <2>4, <3>4 DEF Round
  <2> QED
    BY <2>3, <2>4
<1>5. G = [s \in SUBSET S |-> Round(a, b, base, G, s)]
    BY <1>3, <1>4
<1> QED
    BY <1>5

\* A loop round by round: what it has after the elements of a part of S is
\* the round for the last of them, of what it has after the others.
Unfolds(a, b, base, S, after) ==
    /\ after[{}] = base
    /\ \A s \in SUBSET S : s # {} => after[s] = Op(a, b, Pick(s), after[s \ {Pick(s)}])
    /\ after[S] = Fold(a, b, base, S)

THEOREM FoldUnfolds ==
    ASSUME NEW S, IsFiniteSet(S), PicksFrom(S), NEW a, NEW b, NEW base
    PROVE  \E after : Unfolds(a, b, base, S, after)
<1> DEFINE it == CHOOSE g : g = [s \in SUBSET S |-> Round(a, b, base, g, s)]
<1>1. it = [s \in SUBSET S |-> Round(a, b, base, it, s)]
    BY FoldIsDefined
<1>2. Fold(a, b, base, S) = it[S]
    BY DEF Fold, FoldSet, MapThenFoldSet, Round, Rest
<1> HIDE DEF it
<1>3. \A s \in SUBSET S : it[s] = Round(a, b, base, it, s)
    BY <1>1
<1>4. it[{}] = base
    BY <1>3 DEF Round
<1>5. \A s \in SUBSET S : s # {} => it[s] = Op(a, b, Pick(s), it[s \ {Pick(s)}])
    BY <1>3 DEF Round, Rest
<1>6. it[S] = Fold(a, b, base, S)
    BY <1>2
<1>7. Unfolds(a, b, base, S, it)
    BY <1>4, <1>5, <1>6 DEF Unfolds
<1> QED BY <1>7

\* A loop over the positions 1 to n, from the first to the last.
Steps(a, b, base, n, S, after) ==
    /\ after[0] = base
    /\ \A i \in 1 .. n : after[i] = Op(a, b, i, after[i - 1])
    /\ after[n] = Fold(a, b, base, S)

THEOREM FoldByPosition ==
    ASSUME NEW n \in Nat, NEW S, S = 1 .. n, IsFiniteSet(S), PicksFrom(S),
           \A i \in 1 .. n : Pick(1 .. i) = i,
           NEW a, NEW b, NEW base
    PROVE  \E after : Steps(a, b, base, n, S, after)
<1>1. PICK g : Unfolds(a, b, base, S, g)
    BY FoldUnfolds
<1> DEFINE f == [i \in 0 .. n |-> g[1 .. i]]
<1>2. \A i \in 0 .. n : f[i] = g[1 .. i]
    OBVIOUS
<1> HIDE DEF f
<1>3. 1 .. 0 = {} /\ 0 \in 0 .. n /\ n \in 0 .. n
    OBVIOUS
<1>4. f[0] = base /\ f[n] = Fold(a, b, base, S)
    BY <1>1, <1>2, <1>3 DEF Unfolds
<1>5. ASSUME NEW i \in 1 .. n PROVE f[i] = Op(a, b, i, f[i - 1])
  <2> DEFINE s == 1 .. i
  <2>1. s \in SUBSET S /\ s # {} /\ Pick(s) = i /\ s \ {i} = 1 .. (i - 1)
    OBVIOUS
  <2>2. g[s] = Op(a, b, i, g[1 .. (i - 1)])
    BY <1>1, <2>1 DEF Unfolds
  <2>3. f[i] = g[s] /\ f[i - 1] = g[1 .. (i - 1)]
    BY <1>2
  <2> QED BY <2>2, <2>3
<1>6. Steps(a, b, base, n, S, f)
    BY <1>4, <1>5 DEF Steps
<1> QED BY <1>6

\* What every round of a loop keeps, the loop keeps.
THEOREM FoldKeeps ==
    ASSUME NEW S, IsFiniteSet(S), PicksFrom(S), NEW a, NEW b, NEW k, NEW base,
           Good(k, base),
           \A x \in S : \A v : Good(k, v) => Good(k, Op(a, b, x, v))
    PROVE  Good(k, Fold(a, b, base, S))
<1> DEFINE it == CHOOSE g : g = [s \in SUBSET S |-> Round(a, b, base, g, s)]
<1> DEFINE T == {s \in SUBSET S : Good(k, it[s])}
<1>1. it = [s \in SUBSET S |-> Round(a, b, base, it, s)]
    BY FoldIsDefined
<1>2. Fold(a, b, base, S) = it[S]
    BY DEF Fold, FoldSet, MapThenFoldSet, Round, Rest
<1> HIDE DEF it
<1>3. \A s \in SUBSET S : it[s] = Round(a, b, base, it, s)
    BY <1>1
<1>4. {} \in T
    BY <1>3 DEF Round
<1>5. ASSUME NEW s \in SUBSET S, s # {}, Rest(s) \in T PROVE s \in T
  <2>1. it[s] = Op(a, b, Pick(s), it[Rest(s)])
    BY <1>3, <1>5 DEF Round
  <2>2. Pick(s) \in S
    BY <1>5 DEF PicksFrom
  <2> QED
    BY <1>5, <2>1, <2>2
<1>6. SUBSET S \subseteq T
  <2> HIDE DEF T
  <2> QED BY <1>4, <1>5, SubsetInduction
<1> QED
    BY <1>2, <1>6

\* A loop over at most one element.
LEMMA FoldOfFew ==
    ASSUME NEW a, NEW b, NEW base, NEW S, IsFiniteSet(S), PicksFrom(S), S = {} \/ S = {Pick(S)}
    PROVE  Fold(a, b, base, S) = IF S = {} THEN base ELSE Op(a, b, Pick(S), base)
<1> DEFINE it == CHOOSE g : g = [s \in SUBSET S |-> Round(a, b, base, g, s)]
<1>1. it = [s \in SUBSET S |-> Round(a, b, base, it, s)]
    BY FoldIsDefined
<1>2. Fold(a, b, base, S) = it[S]
    BY DEF Fold, FoldSet, MapThenFoldSet, Round, Rest
<1> HIDE DEF it
<1>3. \A s \in SUBSET S : it[s] = Round(a, b, base, it, s)
    BY <1>1
<1>4. it[{}] = base
    BY <1>3 DEF Round
<1>5. S # {} => Rest(S) = {}
    BY DEF Rest
<1> QED
    BY <1>2, <1>3, <1>4, <1>5 DEF Round

\* A loop over nothing gives what it starts with.
THEOREM FoldOfNone ==
    ASSUME NEW a, NEW b, NEW base
    PROVE  Fold(a, b, base, {}) = base
<1>1. IsFiniteSet({}) /\ PicksFrom({})
    BY FS_EmptySet DEF PicksFrom
<1> QED BY <1>1, FoldOfFew

\* A loop over a single element is a single round.
THEOREM FoldOfOne ==
    ASSUME NEW a, NEW b, NEW base, NEW x, Pick({x}) = x
    PROVE  Fold(a, b, base, {x}) = Op(a, b, x, base)
<1>1. IsFiniteSet({x}) /\ PicksFrom({x})
    BY FS_Singleton DEF PicksFrom
<1> QED BY <1>1, FoldOfFew
=============================================================================
