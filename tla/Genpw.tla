------------------------------- MODULE Genpw -------------------------------
(***************************************************************************)
(* The password and passphrase generators (falach-genpw password.rs,       *)
(* passphrase.rs, charset.rs, sampling.rs, wordlist.rs): characters are    *)
(* reserved, filled in and shuffled with indices drawn from a buffer of    *)
(* random words that may run out.                                          *)
(*                                                                         *)
(* DATA.  A draw is a number up to MaxDraw (u32::MAX in the code).  The    *)
(* classes have a few characters each, with one ambiguous one.             *)
(***************************************************************************)
EXTENDS Naturals, Sequences, SequencesExt, FiniteSets, Functions

CONSTANTS
    MaxDraw,      \* greatest random word
    MaxLength,    \* bound: length asked for
    Budget,       \* bound: random words in the buffer
    WordCount     \* words in the list

ASSUME GenpwAssumption ==
    MaxDraw \in Nat /\ MaxLength \in Nat /\ Budget \in Nat /\ WordCount \in 1..MaxDraw

ClassOrder == <<"lower", "upper", "digit", "symbol">>
Alphabet == [lower |-> <<"a", "o">>, upper |-> <<"A", "O">>, digit |-> <<"0", "2">>, symbol |-> <<"!">>]
Ambiguous == {"o", "O", "0"}

VARIABLES
    gen,       \* "password" or "passphrase"
    classes, length, noAmbiguous,   \* the builder
    phase,     \* "validate", "reserve", "fill", "shuffle", "words", "done" or an error
    out,       \* characters or words so far
    at,        \* class, or position of the shuffle
    drawn      \* random words used

genVars == <<gen, classes, length, noAmbiguous, phase, out, at, drawn>>

GenInit ==
    /\ gen \in {"password", "passphrase"}
    /\ classes \in IF gen = "password" THEN SUBSET Range(ClassOrder) ELSE {{}}
    /\ length \in 0..MaxLength
    /\ noAmbiguous \in IF gen = "password" THEN BOOLEAN ELSE {FALSE}
    /\ phase = "validate" /\ out = <<>> /\ at = 1 /\ drawn = 0

----------------------------------------------------------------------------
(* charset.rs and sampling.rs                                              *)

FilterAmbiguous(s) == IF noAmbiguous THEN SelectSeq(s, LAMBDA c : c \notin Ambiguous) ELSE s
EnabledClasses == SelectSeq(ClassOrder, LAMBDA c : c \in classes)
Popcount == Cardinality(classes)
Union == FlattenSeq([i \in DOMAIN EnabledClasses |-> FilterAmbiguous(Alphabet[EnabledClasses[i]])])

\* Faulty variant: the incomplete last round is accepted too.
BugThreshold(range) == MaxDraw + 1

\* Draws from the threshold on are thrown away.
Threshold(range) == MaxDraw - (MaxDraw % range)

Accepted(range) == {v \in 0..MaxDraw : v < Threshold(range)}

\* The range of the index that the next step needs.
RangeNow ==
    CASE phase = "reserve" -> Len(FilterAmbiguous(Alphabet[EnabledClasses[at]]))
      [] phase = "fill" -> Len(Union)
      [] phase = "shuffle" -> at
      [] phase = "words" -> WordCount

Drawing == phase \in {"reserve", "fill", "shuffle", "words"}

----------------------------------------------------------------------------
(* generate_from_bytes                                                     *)

Becomes(p, o, a) ==
    phase' = p /\ out' = o /\ at' = a /\ UNCHANGED <<gen, classes, length, noAmbiguous>>

\* PasswordBuilder::validate, PassphraseBuilder::validate.
Validate ==
    /\ phase = "validate" /\ UNCHANGED drawn
    /\ CASE length = 0 -> Becomes("invalidLength", out, at)
         [] gen = "passphrase" /\ length > 0 -> Becomes("words", out, at)
         [] gen = "password" /\ length > 0 /\ Popcount = 0 -> Becomes("noClasses", out, at)
         [] gen = "password" /\ length > 0 /\ Popcount > length -> Becomes("tooShort", out, at)
         [] gen = "password" /\ Popcount \in 1..length -> Becomes("reserve", out, at)

\* What follows a phase that is complete: the shuffle goes from the last
\* position down to the second.
AfterFill(o) ==
    IF Len(o) < length THEN Becomes("fill", o, 1)
    ELSE IF Len(o) > 1 THEN Becomes("shuffle", o, Len(o)) ELSE Becomes("done", o, 1)

Swap(s, i, j) == [s EXCEPT ![i] = s[j], ![j] = s[i]]

\* One character of each enabled class.
Reserved(i) == FilterAmbiguous(Alphabet[EnabledClasses[at]])[i + 1]

\* uniform_index has returned i.
UseIndex(i) ==
    CASE phase = "reserve" ->
            LET o == Append(out, Reserved(i))
            IN IF at < Popcount THEN Becomes("reserve", o, at + 1) ELSE AfterFill(o)
      [] phase = "fill" -> AfterFill(Append(out, Union[i + 1]))
      [] phase = "shuffle" ->
            LET o == Swap(out, at, i + 1)
            IN IF at > 2 THEN Becomes("shuffle", o, at - 1) ELSE Becomes("done", o, 1)
      [] phase = "words" ->
            LET o == Append(out, i)
            IN Becomes(IF Len(o) = length THEN "done" ELSE "words", o, 1)

\* next_u32: a random word, used or thrown away.
Draw ==
    /\ Drawing /\ drawn < Budget /\ drawn' = drawn + 1
    /\ \E v \in 0..MaxDraw :
           IF v \in Accepted(RangeNow) THEN UseIndex(v % RangeNow)
                                       ELSE Becomes(phase, out, at)

\* The buffer is used up: an error, never a shorter password.
Exhausted ==
    Drawing /\ drawn = Budget /\ Becomes("csprng", out, at) /\ UNCHANGED drawn

GenNext == Validate \/ Draw \/ Exhausted

GenSpec == GenInit /\ [][GenNext]_genVars

----------------------------------------------------------------------------
(* Properties.                                                             *)

\* Every index is equally likely, whatever the alphabet's size: of the draws
\* that are accepted each index gets as many.
IndexIsUniform ==
    Drawing => \A i, j \in 0..(RangeNow - 1) :
        Cardinality({v \in Accepted(RangeNow) : v % RangeNow = i})
            = Cardinality({v \in Accepted(RangeNow) : v % RangeNow = j})

\* A generated password has the length asked for, a character of every class
\* that was asked for, none of another class, and no ambiguous one if so
\* asked, after the shuffle and however many draws were thrown away.
PasswordIsAsAsked ==
    phase = "done" /\ gen = "password" =>
        /\ Len(out) = length
        /\ \A c \in classes : Range(out) \cap Range(Alphabet[c]) # {}
        /\ Range(out) \subseteq UNION {Range(Alphabet[c]) : c \in classes}
        /\ noAmbiguous => Range(out) \cap Ambiguous = {}

\* A generator gives what was asked for, and favours none of it.
GeneratesAsAsked == IndexIsUniform /\ PasswordIsAsAsked
=============================================================================
