-------------------------------- MODULE Totp --------------------------------
(***************************************************************************)
(* One-time codes (falach-core entry/totp.rs): the otpauth URI an entry    *)
(* stores is parsed, written again in canonical form, and turned into a    *)
(* code and the seconds it stays valid while the clock runs.               *)
(*                                                                         *)
(* DATA.  A URI is a sequence of characters; the fixed words of the syntax *)
(* ("otpauth://", "totp", the parameter names) are one character each.     *)
(* A secret is its base32 text.  The code is the counter HMAC is given.    *)
(***************************************************************************)
EXTENDS Integers, Sequences, SequencesExt, FiniteSets, FiniteSetsExt, Functions

CONSTANTS
    Uris,         \* otpauth URIs offered: sequences of characters
    MaxNow,       \* bound: seconds since the epoch
    NoIssuer,     \* issuer None
    BadUri,       \* OtpAuthUriError
    NoCode        \* no code is shown yet

VARIABLES
    uri,          \* the otp field of the entry
    now,          \* the system clock, -1 before the epoch
    shown         \* the last answer of Vault::totp: [counter, remaining, at], or NoCode

totpVars == <<uri, now, shown>>

TotpInit == uri \in Uris /\ now = -1 /\ shown = NoCode

----------------------------------------------------------------------------
(* Percent encoding.                                                       *)

\* The characters that two hex digits of HexDigit stand for; "F" as the first
\* digit is not UTF-8.
HexDigit == {"2", "3", "6", "F"}
Decoded == [p \in {"2", "3", "6"} \X HexDigit |->
    CASE p = <<"2", "2">> -> "quote" [] p = <<"2", "3">> -> "#" [] p = <<"2", "6">> -> "&" [] p = <<"2", "F">> -> "/"
      [] p = <<"3", "2">> -> "2"     [] p = <<"3", "3">> -> "3" [] p = <<"3", "6">> -> "6" [] p = <<"3", "F">> -> "?"
      [] p = <<"6", "2">> -> "b"     [] p = <<"6", "3">> -> "c" [] p = <<"6", "6">> -> "f" [] p = <<"6", "F">> -> "o"]
UnreservedChar == HexDigit \cup {"b", "c", "f", "o"}

PercentEncode(s) ==
    FlattenSeq([i \in DOMAIN s |-> IF s[i] \in UnreservedChar THEN <<s[i]>>
                                   ELSE <<"%">> \o (CHOOSE p \in DOMAIN Decoded : Decoded[p] = s[i])])

\* The decoded characters from position i on, or BadUri.
PercentDecode(s) ==
    LET from[i \in 1..(Len(s) + 1)] ==
            IF i > Len(s) THEN <<>>
            ELSE IF s[i] # "%" THEN IF from[i + 1] = BadUri THEN BadUri ELSE <<s[i]>> \o from[i + 1]
            ELSE IF i + 2 > Len(s) THEN BadUri
            ELSE IF <<s[i + 1], s[i + 2]>> \notin DOMAIN Decoded \/ from[i + 3] = BadUri THEN BadUri
            ELSE <<Decoded[<<s[i + 1], s[i + 2]>>]>> \o from[i + 3]
    IN from[1]

----------------------------------------------------------------------------
(* parse_otpauth_uri and to_otpauth_uri                                    *)

\* split_once: the parts before and after the first c.
HasChar(s, c) == c \in Range(s)
BeforeFirst(s, c) == IF HasChar(s, c) THEN SubSeq(s, 1, Min({i \in DOMAIN s : s[i] = c}) - 1) ELSE s
AfterFirst(s, c) == IF HasChar(s, c) THEN SubSeq(s, Min({i \in DOMAIN s : s[i] = c}) + 1, Len(s)) ELSE <<>>

\* split at every c
SplitAt(s, c) ==
    FoldLeft(LAMBDA acc, x : IF x = c THEN Append(acc, <<>>)
                             ELSE [acc EXCEPT ![Len(acc)] = Append(@, x)], <<<<>>>>, s)

\* str::parse of an unsigned number.
DigitValue == [d \in {"0", "1", "2", "3", "6"} |->
    CASE d = "0" -> 0 [] d = "1" -> 1 [] d = "2" -> 2 [] d = "3" -> 3 [] d = "6" -> 6]
IsNumber(s) == s # <<>> /\ Range(s) \subseteq DOMAIN DigitValue
NumberOf(s) == FoldLeft(LAMBDA acc, d : 10 * acc + DigitValue[d], 0, s)
TextOf(n) == CHOOSE s \in UNION {[1..k -> DOMAIN DigitValue] : k \in 1..2} :
                NumberOf(s) = n /\ (Len(s) > 1 => s[1] # "0")

DefaultDigits == 6
DefaultPeriod == 30
MaxDigits == 10

Defaults(label) == [label |-> label, secret |-> <<>>, digits |-> DefaultDigits,
                    period |-> DefaultPeriod, issuer |-> NoIssuer, seen |-> FALSE]

\* One parameter; the last of several with one name counts.
Param(t, pair) ==
    LET key == BeforeFirst(pair, "=")
        val == AfterFirst(pair, "=")
    IN IF t = BadUri THEN BadUri
       ELSE CASE key = <<"secret">> -> [t EXCEPT !.secret = val, !.seen = TRUE]
              [] key = <<"algorithm">> -> IF val = <<"SHA1">> THEN t ELSE BadUri
              [] key = <<"digits">> ->
                     IF IsNumber(val) /\ NumberOf(val) \in 1..MaxDigits
                     THEN [t EXCEPT !.digits = NumberOf(val)] ELSE BadUri
              [] key = <<"period">> ->
                     IF IsNumber(val) /\ NumberOf(val) # 0 THEN [t EXCEPT !.period = NumberOf(val)] ELSE BadUri
              [] key = <<"issuer">> ->
                     IF PercentDecode(val) = BadUri THEN BadUri ELSE [t EXCEPT !.issuer = PercentDecode(val)]
              [] OTHER -> t

\* base32::decode without padding, else with it; the decoded secret is its text.
Base32(s) == LET bare == SelectSeq(s, LAMBDA c : c # "=")
             IN IF Range(bare) \subseteq {"b", "2", "6"} /\ s = bare \o [i \in 1..(Len(s) - Len(bare)) |-> "="]
                THEN bare ELSE BadUri

ParseOtpauthUri(u) ==
    LET rest == Tail(u)
        place == BeforeFirst(rest, "?")
        host == BeforeFirst(place, "/")
        label == PercentDecode(AfterFirst(place, "/"))
        pairs == SelectSeq(SplitAt(AfterFirst(rest, "?"), "&"), LAMBDA p : p # <<>>)
        t == FoldLeft(Param, Defaults(label), pairs)
    IN IF u = <<>> THEN BadUri
       ELSE IF u[1] # "otpauth://" \/ host # <<"totp">> \/ label = BadUri THEN BadUri
       ELSE IF t = BadUri THEN BadUri
       ELSE IF ~t.seen \/ Base32(t.secret) \in {BadUri, <<>>} THEN BadUri
       ELSE [t EXCEPT !.secret = Base32(t.secret)]

ToOtpauthUri(t) ==
    <<"otpauth://", "totp", "/">> \o PercentEncode(t.label) \o <<"?", "secret", "=">> \o t.secret
    \o (IF t.issuer = NoIssuer THEN <<>> ELSE <<"&", "issuer", "=">> \o PercentEncode(t.issuer))
    \o (IF t.digits = DefaultDigits THEN <<>> ELSE <<"&", "digits", "=">> \o TextOf(t.digits))
    \o (IF t.period = DefaultPeriod THEN <<>> ELSE <<"&", "period", "=">> \o TextOf(t.period))

----------------------------------------------------------------------------
(* Vault::totp while the clock runs.                                       *)

\* A clock before the epoch counts as second 0.
UnixTime == IF now < 0 THEN 0 ELSE now

CounterAt(t, time) == time \div t.period

\* Faulty variant: the seconds already gone.
BugRemainingAt(t, time) == time % t.period

RemainingAt(t, time) == t.period - (time % t.period)

ComputeCurrentTotp ==
    LET t == ParseOtpauthUri(uri)
    IN /\ t # BadUri
       /\ shown' = [counter |-> CounterAt(t, UnixTime), remaining |-> RemainingAt(t, UnixTime), at |-> now]
       /\ UNCHANGED <<uri, now>>

TickTotp == now < MaxNow /\ now' = now + 1 /\ UNCHANGED <<uri, shown>>

TotpNext == ComputeCurrentTotp \/ TickTotp

TotpSpec == TotpInit /\ [][TotpNext]_totpVars

----------------------------------------------------------------------------
(* Properties.                                                             *)

\* Whatever URI was accepted, the one to_otpauth_uri writes for it is accepted
\* too and means the same: label and issuer survive with their reserved
\* characters, and omitted parameters come back as their defaults.
UriRoundTrips ==
    LET t == ParseOtpauthUri(uri)
    IN t # BadUri => ParseOtpauthUri(ToOtpauthUri(t)) = t

\* The code shown stays the right one for exactly the seconds announced with
\* it, and for none more.
CodeLastsAsAnnounced ==
    shown # NoCode /\ now >= 0 =>
        LET t == ParseOtpauthUri(uri)
            age == now - (IF shown.at < 0 THEN 0 ELSE shown.at)
        IN age <= t.period => (CounterAt(t, now) = shown.counter <=> age < shown.remaining)

\* An otpauth URI keeps its meaning, and its code its time (parse_otpauth_uri,
\* to_otpauth_uri, Vault::totp).
OtpIsFaithful == UriRoundTrips /\ CodeLastsAsAnnounced
=============================================================================
