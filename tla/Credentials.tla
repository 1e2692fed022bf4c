----------------------------- MODULE Credentials -----------------------------
(***************************************************************************)
(* S3 credentials of a vault (falach-sync auth/, falach-cli run_set_sync,  *)
(* falach-tui perform_configure_sync): the four sources a [sync.s3]        *)
(* .credentials table may name, and auth::resolve, which a sync calls with *)
(* the master password it was given.                                       *)
(*                                                                         *)
(* DATA.  A secret is known by where it comes from: the value of an INI    *)
(* line by its line number, an environment variable by its prefix, a       *)
(* sealed one by the password it was sealed under.  Ciphers are perfect:   *)
(* the AEAD opens under the key it was sealed with and no other.           *)
(***************************************************************************)
EXTENDS Naturals, Sequences, FiniteSets, FiniteSetsExt

CONSTANTS
    Profile,       \* profile names
    Prefix,        \* environment prefixes that are not empty
    CredPassword,  \* master passwords typed; VaultPassword is the vault's
    VaultPassword,
    Role,          \* IAM roles
    MaxIniLines,   \* bound: lines of ~/.aws/credentials
    MaxResolves,   \* bound: configurations and resolutions
    NoValue        \* nothing

\* The empty string, where a name is expected.
NoName == ""

ASSUME CredentialsAssumption ==
    /\ VaultPassword \in CredPassword /\ MaxIniLines \in Nat /\ MaxResolves \in Nat
    /\ NoName \notin Prefix /\ "damaged" \notin CredPassword

KeyName == {"id", "secret", "token"}

\* A line of the credentials file: a header, a key, or a blank or comment.
IniLine == [kind : {"header"}, name : Profile] \cup [kind : {"key"}, name : KeyName]
           \cup {[kind |-> "other", name |-> NoName]}

\* CredentialSource.
CredSource ==
    [kind : {"profile"}, name : Profile] \cup [kind : {"env"}, name : Prefix \cup {NoName}]
    \cup {[kind |-> "iam", name |-> NoName]}
    \cup [kind : {"sealed"}, name : CredPassword \cup {"damaged"}]

VARIABLES
    ini,       \* lines of the credentials file, NoValue without one
    vars,      \* environment variables: pairs of prefix and key
    source,    \* the vault's CredentialSource, NoValue without sync
    byCli,     \* history: the source was written by set-sync
    role,      \* the role attached to the instance, NoValue without one
    step,      \* running resolution: "idle", "imdsToken", "imdsRole", "imdsKeys"
    token,     \* the IMDS token of the running resolution is valid
    asked,     \* the role that its second request has named
    outcome,   \* of the last resolution: an error, or "ok"
    found,     \* and its credentials: found[k] is where k comes from
    nResolves

credVars == <<ini, vars, source, byCli, role, step, token, asked, outcome, found, nResolves>>

NotFound == [k \in KeyName |-> NoValue]

CredInit ==
    /\ ini \in {NoValue} \cup UNION {[1..n -> IniLine] : n \in 0..MaxIniLines}
    /\ vars \in SUBSET ((Prefix \cup {NoName}) \X KeyName)
    /\ ini = NoValue \/ vars = {}
    /\ source \in {NoValue} \cup {s \in CredSource : s.kind # "sealed"}
    /\ role \in Role \cup {NoValue}
    /\ role = NoValue \/ (source # NoValue /\ source.kind = "iam" /\ ini = NoValue /\ vars = {})
    /\ byCli = FALSE /\ step = "idle" /\ token = FALSE /\ asked = NoValue
    /\ outcome = "none" /\ found = NotFound /\ nResolves = 0

Idle == step = "idle" /\ nResolves < MaxResolves /\ nResolves' = nResolves + 1

----------------------------------------------------------------------------
(* Writing a source.                                                       *)

Configures(s, cli) ==
    /\ source' = s /\ byCli' = cli /\ outcome' = "none" /\ found' = NotFound
    /\ UNCHANGED <<ini, vars, role, step, token, asked>>

\* credential_source_from_spec: no empty profile, and no empty prefix, which
\* would read the ambient variables.
SetSyncSpec(s) == Idle /\ s.kind # "sealed" /\ ~(s.kind = "env" /\ s.name = NoName) /\ Configures(s, TRUE)

\* run_set_sync opens the vault before it seals.
VerifiedPassword(typed) == typed = VaultPassword

\* set-sync prompt: the secret is sealed under the typed password.
SetSyncPrompt(typed) ==
    Idle /\ VerifiedPassword(typed) /\ Configures([kind |-> "sealed", name |-> typed], TRUE)

\* perform_configure_sync seals without trying the password.
SealInTui(typed) == Idle /\ Configures([kind |-> "sealed", name |-> typed], FALSE)

\* vaults.toml edited by hand (external): an empty prefix, a damaged container.
EditByHand == Idle /\ \E s \in {[kind |-> "env", name |-> NoName], [kind |-> "sealed", name |-> "damaged"]} :
                          Configures(s, FALSE)

----------------------------------------------------------------------------
(* Resolving.                                                              *)

IsHeader(i) == ini[i].kind = "header"

\* Faulty variant: a section goes on to the end of the file.
BugFindSection(p) ==
    LET heads == {i \in DOMAIN ini : IsHeader(i) /\ ini[i].name = p}
    IN IF heads = {} THEN {} ELSE {i \in DOMAIN ini : i > Min(heads) /\ ~IsHeader(i)}

\* find_section: from the profile's first header to the next header.
FindSection(p) ==
    LET heads == {i \in DOMAIN ini : IsHeader(i) /\ ini[i].name = p}
        ends == {i \in DOMAIN ini : IsHeader(i) /\ i > Min(heads)} \cup {Len(ini) + 1}
    IN IF heads = {} THEN {} ELSE (Min(heads) + 1)..(Min(ends) - 1)

\* get_optional_key: the first line with the key.
GetKey(p, k) ==
    LET lines == {i \in FindSection(p) : ini[i] = [kind |-> "key", name |-> k]}
    IN IF lines = {} THEN NoValue ELSE Min(lines)

\* resolve_profile; the default path needs HOME, the file must exist.
ResolveProfile(p) ==
    IF ini = NoValue THEN [result |-> "noFile", keys |-> NotFound]
    ELSE IF \A i \in DOMAIN ini : ~(IsHeader(i) /\ ini[i].name = p)
         THEN [result |-> "noProfile", keys |-> NotFound]
    ELSE IF GetKey(p, "id") = NoValue \/ GetKey(p, "secret") = NoValue
         THEN [result |-> "missingKey", keys |-> NotFound]
    ELSE [result |-> "ok", keys |-> [k \in KeyName |-> GetKey(p, k)]]

\* resolve_env_vars.
ResolveEnvVars(p) ==
    IF p = NoName THEN [result |-> "emptyPrefix", keys |-> NotFound]
    ELSE IF ~({<<p, "id">>, <<p, "secret">>} \subseteq vars)
         THEN [result |-> "missingVar", keys |-> NotFound]
    ELSE [result |-> "ok", keys |-> [k \in KeyName |-> IF <<p, k>> \in vars THEN p ELSE NoValue]]

\* decrypt_credential: length and magic first, then the AEAD, which does not
\* tell a wrong password from a changed container.
ResolveRstCred1(container, typed) ==
    IF container = "damaged" THEN [result |-> "malformed", keys |-> NotFound]
    ELSE IF container # typed THEN [result |-> "decryption", keys |-> NotFound]
    ELSE [result |-> "ok", keys |-> [NotFound EXCEPT !["id"] = container, !["secret"] = container]]

\* auth::resolve for the sources read at once.
Resolve(typed) ==
    /\ Idle /\ source # NoValue /\ source.kind # "iam"
    /\ LET r == CASE source.kind = "profile" -> ResolveProfile(source.name)
                  [] source.kind = "env" -> ResolveEnvVars(source.name)
                  [] source.kind = "sealed" -> ResolveRstCred1(source.name, typed)
       IN outcome' = r.result /\ found' = r.keys
    /\ UNCHANGED <<ini, vars, source, byCli, role, step, token, asked>>

\* resolve_iam_instance_role: three requests, of which the first may find no
\* service at all.
ImdsStart ==
    /\ Idle /\ source # NoValue /\ source.kind = "iam"
    /\ step' = "imdsToken" /\ outcome' = "none" /\ found' = NotFound
    /\ UNCHANGED <<ini, vars, source, byCli, role, token, asked>>

ImdsEnds(result) ==
    /\ outcome' = result /\ step' = "idle" /\ token' = FALSE /\ asked' = NoValue
    /\ UNCHANGED <<ini, vars, source, byCli, role, nResolves>>

ImdsFails ==
    /\ step # "idle" /\ \E e \in {"unreachable", "status", "malformed"} : ImdsEnds(e)
    /\ UNCHANGED found

FetchImdsToken ==
    /\ step = "imdsToken" /\ step' = "imdsRole" /\ token' = TRUE
    /\ UNCHANGED <<ini, vars, source, byCli, role, asked, outcome, found, nResolves>>

FetchRoleName ==
    /\ step = "imdsRole" /\ token
    /\ \/ role = NoValue /\ ImdsEnds("noRole") /\ UNCHANGED found
       \/ /\ role # NoValue /\ step' = "imdsKeys" /\ asked' = role
          /\ UNCHANGED <<ini, vars, source, byCli, role, token, outcome, found, nResolves>>

\* The service answers 404 for a role that is not attached any more.
RoleIsThere(r) == r = role

FetchRoleCredentials ==
    /\ step = "imdsKeys"
    /\ \/ ~RoleIsThere(asked) /\ ImdsEnds("noRole") /\ UNCHANGED found
       \/ /\ RoleIsThere(asked) /\ ImdsEnds("ok")
          /\ found' = [k \in KeyName |-> role]

\* The instance's role is replaced or detached (external).
RoleChanges ==
    /\ step # "idle" /\ role' \in (Role \cup {NoValue}) \ {role}
    /\ UNCHANGED <<ini, vars, source, byCli, step, token, asked, outcome, found, nResolves>>

CredNext ==
    \/ \E s \in CredSource : SetSyncSpec(s)
    \/ \E typed \in CredPassword : SetSyncPrompt(typed) \/ SealInTui(typed) \/ Resolve(typed)
    \/ EditByHand \/ ImdsStart \/ ImdsFails \/ FetchImdsToken \/ FetchRoleName
    \/ FetchRoleCredentials \/ RoleChanges

CredSpec == CredInit /\ [][CredNext]_credVars

----------------------------------------------------------------------------
(* Properties.                                                             *)

\* The profile that line i of the file belongs to.
Owner(i) == LET heads == {j \in 1..(i - 1) : IsHeader(j)}
            IN IF heads = {} THEN NoValue ELSE ini[Max(heads)].name

\* Every part of resolved credentials comes from the source that the vault
\* names: no line of another profile, no variable of the ambient environment.
OwnCredentials ==
    outcome = "ok" => \A k \in KeyName : found[k] # NoValue =>
        CASE source.kind = "profile" -> Owner(found[k]) = source.name
          [] source.kind = "env" -> found[k] = source.name /\ source.name # NoName
          [] source.kind = "sealed" -> found[k] = source.name
          [] source.kind = "iam" -> found[k] \in Role

\* A secret sealed by set-sync opens with the vault's password: a mistyped one
\* is refused when it is sealed, not at the next sync.
SealedOpens ==
    byCli /\ source.kind = "sealed" => ResolveRstCred1(source.name, VaultPassword).result = "ok"

\* What a sync signs with is what its vault names, and a secret that was
\* stored can be had again (auth::resolve, run_set_sync).
CredentialsAreTheVaults == OwnCredentials /\ SealedOpens
=============================================================================
