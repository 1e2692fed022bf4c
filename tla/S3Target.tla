------------------------------ MODULE S3Target ------------------------------
(***************************************************************************)
(* Where a vault's sync goes (falach-sync config.rs, s3/endpoint.rs,       *)
(* s3/signer.rs; falach-cli run_set_sync; falach-tui                       *)
(* perform_configure_sync): the S3Config of a vault with its cached        *)
(* If-Match classification, the check that no two vaults share a target,   *)
(* the URL built from it and the path and headers that are signed.         *)
(*                                                                         *)
(* DATA.  An endpoint is the record of the parts that are looked at, NoEp  *)
(* the default AWS one.  A key is a sequence of characters, of which "a"   *)
(* and "b" stand for all unreserved ones and "+" for the other harmless    *)
(* ones.  Signatures are not computed: what is signed is compared.         *)
(***************************************************************************)
EXTENDS Naturals, Sequences, SequencesExt

CONSTANTS
    SyncedVault,   \* the registered vaults
    TargetInput,   \* what users enter: [ep, bucket, key, region, pathStyle]
    NoEp,          \* no endpoint given
    NoConfig,      \* a vault without [sync] table
    MaxTargetOps   \* bound: configurations and syncs

\* A key is entered as a text of characters.
ASSUME S3TargetAssumption ==
    /\ MaxTargetOps \in Nat
    /\ \A t \in TargetInput :
           /\ DOMAIN t = {"ep", "bucket", "key", "region", "pathStyle"}
           /\ t.key \in Seq(STRING) /\ t.bucket \in STRING

NoText == ""
Space == " "

VARIABLES
    config,     \* config[v]: the [sync.s3] table
    syncing,    \* syncing[v]: the registry a running sync of v has loaded
    enforcing,  \* the servers that enforce If-Match
    targetOps

targetVars == <<config, syncing, enforcing, targetOps>>

----------------------------------------------------------------------------
(* s3/endpoint.rs                                                          *)

\* validate_authority: a host with an optional port, or a bracketed IPv6 one.
ValidAuthority(ep) == ep.host # NoText /\ ep.port # "bad" /\ ep.bracket # "unclosed"

\* EndpointBuilder::from_config: the first error, or "ok".  Slashes at the end
\* are stripped before the path is looked at.
FromConfig(t) ==
    IF t.region = NoText THEN "missingRegion"
    ELSE IF t.ep = NoEp THEN "ok"
    ELSE IF t.ep.scheme = NoText THEN "missingScheme"
    ELSE IF t.ep.scheme \notin {"https", "HTTPS", "http"} THEN "unsupportedScheme"
    ELSE IF t.ep.host = NoText THEN "missingHost"
    ELSE IF t.ep.user THEN "userInfo"
    ELSE IF t.ep.path \/ ~ValidAuthority(t.ep) THEN "invalidAuthority"
    ELSE "ok"

\* A name as DNS compares it (external); the code lowercases for comparison
\* only and sends a host as it was entered.
Lower(h) == IF h = "MINIO" THEN "minio" ELSE h

Scheme(t) == IF t.ep # NoEp /\ t.ep.scheme = "http" THEN "http" ELSE "https"
Host(t) == IF t.ep = NoEp THEN "s3.amazonaws.com" ELSE t.ep.host
Port(t) == IF t.ep = NoEp THEN NoText ELSE t.ep.port

\* A dot in the bucket, a bracketed host or the flag: bucket in the path.
PathStyle(t) == t.pathStyle \/ t.bucket = "b.dot" \/ (t.ep # NoEp /\ t.ep.bracket = "closed")

TrimStart(key) == LET n == SelectInSeq(key, LAMBDA c : c # "/")
                  IN IF n = 0 THEN <<>> ELSE SubSeq(key, n, Len(key))

\* object_url: the key verbatim, without its leading slashes.
ObjectUrl(t) ==
    [scheme |-> Scheme(t), port |-> Port(t),
     host |-> IF PathStyle(t) THEN <<Host(t)>> ELSE <<t.bucket, Host(t)>>,
     path |-> IF PathStyle(t) THEN <<"/", t.bucket, "/">> \o TrimStart(t.key)
                              ELSE <<"/">> \o TrimStart(t.key)]

HostHeader(t) == [host |-> IF PathStyle(t) THEN <<Host(t)>> ELSE <<t.bucket, Host(t)>>,
                  port |-> Port(t)]

\* canonicalize_endpoint: lower case, without scheme and trailing slashes.
CanonicalizeEndpoint(ep) == <<Lower(ep.host), ep.port>>

CanonicalizeTarget(t) ==
    [ep |-> IF t.ep = NoEp THEN <<"<aws-default>", NoText>> ELSE CanonicalizeEndpoint(t.ep),
     bucket |-> t.bucket, key |-> t.key]

----------------------------------------------------------------------------
(* s3/signer.rs and path_for_request in s3/client.rs                       *)

PathForRequest(t) ==
    IF PathStyle(t) THEN <<"/", t.bucket, "/">> \o TrimStart(t.key)
                    ELSE <<"/">> \o TrimStart(t.key)

Unreserved(c) == c \notin {" ", "+", "?", "#", "%", "/"}

\* canonical_uri: slashes and percent signs stay, other reserved characters
\* are escaped.
CanonicalUri(path) ==
    [i \in 1..Len(path) |->
        [char |-> path[i], escaped |-> ~(Unreserved(path[i]) \/ path[i] \in {"/", "%"})]]

\* The headers of an attempt: those of signed_request, built anew for each,
\* and the ones sign adds; the signature is over all of them.
SentHeaders(put, ifMatch, token) ==
    <<"host">> \o (IF put THEN <<"content-length", "content-type">> ELSE <<>>)
    \o (IF ifMatch THEN <<"if-match">> ELSE <<>>)
    \o <<"x-amz-date", "x-amz-content-sha256">>
    \o (IF token THEN <<"x-amz-security-token">> ELSE <<>>)

\* canonical_headers_and_signed: a name once, with all its values, each given
\* by its place among the headers.
SignedHeaders(headers) ==
    [name \in Range(headers) |-> {i \in DOMAIN headers : headers[i] = name}]

\* What the server works with (external): no character that ends the path,
\* and no request at all for one that no URL may have.
Sendable(t) == \A i \in DOMAIN t.key : t.key[i] \notin {" ", "?", "#", "%"}
ServerPath(url) == CanonicalUri(url.path)

ServerObject(t) ==
    LET url == ObjectUrl(t)
        p == IF Len(url.host) = 1 THEN Tail(Tail(Tail(url.path))) ELSE Tail(url.path)
        b == IF Len(url.host) = 1 THEN url.path[2] ELSE url.host[1]
    IN [server |-> <<Lower(url.host[Len(url.host)]), url.port>>, bucket |-> b, key |-> p]
Server(t) == ServerObject(t).server

----------------------------------------------------------------------------
(* Configuration.                                                          *)

TargetInit ==
    /\ config = [v \in SyncedVault |-> NoConfig]
    /\ syncing = [v \in SyncedVault |-> NoConfig]
    /\ enforcing \in SUBSET {Server(t) : t \in {u \in TargetInput : FromConfig(u) = "ok"}}
    /\ targetOps = 0

TargetOp == targetOps < MaxTargetOps /\ targetOps' = targetOps + 1

\* Faulty variant: a new configuration keeps what the old one has cached.
BugS3Config(v, t) ==
    [ep |-> t.ep, bucket |-> t.bucket, key |-> t.key, region |-> t.region, pathStyle |-> t.pathStyle,
     support |-> IF config[v] = NoConfig THEN "unknown" ELSE config[v].support]

\* S3Config::new and its setters: a new target has no classification.
S3Config(v, t) ==
    [ep |-> t.ep, bucket |-> t.bucket, key |-> t.key, region |-> t.region, pathStyle |-> t.pathStyle,
     support |-> "unknown"]

\* from_vault_entry: no table, or one that cannot be read, is no sync.
HasSync(v) == config[v] # NoConfig

\* find_duplicate_target, over the other vaults.
Duplicate(v, t) ==
    \E w \in SyncedVault \ {v} :
        HasSync(w) /\ CanonicalizeTarget(config[w]) = CanonicalizeTarget(t)

\* Sync::configure_remote.
ConfigureRemote(v, t) ==
    /\ FromConfig(t) = "ok" /\ ~Duplicate(v, t)
    /\ config' = [config EXCEPT ![v] = S3Config(v, t)]
    /\ UNCHANGED <<syncing, enforcing>>

Blank(key) == \A i \in DOMAIN key : key[i] = Space
Trim(key) == LET keep == {i \in DOMAIN key : key[i] # Space}
             IN IF keep = {} THEN <<>>
                ELSE SubSeq(key, CHOOSE i \in keep : \A j \in keep : i <= j,
                                 CHOOSE i \in keep : \A j \in keep : j <= i)

\* run_set_sync after validate_s3_target: blank values are refused, and values
\* are stored as they were given.
SetSync(v, t) == ~Blank(t.key) /\ t.bucket # NoText /\ TargetOp /\ ConfigureRemote(v, t)

\* perform_configure_sync trims every field.
PerformConfigureSync(v, t) ==
    LET u == [t EXCEPT !.key = Trim(@)] IN
    u.key # <<>> /\ u.bucket # NoText /\ TargetOp /\ ConfigureRemote(v, u)

\* A sync works with the registry it has loaded (build_s3_transport).
BeginSync(v) ==
    /\ syncing[v] = NoConfig /\ HasSync(v) /\ FromConfig(config[v]) = "ok" /\ TargetOp
    /\ syncing' = [syncing EXCEPT ![v] = config]
    /\ UNCHANGED <<config, enforcing>>

\* What the transport knows at its end: its probe if it was run.
Probed(c) == IF Server(c) \in enforcing THEN "supported" ELSE "degraded"

\* VaultRegistry::save refuses a stale snapshot.
IsCurrent(v) == config = syncing[v]

\* The end of a sync, failed or not: update_registry_sync_block and save write
\* the whole loaded registry, with the classification if the probe was run.
EndSync(v) ==
    /\ syncing[v] # NoConfig
    /\ LET mine == syncing[v][v] IN
       \E s \in {mine.support} \cup (IF mine.support = "unknown" THEN {Probed(mine)} ELSE {}) :
           config' = IF IsCurrent(v) THEN [syncing[v] EXCEPT ![v].support = s] ELSE config
    /\ syncing' = [syncing EXCEPT ![v] = NoConfig]
    /\ UNCHANGED <<enforcing, targetOps>>

TargetNext ==
    \E v \in SyncedVault :
        \/ \E t \in TargetInput : SetSync(v, t) \/ PerformConfigureSync(v, t)
        \/ BeginSync(v) \/ EndSync(v)

TargetSpec == TargetInit /\ [][TargetNext]_targetVars

----------------------------------------------------------------------------
(* Properties.                                                             *)

\* A cached classification is that of the server the entry names (ADR-5),
\* also when the vault was pointed elsewhere while a sync was running, and when
\* that sync failed after its probe.
CacheIsOfTarget ==
    \A v \in SyncedVault :
        config[v] # NoConfig /\ config[v].support # "unknown"
            => config[v].support = Probed(config[v])

\* An explicit endpoint whose port is spelled out only when it is not the
\* default one, and a key without a leading slash: the other spellings of a
\* target are taken for different ones (canonicalize_target).
PlainTarget(c) == c # NoConfig /\ c.ep # NoEp /\ c.key[1] # "/" /\ c.ep.port # "443"

\* No two vaults write to one object (ADR-6), as far as their targets are
\* plain: configure_remote compares canonical targets, however they are typed.
NoSharedObject ==
    \A v, w \in SyncedVault :
        v # w /\ PlainTarget(config[v]) /\ PlainTarget(config[w])
            => ServerObject(config[v]) # ServerObject(config[w])

\* The server checks the signature over what was signed: the same path, the
\* same host, and no header twice; for keys without characters that a URL
\* gives a meaning.
SignatureMatches ==
    \A v \in SyncedVault :
        config[v] # NoConfig /\ Sendable(config[v]) =>
            /\ CanonicalUri(PathForRequest(config[v])) = ServerPath(ObjectUrl(config[v]))
            /\ HostHeader(config[v]) = [host |-> ObjectUrl(config[v]).host, port |-> ObjectUrl(config[v]).port]
            /\ \A put, ifMatch, token \in BOOLEAN :
                   LET h == SignedHeaders(SentHeaders(put, ifMatch, token))
                   IN \A n \in DOMAIN h : \A i, j \in h[n] : i = j

\* Each vault's requests reach an object of its own, signed as they are sent
\* and conditional as its backend allows (configure_remote, sync_now).
TargetsAreOwn == CacheIsOfTarget /\ NoSharedObject /\ SignatureMatches
=============================================================================
