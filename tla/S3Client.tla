------------------------------ MODULE S3Client ------------------------------
(***************************************************************************)
(* S3Transport over the S3 client (falach-sync transport/s3.rs,            *)
(* s3/client.rs, s3/http.rs, s3/etag.rs): the requests behind head,        *)
(* fetch_if_changed and put_conditional, with the probe, the one retry of  *)
(* a 503, the mapping of every status and answers that are lost.  Sync has *)
(* the same calls as single steps.                                         *)
(*                                                                         *)
(* DATA.  Every PUT sends new content, and a content's ETag is its number  *)
(* (S3's ETag of a single PUT is the hash of the content); 0 is no object. *)
(***************************************************************************)
EXTENDS Naturals, FiniteSets

CONSTANTS
    S3User,       \* clients of one object
    MaxPuts,      \* bound: put_conditional calls
    MaxReads,     \* bound: head and fetch_if_changed calls
    MaxS3Faults   \* bound: 503s, refusals, lost answers, bad ETags

ASSUME S3ClientAssumption ==
    MaxPuts \in Nat /\ MaxReads \in Nat /\ MaxS3Faults \in Nat

VARIABLES
    remote,    \* ETag of the object
    over,      \* history: over[v]: what the writes of content v replaced
    probes,    \* clients whose probe object exists
    backend,   \* [enforce, missing]: whether If-Match is enforced, and the
               \* status of a PUT with If-Match on a key without object
    support,   \* support[c]: if_match_supported
    cached,    \* cached[c]: cached_remote_version
    call,      \* call[c]: the running call
    nPuts, nReads, s3Faults

s3Vars == <<remote, over, probes, backend, support, cached, call, nPuts, nReads, s3Faults>>

\* step: the request being made; want: its version argument; mine: the content
\* of a PUT; result: of the last call.
NoRequest == [step |-> "idle", want |-> 0, mine |-> 0, attempt |-> 1, result |-> "none"]

S3Init ==
    /\ remote = 0 /\ over = [v \in 1..MaxPuts |-> {}] /\ probes = {}
    /\ backend \in [enforce : BOOLEAN, missing : {404, 412}]
    /\ support = [c \in S3User |-> "unknown"]
    /\ cached = [c \in S3User |-> 0]
    /\ call = [c \in S3User |-> NoRequest]
    /\ nPuts = 0 /\ nReads = 0 /\ s3Faults = 0

----------------------------------------------------------------------------
(* The request of each step.                                               *)

Method(step) ==
    CASE step \in {"head", "verify"} -> "HEAD"
      [] step = "fetch" -> "GET"
      [] step \in {"put", "degraded", "probePut"} -> "PUT"
      [] step = "probeDelete" -> "DELETE"

\* Faulty variant: the retry sends no extra headers.
BugIfMatch(c) == IF call[c].step = "put" /\ call[c].attempt = 1 THEN call[c].want ELSE 0

\* The If-Match header, the same for both attempts; 0: none.  The degraded
\* path sends none.
IfMatch(c) == IF call[c].step = "put" THEN call[c].want ELSE 0

\* What an S3 server answers (external).  The probe's If-Match matches nothing.
Status(c) ==
    LET step == call[c].step IN
    CASE Method(step) = "HEAD" -> IF remote = 0 THEN 404 ELSE 200
      [] Method(step) = "GET" -> IF remote = 0 THEN 404
                                 ELSE IF call[c].want = remote THEN 304 ELSE 200
      [] step = "probePut" -> IF ~backend.enforce THEN 200
                              ELSE IF c \in probes THEN 412 ELSE backend.missing
      [] step \in {"put", "degraded"} ->
            IF ~backend.enforce \/ IfMatch(c) \in {0, remote} THEN 200
            ELSE IF remote = 0 THEN backend.missing ELSE 412
      [] Method(step) = "DELETE" -> IF c \in probes THEN 204 ELSE 404

\* What the request does to the bucket (external).
Served(c) ==
    LET step == call[c].step  v == call[c].mine  ok == Status(c) \in {200, 204} IN
    /\ probes' = IF ~ok THEN probes
                 ELSE IF step = "probePut" THEN probes \cup {c}
                 ELSE IF step = "probeDelete" THEN probes \ {c} ELSE probes
    /\ IF ok /\ step \in {"put", "degraded"} /\ remote # v
       THEN remote' = v /\ over' = [over EXCEPT ![v] = @ \cup {remote}]
       ELSE UNCHANGED <<remote, over>>

NotServed == UNCHANGED <<remote, over, probes>>

----------------------------------------------------------------------------
(* The calls.                                                              *)

Begin(c, request) ==
    /\ call[c].step = "idle"
    /\ call' = [call EXCEPT ![c] = request]
    /\ UNCHANGED <<remote, over, probes, backend, support, cached, s3Faults>>

HeadCall(c) ==
    /\ nReads < MaxReads /\ nReads' = nReads + 1 /\ UNCHANGED nPuts
    /\ Begin(c, [NoRequest EXCEPT !.step = "head"])

FetchIfChanged(c, want) ==
    /\ nReads < MaxReads /\ nReads' = nReads + 1 /\ UNCHANGED nPuts
    /\ Begin(c, [NoRequest EXCEPT !.step = "fetch", !.want = want])

\* The step after the probe, or instead of it.
PutStep(s) == IF s = "degraded" THEN "degraded" ELSE "put"

\* put_conditional: without a version the PUT is sent at once, with one an
\* unknown backend is probed first.
PutConditional(c, want) ==
    /\ nPuts < MaxPuts /\ nPuts' = nPuts + 1 /\ UNCHANGED nReads
    /\ Begin(c, [NoRequest EXCEPT
                   !.step = IF want = 0 THEN "put"
                            ELSE IF support[c] = "unknown" THEN "probePut"
                            ELSE PutStep(support[c]),
                   !.want = want, !.mine = nPuts + 1])

\* The classification of the probe's PUT: a refusal is enforcement, whether
\* the server looks at the condition or at the missing key first.
Classify(s) ==
    CASE s \in {404, 412} -> "supported"
      [] s = 200 -> "degraded"
      [] OTHER -> "unknown"

\* The S3Error of a status, or of no answer that can be read (0).
ErrorOf(step, s) ==
    CASE s = 404 -> "notFound"
      [] s = 403 -> "authFailed"
      [] s = 412 /\ Method(step) = "PUT" -> "conflict"
      [] s = 503 -> "unreachable"
      [] OTHER -> "error"

Return(c, result) == [NoRequest EXCEPT !.want = call[c].want, !.mine = call[c].mine,
                                       !.result = result]
GoTo(c, step) == [call[c] EXCEPT !.step = step, !.attempt = 1]

\* The probe's answer, whatever it is, is followed by the DELETE.
AfterProbe(c, s) == GoTo(c, "probeDelete")

\* The call after the answer s to its request.
Answered(c, s) ==
    LET step == call[c].step IN
    CASE step = "head" -> IF s = 404 THEN Return(c, "empty")
                          ELSE Return(c, IF s = 200 THEN "ok" ELSE ErrorOf(step, s))
      [] step = "fetch" -> Return(c, IF s = 200 THEN "ok" ELSE IF s = 304 THEN "notModified"
                                     ELSE ErrorOf(step, s))
      [] step = "put" -> Return(c, IF s = 200 THEN "ok" ELSE ErrorOf(step, s))
      [] step = "probePut" -> AfterProbe(c, s)
      [] step = "probeDelete" -> GoTo(c, PutStep(support[c]))
      [] step = "degraded" -> IF s = 200 THEN GoTo(c, "verify") ELSE Return(c, ErrorOf(step, s))
      [] step = "verify" -> Return(c, IF s # 200 THEN ErrorOf(step, s)
                                      ELSE IF remote = call[c].mine THEN "ok" ELSE "conflict")

\* The version the transport remembers after the answer.
Remembered(c, s) ==
    LET step == call[c].step IN
    CASE step = "head" /\ s = 404 -> 0
      [] step \in {"head", "fetch"} /\ s = 200 -> remote
      [] step = "put" /\ s = 200 -> call[c].mine
      [] step = "verify" /\ s = 200 /\ remote = call[c].mine -> call[c].mine
      [] OTHER -> cached[c]

\* signed_request has its answer s.
Finish(c, s) ==
    /\ call' = [call EXCEPT ![c] = Answered(c, s)]
    /\ cached' = [cached EXCEPT ![c] = Remembered(c, s)]
    /\ support' = IF call[c].step # "probePut" \/ Classify(s) = "unknown" THEN support
                  ELSE [support EXCEPT ![c] = Classify(s)]
    /\ UNCHANGED <<backend, nPuts, nReads>>

Busy(c) == call[c].step # "idle"

Request(c) == Busy(c) /\ Served(c) /\ Finish(c, Status(c)) /\ UNCHANGED s3Faults

S3Fault == s3Faults < MaxS3Faults /\ s3Faults' = s3Faults + 1

\* A 503, for a request that was carried out or was not: it is sent once more.
Unavailable(c) ==
    /\ Busy(c) /\ S3Fault
    /\ Served(c) \/ NotServed
    /\ IF call[c].attempt = 1
       THEN /\ call' = [call EXCEPT ![c].attempt = 2]
            /\ UNCHANGED <<cached, support, backend, nPuts, nReads>>
       ELSE Finish(c, 503)

\* A timeout or a lost connection: no answer, whether the request was carried
\* out or not.
NoAnswer(c) == Busy(c) /\ S3Fault /\ (Served(c) \/ NotServed) /\ Finish(c, 0)

\* A request that was carried out and whose answer has no strong ETag.
BadEtag(c) ==
    Busy(c) /\ S3Fault /\ Status(c) = 200 /\ Served(c) /\ Finish(c, 0)

\* A refused signature.
Refused(c) == Busy(c) /\ S3Fault /\ NotServed /\ Finish(c, 403)

S3Next ==
    \E c \in S3User :
        \/ HeadCall(c) \/ PutConditional(c, cached[c])
        \/ \E want \in {0, cached[c]} : FetchIfChanged(c, want)
        \/ Request(c) \/ Unavailable(c) \/ NoAnswer(c) \/ BadEtag(c) \/ Refused(c)

S3Spec == S3Init /\ [][S3Next]_s3Vars

----------------------------------------------------------------------------
(* Properties.                                                             *)

\* On a backend that enforces If-Match, a conditional PUT that returns Ok has
\* replaced the version it named and nothing else, also when its first attempt
\* was carried out and answered 503, whatever the probe has found.
OkPutIsCas ==
    \A c \in S3User :
        call[c].result = "ok" /\ call[c].mine # 0 /\ call[c].want # 0 /\ backend.enforce
            => over[call[c].mine] = {call[c].want}

\* What a transport has recorded of its backend is true, however the probe's
\* requests fail: an unconditional PUT is never sent to a backend that
\* enforces, nor If-Match relied on where it is ignored.
ClassificationIsTrue ==
    \A c \in S3User :
        /\ support[c] = "supported" => backend.enforce
        /\ support[c] = "degraded" => ~backend.enforce

\* No probe object is left in the bucket unless a request failed.
NoProbeLeft ==
    \A c \in probes : call[c].step \in {"probeDelete"} \/ s3Faults > 0

\* An answer of the transport can be relied on: Ok means compare-and-swap, a
\* classification is true, and the probe cleans up (put_if_match, probe).
AnswersAreTrue == OkPutIsCas /\ ClassificationIsTrue /\ NoProbeLeft
=============================================================================
