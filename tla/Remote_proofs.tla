--------------------------- MODULE Remote_proofs ----------------------------
(***************************************************************************)
(* Proofs about what falach-sync uses to reach an object: the S3 client, the *)
(* credentials it signs with and the target that a vault's table names.    *)
(***************************************************************************)
EXTENDS S3Client, Credentials, S3Target, FiniteSetTheorems, SequenceTheorems, TLAPS

(***************************************************************************)
(* S3Client.                                                               *)
(*                                                                         *)
(* Every PUT stores other bytes (OwnContents), and a PUT is always sent over *)
(* an older one than it makes (CallOK): so the object that answers a retried *)
(* or verified PUT tells whose bytes it holds.  S3Inv joins this with what a *)
(* client has learned of the backend (ClientOK).                           *)
(***************************************************************************)

Steps == {"idle", "head", "fetch", "put", "probePut", "probeDelete", "degraded", "verify"}

Results ==
    {"none", "ok", "empty", "notModified", "notFound", "authFailed", "conflict", "unreachable", "error"}

Fields == {"step", "want", "mine", "attempt", "result"}

RequestOK(r) ==
    /\ DOMAIN r = Fields
    /\ r.step \in Steps /\ r.want \in Nat /\ r.mine \in Nat
    /\ r.attempt \in {1, 2} /\ r.result \in Results

\* What the running or last call of c and the object's history agree on.
CallOK(c) ==
    LET r == call[c] IN
    /\ RequestOK(r)
    /\ r.mine <= nPuts
    /\ r.step \notin {"idle", "head", "fetch"} => r.mine # 0
    /\ r.step \in {"head", "fetch"} => r.mine = 0
    /\ r.mine # 0 => r.want < r.mine
    /\ r.step \in {"degraded", "verify"} => ~backend.enforce
    /\ r.mine # 0 /\ r.want # 0 /\ backend.enforce =>
           /\ over[r.mine] \subseteq {r.want}
           /\ r.result = "ok" => over[r.mine] = {r.want}
    /\ r.result = "ok" => r.step = "idle"

ClientOK(c) ==
    /\ cached[c] \in 0..nPuts
    /\ support[c] \in {"unknown", "supported", "degraded"}
    /\ support[c] = "supported" => backend.enforce
    /\ support[c] = "degraded" => ~backend.enforce
    /\ c \in probes => call[c].step = "probeDelete" \/ s3Faults > 0

S3Shape ==
    /\ nPuts \in 0..MaxPuts /\ s3Faults \in Nat
    /\ remote \in 0..nPuts
    /\ DOMAIN over = 1..MaxPuts
    /\ backend \in [enforce : BOOLEAN, missing : {404, 412}]
    /\ DOMAIN call = S3User /\ DOMAIN cached = S3User /\ DOMAIN support = S3User
    /\ probes \subseteq S3User
    /\ \A v \in 1..MaxPuts : v > nPuts => over[v] = {}

OwnContents ==
    \A c, d \in S3User : c # d /\ call[c].mine # 0 => call[c].mine # call[d].mine

S3Inv ==
    /\ S3Shape /\ OwnContents
    /\ \A c \in S3User : CallOK(c) /\ ClientOK(c)

\* Before the first request nothing is known and nothing was probed.
LEMMA S3InitInv == S3Init => S3Inv
<1> SUFFICES ASSUME S3Init PROVE S3Inv
  OBVIOUS
<1> USE S3ClientAssumption
<1>1. S3Shape
  BY DEF S3Init, S3Shape
<1>2. \A c \in S3User : call[c] = NoRequest
  BY DEF S3Init
<1>3. OwnContents
  BY <1>2 DEF OwnContents, NoRequest
<1>4. ASSUME NEW c \in S3User PROVE CallOK(c)
  <2>1. RequestOK(NoRequest)
    BY DEF RequestOK, NoRequest, Steps, Results, Fields
  <2>2. /\ NoRequest.step = "idle" /\ NoRequest.mine = 0 /\ NoRequest.result = "none"
    BY DEF NoRequest
  <2>3. call[c] = NoRequest /\ nPuts = 0
    BY <1>2 DEF S3Init
  <2> QED BY <2>1, <2>2, <2>3 DEF CallOK
<1>5. ASSUME NEW c \in S3User PROVE ClientOK(c)
  BY DEF S3Init, ClientOK
<1> QED BY <1>1, <1>3, <1>4, <1>5 DEF S3Inv

\* Starting a call (Head, FetchIfChanged, Put, the probe) sends nothing yet: a new
\* PUT has contents of its own and is sent over an older object.
LEMMA BeginKeeps ==
  ASSUME S3Inv, NEW c \in S3User, NEW request, Begin(c, request), RequestOK(request),
         request.result = "none", request.step # "idle", 
         \/ nPuts' = nPuts /\ request.mine = 0 /\ request.step \in {"head", "fetch"}
         \/ /\ nPuts < MaxPuts /\ nPuts' = nPuts + 1 /\ request.mine = nPuts + 1
            /\ request.want <= nPuts /\ request.step \in {"put", "degraded", "probePut"}
            /\ request.step = "degraded" => ~backend.enforce
  PROVE  S3Inv'
<1> USE S3ClientAssumption
<1>1. \A d \in S3User : call'[d] = IF d = c THEN request ELSE call[d]
  BY DEF Begin, S3Inv, S3Shape
<1>2. nPuts' \in 0..MaxPuts /\ nPuts' >= nPuts /\ nPuts \in 0..MaxPuts
  BY DEF S3Inv, S3Shape
<1>3. /\ UNCHANGED <<remote, over, probes, backend, support, cached, s3Faults>>
      /\ DOMAIN call' = S3User
  BY DEF Begin, S3Inv, S3Shape
<1>4. S3Shape'
  BY <1>2, <1>3 DEF S3Inv, S3Shape
<1>5. OwnContents'
  BY <1>1, <1>2 DEF S3Inv, OwnContents, CallOK, RequestOK
<1>6. ASSUME NEW d \in S3User PROVE CallOK(d)' 
  <2>1. CASE d = c
    <3>1. call'[d] = request /\ backend' = backend /\ over' = over
      BY <1>1, <1>3, <2>1
    <3>2. request.mine # 0 => over[request.mine] = {}
      BY <1>2 DEF S3Inv, S3Shape
    <3>3. request.mine \in Nat /\ request.want \in Nat
      BY DEF RequestOK
    <3> QED BY <3>1, <3>2, <3>3, <1>2 DEF CallOK
  <2>2. CASE d # c
    <3>1. call'[d] = call[d] /\ backend' = backend /\ over' = over
      BY <1>1, <1>3, <2>2
    <3>2. CallOK(d) /\ call[d].mine \in Nat
      BY DEF S3Inv, CallOK, RequestOK
    <3>3. call[d].mine <= nPuts'
      BY <3>2, <1>2 DEF CallOK
    <3> QED BY <3>1, <3>2, <3>3 DEF CallOK
  <2> QED BY <2>1, <2>2
<1>7. ASSUME NEW d \in S3User PROVE ClientOK(d)' 
  <2>1. d \in probes => call'[d].step = "probeDelete" \/ s3Faults > 0
    BY <1>1 DEF Begin, S3Inv, ClientOK
  <2> QED BY <1>2, <1>3, <2>1 DEF S3Inv, ClientOK
<1> QED BY <1>4, <1>5, <1>6, <1>7 DEF S3Inv

\* What the bucket and its history look like after a request of c.
Kept(c) ==
    LET r == call[c] IN
    /\ remote' \in 0..nPuts
    /\ DOMAIN over' = 1..MaxPuts
    /\ \A v \in 1..MaxPuts : v # r.mine => over'[v] = over[v]
    /\ r.mine = 0 => over' = over
    /\ r.want # 0 /\ r.mine # 0 /\ backend.enforce => over'[r.mine] \subseteq {r.want}
    /\ probes' \subseteq S3User
    /\ \A d \in S3User : d # c /\ d \in probes' => d \in probes
    /\ c \in probes' => c \in probes \/ r.step = "probePut"

\* What serving one HTTP request, or losing it, leaves: only a PUT of the call's own
\* contents writes, and with an enforced If-Match it writes over the object asked for.
LEMMA ServedKeeps ==
  ASSUME S3Inv, NEW c \in S3User, Busy(c), Served(c) \/ NotServed
  PROVE  /\ Kept(c)
         /\ Served(c) /\ Status(c) = 200 /\ call[c].step = "put" /\ call[c].want # 0 /\ backend.enforce
               => over'[call[c].mine] = {call[c].want}
         /\ Served(c) /\ call[c].step = "probeDelete" => c \notin probes'
<1> USE S3ClientAssumption
<1>1. /\ call[c].mine \in 0..nPuts /\ nPuts \in 0..MaxPuts /\ remote \in 0..nPuts
      /\ DOMAIN over = 1..MaxPuts /\ call[c].step \in Steps /\ probes \subseteq S3User
      /\ call[c].want \in Nat /\ backend.missing \in {404, 412} /\ backend.enforce \in BOOLEAN
      /\ call[c].mine # 0 => call[c].want < call[c].mine
      /\ call[c].step \in {"put", "degraded"} => call[c].mine # 0
      /\ call[c].step = "degraded" => ~backend.enforce
      /\ call[c].mine # 0 /\ call[c].want # 0 /\ backend.enforce => over[call[c].mine] \subseteq {call[c].want}
  BY DEF Steps, S3Inv, S3Shape, CallOK, RequestOK
<1>2. CASE ~Served(c)
  BY <1>1, <1>2 DEF NotServed, Kept
<1>3. CASE Served(c)
  <2> DEFINE v == call[c].mine
             ok == Status(c) \in {200, 204}
  <2>1. CASE ok /\ call[c].step \in {"put", "degraded"} /\ remote # v
    <3>1. v # 0 /\ v \in 1..MaxPuts
      BY <1>1, <2>1
    <3>2. remote' = v /\ over' = [over EXCEPT ![v] = @ \cup {remote}] /\ probes' = probes
      BY <1>3, <2>1 DEF Served
    <3>3. over'[v] = over[v] \cup {remote} /\ \A w \in 1..MaxPuts : w # v => over'[w] = over[w]
      BY <1>1, <3>1, <3>2
    <3>4. call[c].want # 0 /\ backend.enforce => call[c].step = "put" /\ remote = call[c].want
      BY <1>1, <2>1 DEF Status, IfMatch, Method
    <3> QED BY <1>1, <2>1, <3>1, <3>2, <3>3, <3>4 DEF Kept
  <2>2. CASE ~(ok /\ call[c].step \in {"put", "degraded"} /\ remote # v)
    <3>1. remote' = remote /\ over' = over
      BY <1>3, <2>2 DEF Served
    <3>2. Status(c) = 200 /\ call[c].step = "put" /\ call[c].want # 0 /\ backend.enforce => FALSE
      <4> SUFFICES ASSUME Status(c) = 200, call[c].step = "put", call[c].want # 0, backend.enforce
                   PROVE FALSE
        OBVIOUS
      <4>1. remote = v
        BY <2>2
      <4>2. remote = call[c].want
        BY <1>1 DEF Status, IfMatch, Method
      <4>3. v # 0
        BY <1>1
      <4> QED BY <4>1, <4>2, <4>3, <1>1
    <3>3. probes' \subseteq probes \cup {c} /\ (c \in probes' => c \in probes \/ call[c].step = "probePut")
      BY <1>3 DEF Served
    <3>4. call[c].step = "probeDelete" => c \notin probes'
      BY <1>3 DEF Served, Status, Method
    <3> QED BY <1>1, <3>1, <3>2, <3>3, <3>4 DEF Kept
  <2> QED BY <2>1, <2>2
<1> QED BY <1>2, <1>3

\* Classifying an answer - a status of the backend, none at all, or a 403 or 503 of
\* something in between - keeps the invariant: s3.rs concludes no more than it knows.
LEMMA FinishKeeps ==
  ASSUME S3Inv, NEW c \in S3User, Busy(c), NEW s, Finish(c, s),
         \/ s = Status(c) /\ Served(c) /\ s3Faults' = s3Faults
         \/ s \in {0, 403, 503} /\ (Served(c) \/ NotServed) /\ s3Faults' = s3Faults + 1
  PROVE  S3Inv'
<1> USE S3ClientAssumption
<1> DEFINE r == call[c]
           t == Answered(c, s)
<1>1. /\ DOMAIN r = Fields
      /\ r.step \in Steps \ {"idle"} /\ r.want \in Nat /\ r.mine \in 0..nPuts /\ r.result # "ok"
      /\ nPuts \in 0..MaxPuts /\ remote \in 0..nPuts /\ s3Faults \in Nat
      /\ r.mine # 0 => r.want < r.mine
      /\ r.step \notin {"head", "fetch"} => r.mine # 0
      /\ r.step \in {"head", "fetch"} => r.mine = 0
      /\ r.step \in {"degraded", "verify"} => ~backend.enforce
      /\ support[c] \in {"unknown", "supported", "degraded"}
      /\ support[c] = "supported" => backend.enforce
      /\ support[c] = "degraded" => ~backend.enforce
      /\ backend.missing \in {404, 412} /\ backend.enforce \in BOOLEAN
      /\ DOMAIN call = S3User /\ DOMAIN cached = S3User /\ DOMAIN support = S3User
      /\ c \in probes => r.step = "probeDelete" \/ s3Faults > 0
  BY DEF S3Inv, S3Shape, CallOK, ClientOK, RequestOK, Busy, Steps
<1>2. /\ Kept(c)
      /\ s = 200 /\ r.step = "put" /\ r.want # 0 /\ backend.enforce => over'[r.mine] = {r.want}
      /\ s3Faults' = s3Faults /\ r.step = "probeDelete" => c \notin probes'
      /\ s3Faults' \in Nat /\ s3Faults' >= s3Faults
      /\ s3Faults' # s3Faults => s3Faults' > 0
  BY <1>1, ServedKeeps
<1>3. /\ UNCHANGED <<backend, nPuts>>
      /\ DOMAIN call' = S3User /\ DOMAIN cached' = S3User /\ DOMAIN support' = S3User
      /\ call'[c] = t /\ \A d \in S3User : d # c => call'[d] = call[d]
      /\ cached'[c] = Remembered(c, s) /\ \A d \in S3User : d # c => cached'[d] = cached[d]
      /\ \A d \in S3User : d # c => support'[d] = support[d]
  BY <1>1 DEF Finish
<1>4. t.want = r.want /\ t.mine = r.mine
  BY <1>1 DEF Answered, Return, GoTo, AfterProbe, NoRequest, Steps, Fields
<1>5. RequestOK(t)
  <2>1. \A e \in Results : RequestOK(Return(c, e))
    BY <1>1 DEF Return, NoRequest, RequestOK, Steps, Fields
  <2>2. \A p \in Steps : RequestOK(GoTo(c, p))
    <3>1. RequestOK(call[c])
      BY DEF S3Inv, CallOK
    <3> QED BY <3>1 DEF GoTo, RequestOK, Fields
  <2>3. ErrorOf(r.step, s) \in Results
    BY DEF ErrorOf, Results
  <2>4. {"ok", "empty", "notModified", "conflict"} \subseteq Results
    BY DEF Results
  <2>5. {"probeDelete", "verify", PutStep(support[c])} \subseteq Steps
    BY DEF Steps, PutStep
  <2>6. \/ \E e \in Results : t = Return(c, e)
        \/ \E p \in Steps : t = GoTo(c, p)
    BY <1>1, <2>3, <2>4, <2>5 DEF Answered, AfterProbe, Steps
  <2> QED BY <2>1, <2>2, <2>6
<1>6. /\ t.step \in {"degraded", "verify"} => ~backend.enforce
      /\ t.step \notin {"head", "fetch"}
      /\ t.step \notin {"idle"} => r.mine # 0
      /\ r.step = "probePut" => t.step = "probeDelete"
  BY <1>1 DEF Answered, Return, GoTo, AfterProbe, PutStep, NoRequest, Steps
<1>7. t.result = "ok" =>
         t.step = "idle" /\ (r.mine # 0 => (r.step = "put" /\ s = 200) \/ r.step = "verify")
  BY <1>1 DEF Answered, Return, GoTo, AfterProbe, NoRequest, Steps, ErrorOf
<1>8. /\ support'[c] \in {"unknown", "supported", "degraded"}
      /\ support'[c] = "supported" => backend.enforce
      /\ support'[c] = "degraded" => ~backend.enforce
  <2>1. support'[c] = IF r.step # "probePut" \/ Classify(s) = "unknown" THEN support[c] ELSE Classify(s)
    BY <1>1 DEF Finish
  <2>2. Classify(s) \in {"unknown", "supported", "degraded"}
    BY DEF Classify
  <2>3. r.step = "probePut" /\ s = Status(c) =>
           (~backend.enforce => s = 200) /\ (backend.enforce => s \in {412, backend.missing})
    <3>1. r.step = "probePut" /\ ~backend.enforce => Status(c) = 200
      BY <1>1 DEF Status, Method
    <3>2. r.step = "probePut" /\ backend.enforce /\ c \in probes => Status(c) = 412
      BY <1>1 DEF Status, Method
    <3>3. r.step = "probePut" /\ backend.enforce /\ c \notin probes => Status(c) = backend.missing
      BY <1>1 DEF Status, Method
    <3> QED BY <3>1, <3>2, <3>3
  <2>4. r.step = "probePut" /\ Classify(s) = "supported" => backend.enforce
    BY <1>1, <2>3 DEF Classify
  <2>5. r.step = "probePut" /\ Classify(s) = "degraded" => ~backend.enforce
    BY <1>1, <2>3 DEF Classify
  <2> QED BY <1>1, <2>1, <2>2, <2>4, <2>5
<1>9. Remembered(c, s) \in 0..nPuts
  BY <1>1 DEF Remembered, S3Inv, ClientOK
<1> HIDE DEF t
<1>10. S3Shape'
  BY <1>1, <1>2, <1>3 DEF S3Inv, S3Shape, Kept
<1>11. OwnContents'
  BY <1>3, <1>4 DEF S3Inv, OwnContents
<1>12. ASSUME NEW d \in S3User PROVE CallOK(d)'
  <2>1. CASE d = c
    <3>1. r.mine # 0 /\ r.want # 0 /\ backend.enforce => over'[r.mine] \subseteq {r.want}
      BY <1>2 DEF Kept
    <3>2. r.mine # 0 /\ r.want # 0 /\ backend.enforce /\ t.result = "ok" => over'[r.mine] = {r.want}
      BY <1>1, <1>2, <1>7
    <3> QED BY <1>1, <1>3, <1>4, <1>5, <1>6, <1>7, <2>1, <3>1, <3>2 DEF CallOK
  <2>2. CASE d # c
    <3>1. CallOK(d)
      BY DEF S3Inv
    <3>2. call[d].mine # 0 => call[d].mine # r.mine /\ call[d].mine \in 1..MaxPuts
      BY <1>1, <2>2, <3>1 DEF S3Inv, OwnContents, CallOK, RequestOK
    <3>3. call[d].mine # 0 => over'[call[d].mine] = over[call[d].mine]
      BY <3>2, <1>2 DEF Kept
    <3> QED BY <1>3, <2>2, <3>1, <3>3 DEF CallOK
  <2> QED BY <2>1, <2>2
<1>13. ASSUME NEW d \in S3User PROVE ClientOK(d)'
  <2>1. CASE d = c
    <3>1. c \in probes' => t.step = "probeDelete" \/ s3Faults' > 0
      BY <1>1, <1>2, <1>6 DEF Kept
    <3> QED BY <1>3, <1>8, <1>9, <2>1, <3>1 DEF ClientOK
  <2>2. CASE d # c
    <3>1. d \in probes' => d \in probes
      BY <1>2, <2>2 DEF Kept
    <3>2. call[d].step = "probeDelete" \/ s3Faults > 0 => call'[d].step = "probeDelete" \/ s3Faults' > 0
      BY <1>1, <1>2, <1>3, <2>2
    <3> QED BY <1>3, <2>2, <3>1, <3>2 DEF S3Inv, ClientOK
  <2> QED BY <2>1, <2>2
<1> QED BY <1>10, <1>11, <1>12, <1>13 DEF S3Inv

\* Every step of a client and of the network keeps the invariant.
LEMMA S3StepInv == S3Inv /\ [S3Next]_s3Vars => S3Inv'
<1> SUFFICES ASSUME S3Inv, [S3Next]_s3Vars PROVE S3Inv'
  OBVIOUS
<1> USE S3ClientAssumption
<1>1. CASE UNCHANGED s3Vars
  BY <1>1 DEF s3Vars, S3Inv, S3Shape, OwnContents, CallOK, ClientOK
<1>2. ASSUME NEW c \in S3User, NEW want \in {0, cached[c]}, HeadCall(c) \/ FetchIfChanged(c, want)
      PROVE  S3Inv'
  <2>1. want \in Nat
    BY DEF S3Inv, S3Shape, ClientOK
  <2> DEFINE q == IF HeadCall(c) THEN [NoRequest EXCEPT !.step = "head"]
                  ELSE [NoRequest EXCEPT !.step = "fetch", !.want = want]
  <2>2. Begin(c, q) /\ nPuts' = nPuts
    BY <1>2 DEF HeadCall, FetchIfChanged
  <2>3. RequestOK(q) /\ q.result = "none" /\ q.mine = 0 /\ q.step \in {"head", "fetch"}
    BY <2>1 DEF NoRequest, RequestOK, Steps, Results, Fields
  <2> QED BY <2>2, <2>3, BeginKeeps
<1>3. ASSUME NEW c \in S3User, PutConditional(c, cached[c])
      PROVE  S3Inv'
  <2>1. cached[c] \in 0..nPuts /\ nPuts \in Nat /\ (support[c] = "degraded" => ~backend.enforce)
    BY DEF S3Inv, S3Shape, ClientOK
  <2> DEFINE p == IF cached[c] = 0 THEN "put"
                  ELSE IF support[c] = "unknown" THEN "probePut"
                  ELSE PutStep(support[c])
             q == [NoRequest EXCEPT !.step = p, !.want = cached[c], !.mine = nPuts + 1]
  <2>2. Begin(c, q) /\ nPuts' = nPuts + 1 /\ nPuts < MaxPuts
    BY <1>3 DEF PutConditional
  <2>3. /\ RequestOK(q) /\ q.result = "none" /\ q.mine = nPuts + 1 /\ q.want <= nPuts
        /\ q.step \in {"put", "degraded", "probePut"} /\ (q.step = "degraded" => ~backend.enforce)
    <3>1. p \in {"put", "degraded", "probePut"} /\ (p = "degraded" => ~backend.enforce)
      BY <2>1 DEF PutStep
    <3> HIDE DEF p
    <3>2. /\ DOMAIN q = Fields /\ q.step = p /\ q.want = cached[c] /\ q.mine = nPuts + 1
          /\ q.attempt = 1 /\ q.result = "none"
      BY DEF NoRequest, Fields
    <3> HIDE DEF q
    <3> QED BY <2>1, <3>1, <3>2 DEF RequestOK, Steps, Results
  <2> QED BY <2>2, <2>3, BeginKeeps
<1>4. ASSUME NEW c \in S3User, Unavailable(c), call[c].attempt = 1
      PROVE  S3Inv'
  <2>1. /\ Busy(c) /\ (Served(c) \/ NotServed)
        /\ call' = [call EXCEPT ![c].attempt = 2]
        /\ UNCHANGED <<cached, support, backend, nPuts>>
        /\ s3Faults' = s3Faults + 1
    BY <1>4 DEF Unavailable, S3Fault
  <2>2. Kept(c)
    BY <2>1, ServedKeeps
  <2>3. /\ DOMAIN call' = S3User /\ RequestOK(call[c])
        /\ \A d \in S3User : d # c => call'[d] = call[d]
        /\ call'[c] = [call[c] EXCEPT !.attempt = 2]
        /\ s3Faults' > 0 /\ s3Faults' \in Nat
    BY <2>1 DEF S3Inv, S3Shape, CallOK
  <2>4. /\ RequestOK(call'[c])
        /\ call'[c].step = call[c].step /\ call'[c].want = call[c].want
        /\ call'[c].mine = call[c].mine /\ call'[c].result = call[c].result
    BY <2>3 DEF RequestOK, Fields
  <2>5. S3Shape'
    <3>1. call[c].mine \in 0..nPuts /\ nPuts \in 0..MaxPuts
      BY DEF S3Inv, S3Shape, CallOK, RequestOK
    <3> QED BY <3>1, <2>1, <2>2, <2>3 DEF S3Inv, S3Shape, Kept
  <2>6. OwnContents'
    <3>1. \A d \in S3User : call'[d].mine = call[d].mine
      BY <2>3, <2>4
    <3> QED BY <3>1 DEF S3Inv, OwnContents
  <2>7. ASSUME NEW d \in S3User PROVE CallOK(d)'
    <3>1. CallOK(d) /\ CallOK(c) /\ nPuts \in 0..MaxPuts
      BY DEF S3Inv, S3Shape
    <3>2. CASE d = c
      <4>1. call[c].result # "ok"
        BY <2>1, <3>1 DEF CallOK, Busy
      <4>2. call[c].mine # 0 /\ call[c].want # 0 /\ backend.enforce => over'[call[c].mine] \subseteq {call[c].want}
        BY <2>2 DEF Kept
      <4> QED BY <2>1, <2>4, <3>1, <3>2, <4>1, <4>2 DEF CallOK
    <3>3. CASE d # c
      <4>1. call[d].mine # 0 => call[d].mine # call[c].mine /\ call[d].mine \in 1..MaxPuts
        BY <3>1, <3>3 DEF S3Inv, OwnContents, CallOK, RequestOK
      <4>2. call[d].mine # 0 => over'[call[d].mine] = over[call[d].mine]
        BY <4>1, <2>2 DEF Kept
      <4> QED BY <2>1, <2>3, <3>1, <3>3, <4>2 DEF CallOK
    <3> QED BY <3>2, <3>3
  <2>8. ASSUME NEW d \in S3User PROVE ClientOK(d)'
    BY <2>1, <2>2, <2>3, <2>4 DEF S3Inv, ClientOK, Kept, S3Shape
  <2> QED BY <2>5, <2>6, <2>7, <2>8 DEF S3Inv
<1>5. ASSUME NEW c \in S3User,
             \/ Request(c) \/ NoAnswer(c) \/ BadEtag(c) \/ Refused(c)
             \/ Unavailable(c) /\ call[c].attempt # 1
      PROVE  S3Inv'
  <2>1. CASE Request(c)
    BY <2>1, FinishKeeps DEF Request
  <2>2. CASE NoAnswer(c)
    BY <2>2, FinishKeeps DEF NoAnswer, S3Fault
  <2>3. CASE BadEtag(c)
    BY <2>3, FinishKeeps DEF BadEtag, S3Fault
  <2>4. CASE Refused(c)
    BY <2>4, FinishKeeps DEF Refused, S3Fault
  <2>5. CASE Unavailable(c) /\ call[c].attempt # 1
    BY <2>5, FinishKeeps DEF Unavailable, S3Fault
  <2> QED BY <1>5, <2>1, <2>2, <2>3, <2>4, <2>5
<1> QED BY <1>1, <1>2, <1>3, <1>4, <1>5 DEF S3Next

\* The invariant is as strong as the property it is for.
LEMMA S3InvAnswers == S3Inv => AnswersAreTrue
<1> SUFFICES ASSUME S3Inv PROVE AnswersAreTrue
  OBVIOUS
<1>1. OkPutIsCas
  BY DEF S3Inv, CallOK, OkPutIsCas
<1>2. ClassificationIsTrue
  BY DEF S3Inv, ClientOK, ClassificationIsTrue
<1>3. NoProbeLeft
  BY DEF S3Inv, S3Shape, ClientOK, NoProbeLeft
<1> QED BY <1>1, <1>2, <1>3 DEF AnswersAreTrue

\* What the S3 client tells the sync engine is true: a conditional PUT reported as ok
\* is a compare-and-swap that happened, a backend is classified by what it does with
\* If-Match, and no probe object is left but by a fault.
THEOREM AnswersCanBeTrusted == S3Spec => []AnswersAreTrue
<1>1. S3Spec => []S3Inv
  BY S3InitInv, S3StepInv, PTL DEF S3Spec
<1> QED BY <1>1, S3InvAnswers, PTL

(***************************************************************************)
(* Credentials.                                                            *)
(*                                                                         *)
(* The keys of a profile are found by positions in a file, so that the proof *)
(* is about the least and the greatest of sets of positions: no header lies *)
(* between a profile's header and the lines of its section.                *)
(***************************************************************************)

PickAny(s) == CHOOSE x \in s : TRUE
NoRound(a, b, i, st) == st
NoClaim(a, b) == TRUE
Numbers == INSTANCE FoldFacts WITH Op <- NoRound, Good <- NoClaim, Pick <- PickAny

\* The least and the greatest of finitely many numbers.
LEMMA LeastAndGreatest ==
  ASSUME NEW n \in Nat, NEW s \in SUBSET (1..n), s # {}
  PROVE  /\ Max(s) \in s /\ \A y \in s : Max(s) >= y
         /\ Min(s) \in s /\ \A y \in s : Min(s) <= y
<1> DEFINE S == 1..n
<1>1. IsFiniteSet(S) /\ S \in SUBSET Int
  BY FS_Interval
<1>2. s \in SUBSET S
  OBVIOUS
<1> HIDE DEF S
<1>3. Numbers!IsFiniteSet(S) /\ Numbers!PicksFrom(S)
  BY <1>1 DEF IsFiniteSet, Numbers!IsFiniteSet, Numbers!PicksFrom, PickAny
<1>4. Numbers!Max(s) \in s /\ (\A y \in s : Numbers!Max(s) >= y)
      /\ Numbers!Min(s) \in s /\ \A y \in s : Numbers!Min(s) <= y
  BY <1>1, <1>2, <1>3, Numbers!GreatestAndLeast
<1>5. Numbers!Max(s) = Max(s) /\ Numbers!Min(s) = Min(s)
  BY DEF Max, Numbers!Max, Min, Numbers!Min
<1> QED BY <1>4, <1>5

\* The credentials file, if there is one.
IniIs(n) == n \in Nat /\ ini \in [1..n -> IniLine]

Sourced == source \in CredSource

CredInv ==
  /\ ini = NoValue \/ \E n \in Nat : IniIs(n)
  /\ source = NoValue \/ Sourced
  /\ role \in Role \cup {NoValue}
  /\ step \in {"idle", "imdsToken", "imdsRole", "imdsKeys"}
  /\ step # "idle" => Sourced /\ source.kind = "iam" /\ outcome = "none"
  /\ step = "imdsKeys" => asked # NoValue
  /\ byCli \in BOOLEAN
  /\ byCli => Sourced /\ (source.kind = "sealed" => source.name = VaultPassword)
  /\ OwnCredentials

\* A line of a profile's section is that profile's.
LEMMA SectionIsOwn ==
  ASSUME NEW n, IniIs(n), NEW p \in Profile, NEW i \in FindSection(p)
  PROVE  i \in 1..n /\ Owner(i) = p
<1> DEFINE heads == {j \in DOMAIN ini : IsHeader(j) /\ ini[j].name = p}
           later == {j \in DOMAIN ini : IsHeader(j) /\ j > Min(heads)}
           ends == later \cup {Len(ini) + 1}
           first == Min(heads)
           last == Min(ends)
<1>0. n \in Nat /\ DOMAIN ini = 1..n
  BY DEF IniIs
<1>1. Len(ini) = n
  BY <1>0
<1>2. heads # {} /\ i \in (first + 1)..(last - 1)
  BY DEF FindSection
<1>3. heads \in SUBSET (1..n)
  BY <1>0
<1>4. first \in heads
  BY <1>0, <1>2, <1>3, LeastAndGreatest
<1>5. ends \in SUBSET (1..(n + 1)) /\ n + 1 \in ends
  BY <1>0, <1>1
<1>6. last \in ends /\ \A y \in ends : last <= y
  <2> HIDE DEF ends
  <2>1. n + 1 \in Nat /\ ends # {}
    BY <1>0, <1>5
  <2> QED BY <1>5, <2>1, LeastAndGreatest
<1>7. first \in 1..n /\ last \in 1..(n + 1) /\ last <= n + 1
  BY <1>3, <1>4, <1>5, <1>6
<1> DEFINE above == {j \in 1..(i - 1) : IsHeader(j)}
<1>8. first \in above
  <2>1. IsHeader(first)
    BY <1>4
  <2> HIDE DEF first, last
  <2> QED BY <1>2, <1>7, <2>1
<1>9. \A j \in above : j <= first
  <2> SUFFICES ASSUME NEW j \in above, j > first PROVE FALSE
    BY <1>7
  <2>1. i \in Int /\ i <= last - 1 /\ j <= i - 1 /\ j \in 1..n /\ IsHeader(j)
    <3>1. j \in 1..(i - 1) /\ IsHeader(j)
      OBVIOUS
    <3> HIDE DEF first, last, above
    <3> QED BY <1>0, <1>2, <1>7, <3>1
  <2>2. j \in ends
    BY <1>0, <2>1
  <2>3. last <= j
    BY <1>6, <2>2
  <2> HIDE DEF first, last, ends
  <2> QED BY <1>7, <2>1, <2>3
<1>10. i \in 1..n
  <2> HIDE DEF first, last
  <2> QED BY <1>0, <1>2, <1>7
<1>11. Max(above) = first
  <2>1. above \in SUBSET (1..n)
    BY <1>0, <1>10
  <2>2. Max(above) \in above /\ Max(above) >= first
    <3> HIDE DEF above
    <3> QED BY <1>0, <1>8, <2>1, LeastAndGreatest
  <2>3. Max(above) <= first
    BY <1>9, <2>2
  <2>4. Max(above) \in Int
    BY <2>1, <2>2
  <2> HIDE DEF above, first
  <2> QED BY <1>7, <2>2, <2>3, <2>4
<1>12. ini[first].name = p
  BY <1>4
<1> QED BY <1>8, <1>10, <1>11, <1>12 DEF Owner

\* Resolving a profile takes its keys from its own section.
LEMMA ProfileIsOwn ==
  ASSUME NEW p \in Profile, ini = NoValue \/ \E n \in Nat : IniIs(n), NEW k \in KeyName,
         ResolveProfile(p).result = "ok", ResolveProfile(p).keys[k] # NoValue
  PROVE  Owner(ResolveProfile(p).keys[k]) = p
<1>1. ini # NoValue /\ ResolveProfile(p) = [result |-> "ok", keys |-> [j \in KeyName |-> GetKey(p, j)]]
  BY DEF ResolveProfile
<1>2. PICK n \in Nat : IniIs(n)
  BY <1>1
<1> DEFINE lines == {i \in FindSection(p) : ini[i] = [kind |-> "key", name |-> k]}
<1>3. GetKey(p, k) # NoValue /\ ResolveProfile(p).keys[k] = GetKey(p, k)
  BY <1>1
<1>4. lines # {} /\ GetKey(p, k) = Min(lines)
  BY <1>3 DEF GetKey
<1>5. lines \in SUBSET (1..n)
  BY <1>2, SectionIsOwn
<1>6. Min(lines) \in lines
  <2> HIDE DEF lines
  <2> QED BY <1>4, <1>5, LeastAndGreatest
<1>7. Min(lines) \in FindSection(p)
  BY <1>6
<1> HIDE DEF lines
<1> QED BY <1>2, <1>3, <1>4, <1>7, SectionIsOwn

\* With the vault's own password the sealed credentials open; the rest of the
\* property is a part of the invariant.
LEMMA CredInvGives == CredInv => CredentialsAreTheVaults
<1> SUFFICES ASSUME CredInv PROVE SealedOpens
  BY DEF CredInv, CredentialsAreTheVaults
<1>1. VaultPassword # "damaged"
  BY CredentialsAssumption DEF CredentialsAssumption
<1>2. ResolveRstCred1(VaultPassword, VaultPassword).result = "ok"
  BY <1>1 DEF ResolveRstCred1
<1> QED BY <1>2 DEF CredInv, SealedOpens

\* A source that is not configured and a file that nobody has read break nothing.
LEMMA CredInvInit == CredInit => CredInv
<1> SUFFICES ASSUME CredInit PROVE CredInv
  OBVIOUS
<1>1. ini = NoValue \/ \E n \in Nat : IniIs(n)
  <2>1. CASE ini \in UNION {[1..n -> IniLine] : n \in 0..MaxIniLines}
    <3>1. PICK n \in 0..MaxIniLines : ini \in [1..n -> IniLine]
      BY <2>1
    <3>2. MaxIniLines \in Nat
      BY CredentialsAssumption DEF CredentialsAssumption
    <3> QED BY <3>1, <3>2 DEF IniIs
  <2> QED BY <2>1 DEF CredInit
<1> QED BY <1>1 DEF CredInit, CredInv, OwnCredentials, Sourced

\* Configuring, resolving from each source, the metadata service and its faults keep
\* the invariant: keys are answered only as ResolveProfile and its siblings find them.
LEMMA CredInvStep == CredInv /\ [CredNext]_credVars => CredInv'
<1> SUFFICES ASSUME CredInv, [CredNext]_credVars PROVE CredInv'
  OBVIOUS
<1>0. (ini = NoValue \/ \E n \in Nat : IniIs(n)) /\ (ini' = ini => (ini' = NoValue \/ \E n \in Nat : IniIs(n)'))
  BY DEF CredInv, IniIs
<1>1. ASSUME NEW s \in CredSource, NEW cli \in BOOLEAN, Idle, Configures(s, cli),
             cli => (s.kind = "sealed" => s.name = VaultPassword)
      PROVE  CredInv'
  BY <1>0, <1>1 DEF Configures, CredInv, Sourced, Idle, OwnCredentials
<1>2. ASSUME NEW s \in CredSource, SetSyncSpec(s) PROVE CredInv'
  BY <1>1, <1>2 DEF SetSyncSpec
<1>3. ASSUME NEW typed \in CredPassword, SetSyncPrompt(typed) PROVE CredInv'
  <2>1. [kind |-> "sealed", name |-> typed] \in CredSource
    BY DEF CredSource
  <2> QED BY <1>1, <1>3, <2>1 DEF SetSyncPrompt, VerifiedPassword
<1>4. ASSUME NEW typed \in CredPassword, SealInTui(typed) PROVE CredInv'
  <2>1. [kind |-> "sealed", name |-> typed] \in CredSource
    BY DEF CredSource
  <2> QED BY <1>1, <1>4, <2>1 DEF SealInTui
<1>5. ASSUME EditByHand PROVE CredInv'
  <2>1. [kind |-> "env", name |-> NoName] \in CredSource /\ [kind |-> "sealed", name |-> "damaged"] \in CredSource
    BY DEF CredSource
  <2> QED BY <1>1, <1>5, <2>1 DEF EditByHand
<1>6. ASSUME NEW typed \in CredPassword, Resolve(typed) PROVE CredInv'
  <2>0. /\ source # NoValue /\ Sourced /\ source.kind # "iam" /\ Idle
        /\ UNCHANGED <<ini, vars, source, byCli, role, step, token, asked>>
    BY <1>6 DEF Resolve, CredInv
  <2>1. source.kind \in {"profile", "env", "sealed"}
    BY <2>0 DEF Sourced, CredSource
  <2>2. OwnCredentials'
    <3> SUFFICES ASSUME outcome' = "ok", NEW k \in KeyName, found'[k] # NoValue
                 PROVE  CASE source.kind = "profile" -> Owner(found'[k]) = source.name
                          [] source.kind = "env" -> found'[k] = source.name /\ source.name # NoName
                          [] source.kind = "sealed" -> found'[k] = source.name
                          [] source.kind = "iam" -> found'[k] \in Role
      BY <2>0 DEF OwnCredentials, Owner, IsHeader
    <3>1. CASE source.kind = "profile"
      <4>1. outcome' = ResolveProfile(source.name).result /\ found' = ResolveProfile(source.name).keys
        BY <1>6, <3>1 DEF Resolve
      <4>2. source.name \in Profile
        BY <2>0, <3>1 DEF Sourced, CredSource
      <4>3. Owner(found'[k]) = source.name
        BY <1>0, <4>1, <4>2, ProfileIsOwn
      <4> QED BY <3>1, <4>3
    <3>2. CASE source.kind = "env"
      <4>1. outcome' = ResolveEnvVars(source.name).result /\ found' = ResolveEnvVars(source.name).keys
        BY <1>6, <3>2 DEF Resolve
      <4>2. source.name # NoName
            /\ found' = [j \in KeyName |-> IF <<source.name, j>> \in vars THEN source.name ELSE NoValue]
        BY <4>1 DEF ResolveEnvVars
      <4> QED BY <3>2, <4>2
    <3>3. CASE source.kind = "sealed"
      <4>1. outcome' = ResolveRstCred1(source.name, typed).result /\ found' = ResolveRstCred1(source.name, typed).keys
        BY <1>6, <3>3 DEF Resolve
      <4>2. found' = [NotFound EXCEPT !["id"] = source.name, !["secret"] = source.name]
        BY <4>1 DEF ResolveRstCred1
      <4>3. found'[k] = source.name
        BY <4>2 DEF NotFound, KeyName
      <4> QED BY <3>3, <4>3
    <3> QED BY <2>1, <3>1, <3>2, <3>3
  <2> QED BY <1>0, <2>0, <2>2 DEF CredInv, Sourced, Idle
<1>7. ASSUME ImdsStart PROVE CredInv'
  BY <1>0, <1>7 DEF ImdsStart, CredInv, Sourced, OwnCredentials
<1>8. ASSUME ImdsFails PROVE CredInv'
  BY <1>0, <1>8 DEF ImdsFails, ImdsEnds, CredInv, Sourced, OwnCredentials
<1>9. ASSUME FetchImdsToken PROVE CredInv'
  BY <1>0, <1>9 DEF FetchImdsToken, CredInv, Sourced, OwnCredentials
<1>10. ASSUME FetchRoleName PROVE CredInv'
  BY <1>0, <1>10 DEF FetchRoleName, ImdsEnds, CredInv, Sourced, OwnCredentials
<1>11. ASSUME FetchRoleCredentials PROVE CredInv'
  <2>1. UNCHANGED <<ini, source, byCli, role>> /\ step' = "idle"
    BY <1>11 DEF FetchRoleCredentials, ImdsEnds
  <2>2. Sourced /\ source.kind = "iam" /\ asked # NoValue
    BY <1>11 DEF FetchRoleCredentials, CredInv
  <2>3. OwnCredentials'
    <3>1. CASE outcome' = "noRole"
      BY <3>1 DEF OwnCredentials
    <3>2. CASE outcome' # "noRole"
      <4>1. role = asked /\ found' = [k \in KeyName |-> role]
        BY <1>11, <3>2 DEF FetchRoleCredentials, ImdsEnds, RoleIsThere
      <4>2. role \in Role
        BY <2>2, <4>1 DEF CredInv
      <4> QED BY <2>1, <2>2, <4>1, <4>2 DEF OwnCredentials
    <3> QED BY <3>1, <3>2
  <2> QED BY <1>0, <2>1, <2>2, <2>3 DEF CredInv, Sourced
<1>12. ASSUME RoleChanges PROVE CredInv'
  BY <1>0, <1>12 DEF RoleChanges, CredInv, Sourced, OwnCredentials
<1>13. ASSUME UNCHANGED credVars PROVE CredInv'
  BY <1>0, <1>13 DEF credVars, CredInv, Sourced, OwnCredentials, Owner, IsHeader
<1> QED BY <1>2, <1>3, <1>4, <1>5, <1>6, <1>7, <1>8, <1>9, <1>10, <1>11, <1>12, <1>13 DEF CredNext

\* The keys that the S3 client signs with are those of the source the vault names:
\* a profile's keys come from its own section of the ini file, sealed ones from the
\* file the vault's password opens, and the metadata service's of a role it has.
THEOREM CredentialsAreOwn == CredSpec => []CredentialsAreTheVaults
<1>1. CredSpec => []CredInv
  BY CredInvInit, CredInvStep, PTL DEF CredSpec
<1> QED BY <1>1, CredInvGives, PTL

(***************************************************************************)
(* S3Target.                                                               *)
(*                                                                         *)
(* A sync that ends writes back the whole registry it loaded when it began, *)
(* so the claim about the registry is needed of what every running sync    *)
(* holds (TargetInv).  Two targets that configure_remote tells apart reach *)
(* two objects because a request's host and path give back the target they *)
(* were made from (ServerObjectIs).                                        *)
(***************************************************************************)

\* A table of [sync.s3].
IsTarget(c) ==
    /\ DOMAIN c = {"ep", "bucket", "key", "region", "pathStyle", "support"}
    /\ c.key \in Seq(STRING) /\ c.key # <<>> /\ c.bucket \in STRING
    /\ c.support \in {"unknown", "supported", "degraded"}
    /\ c.support # "unknown" => c.support = Probed(c)

\* A registry as configure_remote leaves it: no two tables have one canonical
\* target, and what is cached is what a probe would find.
IsRegistry(r) ==
    /\ r = [v \in SyncedVault |-> r[v]]
    /\ \A v \in SyncedVault : r[v] # NoConfig => IsTarget(r[v])
    /\ \A v, w \in SyncedVault :
           v # w /\ r[v] # NoConfig /\ r[w] # NoConfig
               => CanonicalizeTarget(r[v]) # CanonicalizeTarget(r[w])

\* The registry, and what every running sync has loaded of it.
TargetInv ==
    /\ IsRegistry(config)
    /\ DOMAIN syncing = SyncedVault
    /\ \A v \in SyncedVault : syncing[v] # NoConfig => IsRegistry(syncing[v]) /\ syncing[v][v] # NoConfig

\* What is in front of a list comes off again, one element at a time.
LEMMA TailOf ==
    ASSUME NEW S, NEW a \in S, NEW k \in Seq(S)
    PROVE  <<a>> \o k \in Seq(S) /\ Tail(<<a>> \o k) = k
<1> DEFINE s == <<a>> \o k
<1>1. s \in Seq(S) /\ Len(s) = 1 + Len(k) /\ \A i \in 1..Len(k) : s[i + 1] = k[i]
    OBVIOUS
<1>2. s # <<>> /\ Tail(s) \in Seq(S) /\ Len(Tail(s)) = Len(k)
    BY <1>1
<1>3. \A i \in 1..Len(k) : Tail(s)[i] = s[i + 1]
    BY <1>1, <1>2
<1> HIDE DEF s
<1>4. Tail(s) = k
    BY <1>1, <1>2, <1>3, SeqEqual
<1> QED
    BY <1>1, <1>4 DEF s

\* Three elements in front of a list come off, and leave the list.
Peels(a, b, c, k) == Tail(Tail(Tail(<<a, b, c>> \o k))) = k /\ (<<a, b, c>> \o k)[2] = b

\* ObjectUrl puts three elements in front of a key, ServerObject takes them off.
LEMMA ThreeInFront ==
    ASSUME NEW S, NEW a \in S, NEW b \in S, NEW c \in S, NEW k \in Seq(S)
    PROVE  Peels(a, b, c, k)
<1>1. <<c>> \o k \in Seq(S) /\ Tail(<<c>> \o k) = k
    BY TailOf
<1>2. <<b>> \o (<<c>> \o k) \in Seq(S) /\ Tail(<<b>> \o (<<c>> \o k)) = <<c>> \o k
    BY <1>1, TailOf
<1>3. Tail(<<a>> \o (<<b>> \o (<<c>> \o k))) = <<b>> \o (<<c>> \o k)
    BY <1>2, TailOf
<1>4. <<a, b, c>> \o k = <<a>> \o (<<b>> \o (<<c>> \o k))
  <2> DEFINE s == <<a, b, c>> \o k
             t == <<a>> \o (<<b>> \o (<<c>> \o k))
  <2>1. s \in Seq(S) /\ Len(s) = 3 + Len(k) /\ s[1] = a /\ s[2] = b /\ s[3] = c
        /\ \A i \in 4..(3 + Len(k)) : s[i] = k[i - 3]
      OBVIOUS
  <2>2. /\ <<c>> \o k \in Seq(S) /\ Len(<<c>> \o k) = 1 + Len(k)
        /\ (<<c>> \o k)[1] = c /\ \A i \in 2..(1 + Len(k)) : (<<c>> \o k)[i] = k[i - 1]
      OBVIOUS
  <2> DEFINE u == <<c>> \o k
  <2> HIDE DEF u
  <2>3. /\ <<b>> \o u \in Seq(S) /\ Len(<<b>> \o u) = 1 + Len(u)
        /\ (<<b>> \o u)[1] = b /\ \A i \in 2..(1 + Len(u)) : (<<b>> \o u)[i] = u[i - 1]
      BY <2>2 DEF u
  <2> DEFINE w == <<b>> \o u
  <2> HIDE DEF w
  <2>4. /\ <<a>> \o w \in Seq(S) /\ Len(<<a>> \o w) = 1 + Len(w)
        /\ (<<a>> \o w)[1] = a /\ \A i \in 2..(1 + Len(w)) : (<<a>> \o w)[i] = w[i - 1]
      BY <2>3 DEF w
  <2>5. t = <<a>> \o w
      BY DEF u, w
  <2> HIDE DEF s, t
  <2>6. Len(k) \in Nat /\ Len(u) = 1 + Len(k) /\ Len(w) = 2 + Len(k) /\ Len(t) = 3 + Len(k) /\ t \in Seq(S)
      BY <2>2, <2>3, <2>4, <2>5 DEF u, w
  <2>7. \A i \in 1..Len(s) : s[i] = t[i]
    <3> TAKE i \in 1..Len(s)
    <3>1. \A j \in 2..Len(u) : u[j] = k[j - 1]
        BY <2>2 DEF u
    <3>2. u[1] = c
        BY <2>2 DEF u
    <3>3. w[1] = b /\ \A j \in 2..Len(w) : w[j] = u[j - 1]
        BY <2>3, <2>6 DEF w
    <3>4. t[1] = a /\ \A j \in 2..Len(t) : t[j] = w[j - 1]
        BY <2>4, <2>5, <2>6
    <3>5. CASE i \in {1, 2, 3}
        BY <2>1, <2>6, <3>2, <3>3, <3>4, <3>5
    <3>6. CASE i \in 4..(3 + Len(k))
      <4>1. t[i] = w[i - 1] /\ w[i - 1] = u[i - 2] /\ u[i - 2] = k[i - 3]
          BY <2>6, <3>1, <3>3, <3>4, <3>6
      <4> QED
          BY <2>1, <3>6, <4>1
    <3> QED
        BY <2>1, <2>6, <3>5, <3>6
  <2>8. s = t
      BY <2>1, <2>6, <2>7, SeqEqual
  <2> QED
      BY <2>8 DEF s, t
<1>5. (<<a, b, c>> \o k)[2] = b
    OBVIOUS
<1> QED
    BY <1>1, <1>2, <1>3, <1>4, <1>5 DEF Peels

\* A key without a leading slash is sent as it is.
LEMMA PlainKey ==
    ASSUME NEW key \in Seq(STRING), key # <<>>, key[1] # "/"
    PROVE  TrimStart(key) = key
<1> DEFINE I == {i \in 1..Len(key) : key[i] # "/"}
<1>1. Len(key) \in Nat /\ Len(key) # 0
    OBVIOUS
<1>2. 1 \in I /\ I \in SUBSET (1..Len(key))
    BY <1>1
<1>3. Min(I) = 1
  <2>1. Min(I) \in I /\ Min(I) <= 1
    <3> HIDE DEF I
    <3> QED
        BY <1>1, <1>2, LeastAndGreatest
  <2>2. Min(I) \in 1..Len(key)
      BY <1>2, <2>1
  <2> HIDE DEF I
  <2> QED
      BY <1>1, <2>1, <2>2
<1>4. SelectInSeq(key, LAMBDA c : c # "/") = 1
    BY <1>2, <1>3 DEF SelectInSeq
<1>5. TrimStart(key) = SubSeq(key, 1, Len(key))
    BY <1>4 DEF TrimStart
<1> QED
    BY <1>5, SubSeqFull

\* A list over a set is one over a larger set.
LEMMA SeqWider ==
    ASSUME NEW A, NEW B, A \subseteq B, NEW s \in Seq(A)
    PROVE  s \in Seq(B)
OBVIOUS

\* What a request reaches is the target as configure_remote compares it.
LEMMA ServerObjectIs ==
    ASSUME NEW t, t.key \in Seq(STRING), t.key # <<>>, t.key[1] # "/", t.bucket \in STRING
    PROVE  ServerObject(t) = [server |-> <<Lower(Host(t)), Port(t)>>, bucket |-> t.bucket, key |-> t.key]
<1> DEFINE url == ObjectUrl(t)
           S == {"/"} \cup STRING
<1>0. t.key \in Seq(S) /\ "/" \in S /\ t.bucket \in S
  <2>1. STRING \subseteq S /\ "/" \in S
      OBVIOUS
  <2> HIDE DEF S
  <2>2. t.key \in Seq(S)
      BY <2>1, SeqWider
  <2> QED
      BY <2>1, <2>2
<1> HIDE DEF S
<1>1. TrimStart(t.key) = t.key
    BY PlainKey
<1>2. CASE PathStyle(t)
  <2>1. url.host = <<Host(t)>> /\ url.port = Port(t) /\ url.path = <<"/", t.bucket, "/">> \o t.key
      BY <1>1, <1>2 DEF ObjectUrl
  <2>2. Tail(Tail(Tail(url.path))) = t.key /\ url.path[2] = t.bucket
    <3>1. /\ Tail(Tail(Tail(<<"/", t.bucket, "/">> \o t.key))) = t.key
          /\ (<<"/", t.bucket, "/">> \o t.key)[2] = t.bucket
      <4>1. Peels("/", t.bucket, "/", t.key)
          BY <1>0, ThreeInFront
      <4> QED
          BY <4>1 DEF Peels
    <3> HIDE DEF url
    <3> QED
        BY <2>1, <3>1
  <2> HIDE DEF url
  <2>3. Len(url.host) = 1 /\ url.host[1] = Host(t)
      BY <2>1
  <2> QED
      BY <2>1, <2>2, <2>3 DEF ServerObject, url
<1>3. CASE ~PathStyle(t)
  <2>1. url.host = <<t.bucket, Host(t)>> /\ url.port = Port(t) /\ url.path = <<"/">> \o t.key
      BY <1>1, <1>3 DEF ObjectUrl
  <2>2. Tail(url.path) = t.key
    <3> HIDE DEF url
    <3> QED
        BY <1>0, <2>1, TailOf
  <2> HIDE DEF url
  <2>3. Len(url.host) # 1 /\ url.host[1] = t.bucket /\ url.host[Len(url.host)] = Host(t)
      BY <2>1
  <2> QED
      BY <2>1, <2>2, <2>3 DEF ServerObject, url
<1> QED
    BY <1>2, <1>3

\* No two plain targets of a registry are one object.
LEMMA RegistryIsApart ==
    ASSUME IsRegistry(config)
    PROVE  NoSharedObject
<1> SUFFICES ASSUME NEW v \in SyncedVault, NEW w \in SyncedVault, v # w,
                    PlainTarget(config[v]), PlainTarget(config[w]),
                    ServerObject(config[v]) = ServerObject(config[w])
             PROVE  FALSE
    BY DEF NoSharedObject
<1> DEFINE c == config[v]
           d == config[w]
<1>1. /\ c # NoConfig /\ c.ep # NoEp /\ c.key[1] # "/"
      /\ d # NoConfig /\ d.ep # NoEp /\ d.key[1] # "/"
    BY DEF PlainTarget
<1>2. IsTarget(c) /\ IsTarget(d) /\ CanonicalizeTarget(c) # CanonicalizeTarget(d)
    BY <1>1 DEF IsRegistry
<1> HIDE DEF c, d
<1>3. /\ ServerObject(c) = [server |-> <<Lower(Host(c)), Port(c)>>, bucket |-> c.bucket, key |-> c.key]
      /\ ServerObject(d) = [server |-> <<Lower(Host(d)), Port(d)>>, bucket |-> d.bucket, key |-> d.key]
    BY <1>1, <1>2, ServerObjectIs DEF IsTarget
<1>4. ServerObject(c) = ServerObject(d)
    BY DEF c, d
<1>5. c.bucket = d.bucket /\ c.key = d.key /\ <<Lower(Host(c)), Port(c)>> = <<Lower(Host(d)), Port(d)>>
    BY <1>3, <1>4
<1>6. /\ Host(c) = c.ep.host /\ Port(c) = c.ep.port
      /\ Host(d) = d.ep.host /\ Port(d) = d.ep.port
    BY <1>1 DEF Host, Port
<1> QED
    BY <1>1, <1>2, <1>5, <1>6 DEF CanonicalizeTarget, CanonicalizeEndpoint

\* A list without repetitions.
OnceEach(h) == \A i, j \in DOMAIN h : h[i] = h[j] => i = j

\* Two lists of different things, one after the other.
LEMMA OnceEachJoined ==
    ASSUME NEW A, NEW B, A \cap B = {}, NEW s \in Seq(A), NEW t \in Seq(B), OnceEach(s), OnceEach(t)
    PROVE  s \o t \in Seq(A \cup B) /\ OnceEach(s \o t)
<1> DEFINE S == A \cup B
           u == s \o t
<1>1. s \in Seq(S) /\ t \in Seq(S)
    OBVIOUS
<1>2. /\ u \in Seq(S) /\ Len(u) = Len(s) + Len(t)
      /\ \A i \in 1..(Len(s) + Len(t)) : u[i] = IF i <= Len(s) THEN s[i] ELSE t[i - Len(s)]
    BY <1>1, ConcatProperties
<1>3. /\ Len(s) \in Nat /\ DOMAIN s = 1..Len(s) /\ \A i \in 1..Len(s) : s[i] \in A
      /\ Len(t) \in Nat /\ DOMAIN t = 1..Len(t) /\ \A i \in 1..Len(t) : t[i] \in B
      /\ DOMAIN u = 1..(Len(s) + Len(t))
    BY <1>2
<1> HIDE DEF u
<1>4. ASSUME NEW i \in DOMAIN u, NEW j \in DOMAIN u, u[i] = u[j], i <= j PROVE i = j
  <2>1. CASE j <= Len(s)
      BY <1>2, <1>3, <1>4, <2>1 DEF OnceEach
  <2>2. CASE i <= Len(s) /\ j > Len(s)
    <3>1. u[i] \in A
        BY <1>2, <1>3, <2>2
    <3>2. u[j] = t[j - Len(s)] /\ j - Len(s) \in 1..Len(t)
        BY <1>2, <1>3, <2>2
    <3>3. u[j] \in B
        BY <1>3, <3>2
    <3> QED
        BY <1>4, <3>1, <3>3
  <2>3. CASE i > Len(s)
    <3>1. /\ u[i] = t[i - Len(s)] /\ i - Len(s) \in 1..Len(t)
          /\ u[j] = t[j - Len(s)] /\ j - Len(s) \in 1..Len(t)
        BY <1>2, <1>3, <1>4, <2>3
    <3>2. i - Len(s) = j - Len(s)
        BY <1>3, <1>4, <3>1 DEF OnceEach
    <3> QED
        BY <1>3, <3>2
  <2> QED
      BY <1>3, <2>1, <2>2, <2>3
<1>5. OnceEach(u)
  <2> SUFFICES ASSUME NEW i \in DOMAIN u, NEW j \in DOMAIN u, u[i] = u[j] PROVE i = j
      BY DEF OnceEach
  <2>1. i <= j \/ j <= i
      BY <1>3
  <2> QED
      BY <1>4, <2>1
<1> QED
    BY <1>2, <1>5 DEF u

\* A request has each header once.
LEMMA HeadersOnce ==
    ASSUME NEW put \in BOOLEAN, NEW ifMatch \in BOOLEAN, NEW withToken \in BOOLEAN
    PROVE  OnceEach(SentHeaders(put, ifMatch, withToken))
<1> DEFINE h2 == IF put THEN <<"content-length", "content-type">> ELSE <<>>
           h3 == IF ifMatch THEN <<"if-match">> ELSE <<>>
           h4 == <<"x-amz-date", "x-amz-content-sha256">>
           h5 == IF withToken THEN <<"x-amz-security-token">> ELSE <<>>
           S1 == {"host"}
           S2 == S1 \cup {"content-length", "content-type"}
           S3 == S2 \cup {"if-match"}
           S4 == S3 \cup {"x-amz-date", "x-amz-content-sha256"}
<1>0. \A S : <<>> \in Seq(S) /\ OnceEach(<<>>)
    BY DEF OnceEach
<1>1. <<"host">> \in Seq(S1) /\ OnceEach(<<"host">>)
    BY DEF OnceEach
<1>2. h2 \in Seq({"content-length", "content-type"}) /\ OnceEach(h2)
  <2>1. <<"content-length", "content-type">> \in Seq({"content-length", "content-type"}) /\ OnceEach(<<"content-length", "content-type">>)
      BY DEF OnceEach
  <2>2. h2 = <<"content-length", "content-type">> \/ h2 = <<>>
      OBVIOUS
  <2> HIDE DEF h2
  <2> QED
      BY <1>0, <2>1, <2>2
<1>3. h3 \in Seq({"if-match"}) /\ OnceEach(h3)
  <2>1. <<"if-match">> \in Seq({"if-match"}) /\ OnceEach(<<"if-match">>)
      BY DEF OnceEach
  <2>2. h3 = <<"if-match">> \/ h3 = <<>>
      OBVIOUS
  <2> HIDE DEF h3
  <2> QED
      BY <1>0, <2>1, <2>2
<1>4. h4 \in Seq({"x-amz-date", "x-amz-content-sha256"}) /\ OnceEach(h4)
    BY DEF OnceEach
<1>5. h5 \in Seq({"x-amz-security-token"}) /\ OnceEach(h5)
  <2>1. <<"x-amz-security-token">> \in Seq({"x-amz-security-token"}) /\ OnceEach(<<"x-amz-security-token">>)
      BY DEF OnceEach
  <2>2. h5 = <<"x-amz-security-token">> \/ h5 = <<>>
      OBVIOUS
  <2> HIDE DEF h5
  <2> QED
      BY <1>0, <2>1, <2>2
<1>6. /\ S1 \cap {"content-length", "content-type"} = {} /\ S2 \cap {"if-match"} = {}
      /\ S3 \cap {"x-amz-date", "x-amz-content-sha256"} = {} /\ S4 \cap {"x-amz-security-token"} = {}
    OBVIOUS
<1>7. SentHeaders(put, ifMatch, withToken) = (((<<"host">> \o h2) \o h3) \o h4) \o h5
    BY DEF SentHeaders
<1> HIDE DEF h2, h3, h4, h5
<1>8. <<"host">> \o h2 \in Seq(S2) /\ OnceEach(<<"host">> \o h2)
    BY <1>1, <1>2, <1>6, OnceEachJoined
<1>9. (<<"host">> \o h2) \o h3 \in Seq(S3) /\ OnceEach((<<"host">> \o h2) \o h3)
    BY <1>3, <1>6, <1>8, OnceEachJoined
<1>10. ((<<"host">> \o h2) \o h3) \o h4 \in Seq(S4) /\ OnceEach(((<<"host">> \o h2) \o h3) \o h4)
    BY <1>4, <1>6, <1>9, OnceEachJoined
<1>11. OnceEach((((<<"host">> \o h2) \o h3) \o h4) \o h5)
    BY <1>5, <1>6, <1>10, OnceEachJoined
<1> QED
    BY <1>7, <1>11

\* What is sent is what is signed, and each header once.
LEMMA SentIsSigned == SignatureMatches
<1>1. ASSUME NEW put \in BOOLEAN, NEW ifMatch \in BOOLEAN, NEW withToken \in BOOLEAN,
             NEW n \in DOMAIN SignedHeaders(SentHeaders(put, ifMatch, withToken)),
             NEW i \in SignedHeaders(SentHeaders(put, ifMatch, withToken))[n],
             NEW j \in SignedHeaders(SentHeaders(put, ifMatch, withToken))[n]
      PROVE  i = j
  <2> DEFINE h == SentHeaders(put, ifMatch, withToken)
  <2>1. i \in DOMAIN h /\ j \in DOMAIN h /\ h[i] = h[j]
      BY DEF SignedHeaders
  <2> QED
      BY <2>1, HeadersOnce DEF OnceEach
<1> QED
    BY <1>1 DEF SignatureMatches, PathForRequest, ServerPath, ObjectUrl, HostHeader

-----------------------------------------------------------------------------
\* A server does not depend on what is cached of it.
LEMMA SupportIsApart ==
    ASSUME NEW c, NEW d, c.ep = d.ep, c.bucket = d.bucket, c.key = d.key, c.pathStyle = d.pathStyle
    PROVE  Probed(c) = Probed(d) /\ CanonicalizeTarget(c) = CanonicalizeTarget(d)
<1>1. /\ PathStyle(c) = PathStyle(d) /\ Scheme(c) = Scheme(d) /\ Host(c) = Host(d) /\ Port(c) = Port(d)
    BY DEF PathStyle, Scheme, Host, Port
<1>2. ObjectUrl(c) = ObjectUrl(d)
    BY <1>1 DEF ObjectUrl
<1> QED
    BY <1>2 DEF Probed, Server, ServerObject, CanonicalizeTarget

\* configure_remote: the new table names a target of its own and has nothing cached.
LEMMA ConfigureKeeps ==
    ASSUME TargetInv, NEW v \in SyncedVault, NEW t, ConfigureRemote(v, t),
           t.key \in Seq(STRING), t.key # <<>>, t.bucket \in STRING
    PROVE  TargetInv'
<1> DEFINE c == S3Config(v, t)
<1>1. IsTarget(c) /\ c.ep = t.ep /\ c.bucket = t.bucket /\ c.key = t.key
    BY DEF S3Config, IsTarget
<1>2. CanonicalizeTarget(c) = CanonicalizeTarget(t)
    BY <1>1 DEF CanonicalizeTarget
<1>3. /\ config' = [w \in SyncedVault |-> config'[w]] /\ config'[v] = c
      /\ \A w \in SyncedVault : w # v => config'[w] = config[w]
    BY DEF ConfigureRemote, TargetInv, IsRegistry
<1>4. UNCHANGED <<syncing, enforcing>>
    BY DEF ConfigureRemote
<1>5. \A w \in SyncedVault : w # v /\ config[w] # NoConfig => CanonicalizeTarget(config[w]) # CanonicalizeTarget(t)
    BY DEF ConfigureRemote, Duplicate, HasSync
<1> HIDE DEF c
<1>6. \A x : IsTarget(x)' = IsTarget(x)
    BY <1>4 DEF IsTarget, Probed
<1>7. \A r : IsRegistry(r)' = IsRegistry(r)
    BY <1>6 DEF IsRegistry
<1>8. IsRegistry(config')
    BY <1>1, <1>2, <1>3, <1>5 DEF TargetInv, IsRegistry
<1> QED
    BY <1>4, <1>7, <1>8 DEF TargetInv

\* A trimmed key is a part of what was entered.
LEMMA TrimIsText ==
    ASSUME NEW S, NEW key \in Seq(S)
    PROVE  Trim(key) \in Seq(S)
<1> DEFINE keep == {i \in DOMAIN key : key[i] # Space}
           m == CHOOSE i \in keep : \A j \in keep : i <= j
           n == CHOOSE i \in keep : \A j \in keep : j <= i
<1>1. keep \in SUBSET (1..Len(key)) /\ Len(key) \in Nat
    OBVIOUS
<1>2. CASE keep = {}
    BY <1>2 DEF Trim
<1>3. CASE keep # {}
  <2>1. m \in keep /\ n \in keep
    <3> HIDE DEF keep
    <3>1. \E i \in keep : \A j \in keep : i <= j
        BY <1>1, <1>3, LeastAndGreatest
    <3>2. \E i \in keep : \A j \in keep : j <= i
      <4>1. Max(keep) \in keep /\ \A j \in keep : Max(keep) >= j
          BY <1>1, <1>3, LeastAndGreatest
      <4>2. keep \subseteq Int
          BY <1>1
      <4> QED
          BY <4>1, <4>2
    <3> QED
        BY <3>1, <3>2
  <2>2. m \in 1..Len(key) /\ n \in 1..Len(key)
      BY <1>1, <2>1
  <2>3. Trim(key) = SubSeq(key, m, n)
      BY <1>3 DEF Trim
  <2> HIDE DEF m, n
  <2>4. m \in Int /\ n \in Int /\ \A i \in m..n : key[i] \in S
      BY <1>1, <2>2
  <2>5. SubSeq(key, m, n) \in Seq(S)
      BY <2>4, SubSeqProperties
  <2> QED
      BY <2>3, <2>5
<1> QED
    BY <1>2, <1>3

\* No vault has a remote before one is configured.
LEMMA TargetInit0 == TargetInit => TargetInv
BY DEF TargetInit, TargetInv, IsRegistry

\* A sync that ends writes back the registry that it loaded, with what its
\* probe has found of the server its own table names.
LEMMA EndSyncKeeps ==
    ASSUME TargetInv, NEW v \in SyncedVault, EndSync(v)
    PROVE  TargetInv'
<1>1. /\ syncing[v] # NoConfig /\ IsRegistry(syncing[v]) /\ syncing[v][v] # NoConfig
      /\ enforcing' = enforcing /\ syncing' = [syncing EXCEPT ![v] = NoConfig]
      /\ DOMAIN syncing = SyncedVault
    BY DEF EndSync, TargetInv
<1> DEFINE all == syncing[v]
           mine == all[v]
<1>2. PICK s \in {mine.support} \cup (IF mine.support = "unknown" THEN {Probed(mine)} ELSE {}) :
          config' = IF IsCurrent(v) THEN [all EXCEPT ![v].support = s] ELSE config
    BY DEF EndSync
<1>3. IsTarget(mine)
    BY <1>1 DEF IsRegistry
<1> DEFINE new == [mine EXCEPT !.support = s]
<1>4. /\ DOMAIN new = DOMAIN mine /\ new.support = s
      /\ new.ep = mine.ep /\ new.bucket = mine.bucket /\ new.key = mine.key /\ new.pathStyle = mine.pathStyle
    BY <1>3 DEF IsTarget
<1>5. config' = IF IsCurrent(v) THEN [all EXCEPT ![v] = new] ELSE config
    BY <1>2
<1> HIDE DEF new
<1>6. Probed(new) = Probed(mine) /\ CanonicalizeTarget(new) = CanonicalizeTarget(mine)
    BY <1>4, SupportIsApart
<1>7. IsTarget(new)
  <2>1. s = mine.support \/ (mine.support = "unknown" /\ s = Probed(mine))
      BY <1>2
  <2>2. Probed(mine) \in {"supported", "degraded"}
      BY DEF Probed
  <2> QED
      BY <1>3, <1>4, <1>6, <2>1, <2>2 DEF IsTarget
<1> HIDE DEF mine
<1>8. IsRegistry([all EXCEPT ![v] = new])
  <2> DEFINE r == [all EXCEPT ![v] = new]
  <2>1. all = [w \in SyncedVault |-> all[w]]
      BY <1>1 DEF IsRegistry
  <2> HIDE DEF all
  <2>2. r = [w \in SyncedVault |-> r[w]] /\ r[v] = new /\ \A w \in SyncedVault : w # v => r[w] = all[w]
      BY <2>1
  <2> HIDE DEF r
  <2>3. IsRegistry(all) /\ all[v] = mine /\ mine # NoConfig
      BY <1>1 DEF all, mine
  <2> QED
      BY <1>6, <1>7, <2>2, <2>3 DEF IsRegistry
<1>9. IsRegistry(config')
    BY <1>5, <1>8 DEF TargetInv
<1>10. \A r : IsRegistry(r)' = IsRegistry(r)
  <2>1. \A x : IsTarget(x)' = IsTarget(x)
      BY <1>1 DEF IsTarget, Probed
  <2> QED
      BY <2>1 DEF IsRegistry
<1> QED
    BY <1>1, <1>9, <1>10 DEF TargetInv

\* What each command and each step of a sync does to the registry keeps its
\* targets apart and its cached support true.
LEMMA TargetStep == TargetInv /\ [TargetNext]_targetVars => TargetInv'
<1> SUFFICES ASSUME TargetInv, [TargetNext]_targetVars PROVE TargetInv'
    OBVIOUS
<1>1. CASE UNCHANGED targetVars
  <2>1. enforcing' = enforcing /\ config' = config /\ syncing' = syncing
      BY <1>1 DEF targetVars
  <2>2. \A x : IsTarget(x)' = IsTarget(x)
      BY <2>1 DEF IsTarget, Probed
  <2>3. \A r : IsRegistry(r)' = IsRegistry(r)
      BY <2>2 DEF IsRegistry
  <2> QED
      BY <2>1, <2>3 DEF TargetInv
<1>2. ASSUME NEW v \in SyncedVault, NEW t \in TargetInput, SetSync(v, t) PROVE TargetInv'
  <2>1. t.key \in Seq(STRING) /\ t.bucket \in STRING
      BY S3TargetAssumption DEF S3TargetAssumption
  <2>2. t.key # <<>>
    <3>1. DOMAIN <<>> = {}
        OBVIOUS
    <3>2. Blank(<<>>)
        BY <3>1 DEF Blank
    <3> QED
        BY <1>2, <3>2 DEF SetSync
  <2> QED
      BY <1>2, <2>1, <2>2, ConfigureKeeps DEF SetSync
<1>3. ASSUME NEW v \in SyncedVault, NEW t \in TargetInput, PerformConfigureSync(v, t) PROVE TargetInv'
  <2>1. /\ t.key \in Seq(STRING) /\ t.bucket \in STRING
        /\ DOMAIN t = {"ep", "bucket", "key", "region", "pathStyle"}
      BY S3TargetAssumption DEF S3TargetAssumption
  <2> DEFINE u == [t EXCEPT !.key = Trim(@)]
  <2>2. u.key = Trim(t.key) /\ u.bucket = t.bucket /\ u.key # <<>>
      BY <1>3, <2>1 DEF PerformConfigureSync
  <2>3. ConfigureRemote(v, u)
      BY <1>3 DEF PerformConfigureSync
  <2> HIDE DEF u
  <2> QED
      BY <2>1, <2>2, <2>3, TrimIsText, ConfigureKeeps
<1>4. ASSUME NEW v \in SyncedVault, BeginSync(v) PROVE TargetInv'
  <2>1. /\ config' = config /\ enforcing' = enforcing /\ config[v] # NoConfig
        /\ syncing' = [syncing EXCEPT ![v] = config]
      BY <1>4 DEF BeginSync, HasSync
  <2>2. \A x : IsTarget(x)' = IsTarget(x)
      BY <2>1 DEF IsTarget, Probed
  <2>3. \A r : IsRegistry(r)' = IsRegistry(r)
      BY <2>2 DEF IsRegistry
  <2> QED
      BY <2>1, <2>3 DEF TargetInv
<1>5. ASSUME NEW v \in SyncedVault, EndSync(v) PROVE TargetInv'
    BY <1>5, EndSyncKeeps
<1> QED
    BY <1>1, <1>2, <1>3, <1>4, <1>5 DEF TargetNext

\* configure_remote refuses a target that another vault has, a cached support is
\* what a probe of that very target finds, and a request is signed as it is sent:
\* so two vaults whose targets are plainly spelled never share an object, whatever
\* commands and syncs interleave.
THEOREM TargetsStayOwn == TargetSpec => []TargetsAreOwn
<1>1. TargetInv => TargetsAreOwn
  <2> SUFFICES ASSUME TargetInv PROVE TargetsAreOwn
      OBVIOUS
  <2>1. CacheIsOfTarget
      BY DEF TargetInv, IsRegistry, IsTarget, CacheIsOfTarget
  <2> QED
      BY <2>1, RegistryIsApart, SentIsSigned DEF TargetsAreOwn, TargetInv
<1>2. TargetSpec => []TargetInv
    BY TargetInit0, TargetStep, PTL DEF TargetSpec
<1> QED
    BY <1>1, <1>2, PTL
=============================================================================
