-------------------------- MODULE RequestLifecycle --------------------------
(***************************************************************************)
(* The proxy handler of internal/proxy/handler.go: what becomes of one     *)
(* request from ServeHTTP to the audit call, while an administrator turns  *)
(* bypass, the active policy and audit-only mode.                          *)
(*                                                                         *)
(* Each of these switches is read at its own place, some of them twice.    *)
(* The window of a scanned stream is the subject of StreamGate; here such  *)
(* a stream is one step that keeps StreamPromise.  The detectors' verdict  *)
(* on a text is an input (the pipeline turns a detector's error into "no   *)
(* match", so the handler's error branches cannot be reached).             *)
(***************************************************************************)
EXTENDS Integers, Sequences, FiniteSets

CONSTANTS
  Requests,  \* requests, at the same time or one after the other
  Kinds      \* what they may be like, see Kind

Verdicts == {"none", "ALERT", "BLOCK"}
Modes    == {"", "force_block", "force_audit"}
Actions  == {"", "ALLOW", "ALERT", "BLOCK"}

\* export: the path is of an export purpose; headers: the modes of the execution
\* policies whose header the client sent, in the order of the configuration;
\* stream: IsStream; ask and reply: the action of the match in the request's
\* prefix and in the answer.
Kind == [export : BOOLEAN, headers : Seq(Modes \ {""}), stream : BOOLEAN,
         ask : Verdicts, reply : Verdicts]

ASSUME KindsShape == Kinds \subseteq Kind

VARIABLES
  bypass,        \* ph.bypassMode
  activePolicy,  \* types.activePolicy
  auditOnly,     \* config.Detection.AuditOnlyMode
  kind,          \* what each request is like
  pc,            \* where its handler stands
  policy,        \* reqCtx.ExecutionPolicy
  captured,      \* auditOnly as handleStream read it
  results,       \* which scans gave reqCtx.DetectionResults an entry
  action,        \* reqCtx.Action
  ended,         \* requests with an EndTime
  client,        \* what the client has been answered
  audited,       \* requests whose auditFunc has been started
  sawBypass,     \* history: bypass was on at some time since its arrival
  sawPardon      \* history: blocking was not in force at some time since then

switches == <<bypass, activePolicy, auditOnly>>
request  == <<policy, captured, results, action, ended>>
history  == <<sawBypass, sawPardon>>
vars     == <<switches, kind, pc, request, client, audited, history>>

Goto(r, l) == pc' = [pc EXCEPT ![r] = l]
Answer(r, a) == client' = [client EXCEPT ![r] = a]
Record(r, scan) == results' = [results EXCEPT ![r] = @ \cup {scan}]
SetAction(r, a) == action' = [action EXCEPT ![r] = a]
Complete(r) == ended' = ended \cup {r}

\* isExportLikePurpose: the answer is not scanned.
Scanned(r) == ~kind[r].export

-----------------------------------------------------------------------------
(* Policies.                                                               *)

\* The places of the policies in the request's headers that count: force_audit
\* does for export purposes only.
Honoured(r) ==
  {i \in 1..Len(kind[r].headers) : kind[r].headers[i] = "force_block" \/ kind[r].export}

FirstMode(r, places) ==
  IF places = {} THEN "" ELSE kind[r].headers[CHOOSE i \in places : \A j \in places : i <= j]

\* Mutant: the client's header alone gives force_audit.
ExtractPolicyTrusting(r) ==
  CASE activePolicy = "fallback-audit" -> "force_audit"
    [] activePolicy = "force-block"    -> "force_block"
    [] OTHER                           -> FirstMode(r, 1..Len(kind[r].headers))

\* Mutant: the active policy's name is taken for a mode.
ExtractPolicyUnmapped(r) ==
  IF activePolicy # "default" THEN activePolicy ELSE FirstMode(r, Honoured(r))

\* extractExecutionPolicy: the active policy first, then the client's headers.
ExtractPolicy(r) ==
  CASE activePolicy = "fallback-audit" -> "force_audit"
    [] activePolicy = "force-block"    -> "force_block"
    [] OTHER                           -> FirstMode(r, Honoured(r))

\* shouldBlock, and the switch in flushBuffered.
ShouldBlock(r, verdict, onlyAudit) ==
  /\ verdict = "BLOCK"
  /\ CASE policy[r] = "force_block" -> TRUE
       [] policy[r] = "force_audit" -> FALSE
       [] OTHER                     -> ~onlyAudit

-----------------------------------------------------------------------------
(* History, kept by every action: what the switches were meanwhile.        *)

InFlight(r) == pc[r] \notin {"new", "end"}

\* Reasons for which blocking is not in force for r, now: those of the
\* administrator at any time, and those of its policy when it arrives.
PardonNow(r) == bypass \/ (auditOnly /\ policy[r] # "force_block")
PardonOnArrival(r) ==
  \/ activePolicy = "fallback-audit"
  \/ /\ activePolicy = "default" /\ kind[r].export
     /\ kind[r].headers # <<>> /\ kind[r].headers[1] = "force_audit"

Remember ==
  /\ sawBypass' = sawBypass \cup {r \in Requests : InFlight(r)' /\ bypass'}
  /\ sawPardon' = sawPardon \cup
       {r \in Requests : InFlight(r)' /\ (PardonNow(r)' \/ (pc[r] = "new" /\ PardonOnArrival(r)))}

-----------------------------------------------------------------------------
(* ServeHTTP.                                                              *)

Arrive(r) ==
  /\ pc[r] = "new"
  /\ policy' = [policy EXCEPT ![r] = ExtractPolicy(r)]
  /\ Goto(r, "scan")
  /\ UNCHANGED <<switches, kind, captured, results, action, ended, client, audited>>
  /\ Remember

\* The body is too large or cannot be read: 413 or 400, and no audit.
RefuseBody(r) ==
  /\ pc[r] = "scan"
  /\ Answer(r, "refused") /\ Goto(r, "end")
  /\ UNCHANGED <<switches, kind, request, audited>>
  /\ Remember

\* IsBypassMode, and the detectors' answer on the prefix of the body.
ScanRequest(r) ==
  /\ pc[r] = "scan"
  /\ IF bypass \/ kind[r].ask = "none"
       THEN /\ SetAction(r, "ALLOW") /\ Goto(r, "route")
            /\ UNCHANGED results
       ELSE /\ Record(r, "ask") /\ Goto(r, "decide")
            /\ UNCHANGED action
  /\ UNCHANGED <<switches, kind, policy, captured, ended, client, audited>>
  /\ Remember

\* Mutant: a blocked request returns before its audit is started.
BlockRequestUnaudited(r) ==
  /\ pc[r] = "decide" /\ ShouldBlock(r, kind[r].ask, auditOnly)
  /\ SetAction(r, "BLOCK") /\ Answer(r, "denied") /\ Goto(r, "end")
  /\ UNCHANGED <<switches, kind, policy, captured, results, ended, audited>>
  /\ Remember

\* 403, the audit call, and no Complete().
BlockRequest(r) ==
  /\ pc[r] = "decide" /\ ShouldBlock(r, kind[r].ask, auditOnly)
  /\ SetAction(r, "BLOCK") /\ Answer(r, "denied") /\ Goto(r, "audit")
  /\ UNCHANGED <<switches, kind, policy, captured, results, ended, audited>>
  /\ Remember

\* The action recorded is the rule's, BLOCK too, although the request goes on.
PassRequest(r) ==
  /\ pc[r] = "decide" /\ ~ShouldBlock(r, kind[r].ask, auditOnly)
  /\ SetAction(r, kind[r].ask) /\ Goto(r, "route")
  /\ UNCHANGED <<switches, kind, policy, captured, results, ended, client, audited>>
  /\ Remember

\* go ph.auditFunc(...)
Audit(r) ==
  /\ pc[r] = "audit"
  /\ audited' = audited \cup {r} /\ Goto(r, "end")
  /\ UNCHANGED <<switches, kind, request, client>>
  /\ Remember

-----------------------------------------------------------------------------
(* handleNormal and writeBufferedResponse.                                 *)

\* Bypass or no scan wanted: the upstream's answer, or its failure, straight to
\* the client.
PassNormal(r) ==
  /\ pc[r] = "route" /\ ~kind[r].stream
  /\ bypass \/ ~Scanned(r)
  /\ \E a \in {"full", "failed"} : Answer(r, a)
  /\ Complete(r) /\ Goto(r, "audit")
  /\ UNCHANGED <<switches, kind, policy, captured, results, action, audited>>
  /\ Remember

BufferNormal(r) ==
  /\ pc[r] = "route" /\ ~kind[r].stream
  /\ ~bypass /\ Scanned(r)
  /\ Goto(r, "buffer")
  /\ UNCHANGED <<switches, kind, request, client, audited>>
  /\ Remember

\* The upstream's answer, or the error text of ph.errorHandler, is in the buffer.
Buffered(r) ==
  /\ pc[r] = "buffer"
  /\ Goto(r, "check")
  /\ UNCHANGED <<switches, kind, request, client, audited>>
  /\ Remember

\* buffered.Overflow(), after a reverse proxy that returns: 502.
FailNormal(r) ==
  /\ pc[r] = "buffer"
  /\ Answer(r, "failed") /\ Complete(r) /\ Goto(r, "audit")
  /\ UNCHANGED <<switches, kind, policy, captured, results, action, audited>>
  /\ Remember

\* The reverse proxy cannot copy the answer to its end: the upstream or the
\* client breaks off, or the buffer is full.  In a server it then panics with
\* ErrAbortHandler, and nothing after rp.ServeHTTP is run; gin recovers.
AbortNormal(r) ==
  /\ ~kind[r].stream
  /\ \/ pc[r] = "route" /\ (bypass \/ ~Scanned(r))
     \/ pc[r] = "buffer"
  /\ Answer(r, "aborted") /\ Goto(r, "end")
  /\ UNCHANGED <<switches, kind, request, audited>>
  /\ Remember

\* Mutant: a hit that the policy lets pass is not recorded.
CheckReplySilent(r) ==
  /\ pc[r] = "check"
  /\ IF bypass \/ kind[r].reply = "none"
       THEN Goto(r, "release") /\ UNCHANGED results
       ELSE /\ Goto(r, "verdict")
            /\ IF ShouldBlock(r, kind[r].reply, auditOnly) THEN Record(r, "reply") ELSE UNCHANGED results
  /\ UNCHANGED <<switches, kind, policy, captured, action, ended, client, audited>>
  /\ Remember

\* checkAndBlockResponse: a second look at bypass, then the detectors.
CheckReply(r) ==
  /\ pc[r] = "check"
  /\ IF bypass \/ kind[r].reply = "none"
       THEN Goto(r, "release") /\ UNCHANGED results
       ELSE Goto(r, "verdict") /\ Record(r, "reply")
  /\ UNCHANGED <<switches, kind, policy, captured, action, ended, client, audited>>
  /\ Remember

\* Mutant: the 403 leaves reqCtx.Action as the request's scan set it.
BlockReplyActionKept(r) ==
  /\ pc[r] = "verdict" /\ ShouldBlock(r, kind[r].reply, auditOnly)
  /\ Answer(r, "denied") /\ Complete(r) /\ Goto(r, "audit")
  /\ UNCHANGED <<switches, kind, policy, captured, results, action, audited>>
  /\ Remember

BlockReply(r) ==
  /\ pc[r] = "verdict" /\ ShouldBlock(r, kind[r].reply, auditOnly)
  /\ SetAction(r, "BLOCK") /\ Answer(r, "denied") /\ Complete(r) /\ Goto(r, "audit")
  /\ UNCHANGED <<switches, kind, policy, captured, results, audited>>
  /\ Remember

PassReply(r) ==
  /\ pc[r] = "verdict" /\ ~ShouldBlock(r, kind[r].reply, auditOnly)
  /\ Goto(r, "release")
  /\ UNCHANGED <<switches, kind, request, client, audited>>
  /\ Remember

Release(r) ==
  /\ pc[r] = "release"
  /\ Answer(r, "full") /\ Complete(r) /\ Goto(r, "audit")
  /\ UNCHANGED <<switches, kind, policy, captured, results, action, audited>>
  /\ Remember

-----------------------------------------------------------------------------
(* handleStream.                                                           *)

OpenStream(r) ==
  /\ pc[r] = "route" /\ kind[r].stream
  /\ captured' = [captured EXCEPT ![r] = auditOnly]
  /\ Goto(r, "connect")
  /\ UNCHANGED <<switches, kind, policy, results, action, ended, client, audited>>
  /\ Remember

\* No answer from the upstream: 502 or the like, and no Complete().
FailStream(r) ==
  /\ pc[r] = "connect"
  /\ Answer(r, "failed") /\ Goto(r, "audit")
  /\ UNCHANGED <<switches, kind, request, audited>>
  /\ Remember

\* Mutant: the raw copy returns without Complete().
PassStreamOpenEnded(r) ==
  /\ pc[r] = "connect" /\ (bypass \/ ~Scanned(r))
  /\ Answer(r, "full") /\ Goto(r, "audit")
  /\ UNCHANGED <<switches, kind, request, audited>>
  /\ Remember

\* Bypass is read again once the upstream has answered: the raw copy.
PassStream(r) ==
  /\ pc[r] = "connect" /\ (bypass \/ ~Scanned(r))
  /\ Answer(r, "full") /\ Complete(r) /\ Goto(r, "audit")
  /\ UNCHANGED <<switches, kind, policy, captured, results, action, audited>>
  /\ Remember

\* Otherwise the first bytes decide: server-sent events, or a plain body to be
\* buffered and checked.
ScanStream(r) ==
  /\ pc[r] = "connect" /\ ~bypass /\ Scanned(r)
  /\ \/ Goto(r, "events") /\ UNCHANGED <<client, ended>>
     \/ Goto(r, "check") /\ UNCHANGED <<client, ended>>
     \/ Answer(r, "failed") /\ Complete(r) /\ Goto(r, "audit")  \* peekErr
  /\ UNCHANGED <<switches, kind, policy, captured, results, action, audited>>
  /\ Remember

\* A banned text in the stream is recorded; whether it is cut is decided with
\* the value of auditOnly from before the connection.  Other matches are not
\* looked at.
CutStream(r) ==
  /\ pc[r] = "events" /\ ShouldBlock(r, kind[r].reply, captured[r])
  /\ Record(r, "reply") /\ SetAction(r, "BLOCK")
  /\ Answer(r, "cut") /\ Complete(r) /\ Goto(r, "audit")
  /\ UNCHANGED <<switches, kind, policy, captured, audited>>
  /\ Remember

EndStream(r) ==
  /\ pc[r] = "events" /\ ~ShouldBlock(r, kind[r].reply, captured[r])
  /\ IF kind[r].reply = "BLOCK" THEN Record(r, "reply") ELSE UNCHANGED results
  /\ Answer(r, "full") /\ Complete(r) /\ Goto(r, "audit")
  /\ UNCHANGED <<switches, kind, policy, captured, action, audited>>
  /\ Remember

-----------------------------------------------------------------------------
(* The administrator's switches.                                           *)

handlers == <<kind, pc, request, client, audited>>

SetBypassMode ==
  /\ bypass' \in BOOLEAN
  /\ UNCHANGED <<activePolicy, auditOnly, handlers>>
  /\ Remember

SetActivePolicy ==
  /\ activePolicy' \in {"default", "fallback-audit", "force-block"}
  /\ UNCHANGED <<bypass, auditOnly, handlers>>
  /\ Remember

\* Of the new configuration, what blocking depends on; the rest of UpdateConfig
\* replaces the upstream's address and clients.
UpdateConfig ==
  /\ auditOnly' \in BOOLEAN
  /\ UNCHANGED <<bypass, activePolicy, handlers>>
  /\ Remember

-----------------------------------------------------------------------------

Init ==
  /\ bypass \in BOOLEAN /\ auditOnly \in BOOLEAN /\ activePolicy = "default"
  /\ kind \in [Requests -> Kinds]
  /\ pc = [r \in Requests |-> "new"]
  /\ policy = [r \in Requests |-> ""]
  /\ captured = [r \in Requests |-> FALSE]
  /\ results = [r \in Requests |-> {}]
  /\ action = [r \in Requests |-> ""]
  /\ client = [r \in Requests |-> "nothing"]
  /\ ended = {} /\ audited = {}
  /\ sawBypass = {} /\ sawPardon = {}

Handler(r) ==
  \/ RefuseBody(r) \/ ScanRequest(r) \/ BlockRequest(r) \/ PassRequest(r)
  \/ PassNormal(r) \/ BufferNormal(r) \/ FailNormal(r) \/ AbortNormal(r) \/ Buffered(r)
  \/ CheckReply(r) \/ BlockReply(r) \/ PassReply(r) \/ Release(r)
  \/ OpenStream(r) \/ FailStream(r) \/ PassStream(r) \/ ScanStream(r)
  \/ CutStream(r) \/ EndStream(r) \/ Audit(r)

Next ==
  \/ \E r \in Requests : Arrive(r) \/ Handler(r)
  \/ SetBypassMode \/ SetActivePolicy \/ UpdateConfig

Spec == Init /\ [][Next]_vars

\* Fairness: a handler that has answered goes on to its last statement.  One that
\* waits for the upstream may do so for ever, since the clients have no timeout.
FairSpec == Spec /\ \A r \in Requests : WF_vars(Audit(r))

-----------------------------------------------------------------------------
(* Properties.                                                             *)

Pc == {"new", "scan", "decide", "route", "buffer", "check", "verdict", "release",
       "connect", "events", "audit", "end"}

TypeOK ==
  /\ bypass \in BOOLEAN /\ auditOnly \in BOOLEAN
  /\ activePolicy \in {"default", "fallback-audit", "force-block"}
  /\ kind \in [Requests -> Kind] /\ pc \in [Requests -> Pc]
  /\ policy \in [Requests -> Modes] /\ captured \in [Requests -> BOOLEAN]
  /\ results \in [Requests -> SUBSET {"ask", "reply"}]
  /\ action \in [Requests -> Actions]
  /\ ended \subseteq Requests /\ audited \subseteq Requests
  /\ client \in [Requests -> {"nothing", "refused", "denied", "failed", "aborted", "cut", "full"}]
  /\ sawBypass \subseteq Requests /\ sawPardon \subseteq Requests

Forwarded(r) == pc[r] \in {"buffer", "check", "verdict", "release", "connect", "events"}

\* README, "detect the request, hold back the answer until it is clean": a
\* banned request is forwarded, and a banned answer released in full, only if
\* an administrator's switch or the server's own policy took blocking out of
\* force at some time since the request arrived.  However the switches are
\* turned between their reads, no combination of old and new values lets a text
\* pass that was to be blocked all the time, and no client header does.
NothingBannedPasses ==
  \A r \in Requests \ sawPardon :
    /\ Forwarded(r) => kind[r].ask # "BLOCK"
    /\ client[r] = "full" /\ Scanned(r) => kind[r].reply # "BLOCK"

\* The record of a request that was denied or cut says so and names the hit.
DeniedIsRecorded ==
  \A r \in audited :
    client[r] \in {"denied", "cut"} => action[r] = "BLOCK" /\ results[r] # {}

\* The handler has had the upstream's answer, and let it out, cut it or denied it.
ReplySettled(r) ==
  client[r] \in {"full", "cut"} \/ (client[r] = "denied" /\ r \in ended)

\* The hits of an answer that the handler keeps: any hit of one that is not
\* streamed, but of a stream those of the rules that say BLOCK only.
ReplyHitKept(r) ==
  kind[r].reply = "BLOCK" \/ (kind[r].reply = "ALERT" /\ ~kind[r].stream)

\* Deployment guide, section 1, "audit is an independent second record": while
\* bypass stays off, the hit of the request's scan is in the record, and so is
\* the hit of the answer's, whether it was blocked or let pass and however the
\* switches were turned.  The exception is the code's: of an answer to a client
\* that asked for a stream nothing is said of hits that only alert, since
\* flushBuffered looks at no others than BLOCK.
HitsAreRecorded ==
  \A r \in audited \ sawBypass :
    /\ kind[r].ask # "none" => "ask" \in results[r]
    /\ ReplySettled(r) /\ Scanned(r) /\ ReplyHitKept(r) => "reply" \in results[r]

\* AuditLogger discards the record of a stream without an end time.  It never
\* has to for a request of which the client got the upstream's answer, bypass
\* or not.
AnswerIsKept ==
  \A r \in audited : client[r] \in {"full", "cut"} /\ kind[r].stream => r \in ended

\* Whatever the client is answered, short of a refused body or an answer that
\* breaks off in the reverse proxy, is audited.
AnsweredIsAudited ==
  \A r \in Requests :
    client[r] \notin {"nothing", "refused", "aborted"} ~> r \in audited

=============================================================================
