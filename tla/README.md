# Verification of the LLM compliance audit gateway

TLA+ models of the gateway in `src/`, checked by TLC on small instances, with
theorems proved by TLAPS for every value of the constants. `PROJECT.json` lists
the components, the runs, the mutants, the source lines of every definition,
the hazards and the findings.

The gateway is a reverse proxy in Go in front of an OpenAI-compatible service.
It scans requests and responses for banned text, withholds what its policy says
to block, and keeps a hash-chained audit log of what went through.

## 1. Inventory

How a request travels: `ServeHTTP` reads the body, derives purpose and policy,
scans a prefix of it (pipeline -> detectors), answers 403 or forwards it. A
non-streaming answer is buffered, scanned and released as a whole
(`handleNormal`); an SSE answer goes through a sliding window (`handleStream`).
When the handler is done it starts a goroutine, `go auditFunc(...)`, which calls
`AuditLogger.Log`; nobody waits for that goroutine. The admin server and the file
watcher change configuration, rules, exemptions, bypass and active policy under
running requests.

| Component (source) | State | Operations | What makes it hard | What makes it correct |
| --- | --- | --- | --- | --- |
| Audit logger (`internal/audit/logger.go`) | channel of 1000 records, `closing`, `pending`, `stopChan`, `previousHash`, daily files | `Log`, `LogStreamChunk`, worker, disk monitor, `Close`, `UpdateConfig`, `QueryByTraceID` | callers, worker, monitor and `Close` interleave; channel full; I/O errors; restart | a record is written at most once and never silently dropped; `Close` drains; each life of the process writes one hash chain in the order of the file; queries find what is retained |
| Session aggregator (same file) | map of stream sessions | `UpdateSession`, `Aggregate`, `FlushAll`, `cleanupExpired` | expiry racing with the end of the stream; shutdown in mid-stream | each stream is recorded once, with everything it contained |
| Stream gate (`internal/proxy/handler.go`, `handleStream`) | window, flush timer, request context | event loop, `flushBuffered`, final flush, termination frame | text split over events and flushes; a last event without room | text in order and complete; banned text never released |
| Sliding window (`internal/stream/sliding_window.go`) | content, flush offset | `Append`, `Flush`, `FlushAll`, `UnflushedSize` | offset arithmetic at overflow | no slice out of range, nothing skipped or repeated |
| SSE parser (`internal/stream/sse_parser.go`) | buffered reader | `ReadEvent`, `ExtractContentFromSSEData` | end of input in mid-event | every event delivered once |
| Request lifecycle (`internal/proxy/handler.go`, the rest) | bypass flag, config, upstream, per-request context | `ServeHTTP`, `handleNormal`, `writeBufferedResponse`, `checkAndBlockResponse`, `SetBypassMode`, `UpdateConfig` | switches read several times during a request | nothing banned passes but by an administrator's or the server's own policy; what was answered is recorded and audited |
| Detection pipeline (`internal/pipeline/pipeline.go`) | detector list, strategy | `Execute` (serial, parallel), `ExecuteStream` | goroutines, result and error channels, cancellation | first match wins, a detector error is not a match, no goroutine stuck |
| Statistics (`internal/pipeline/stats.go`) | counters, latency ring | `Record*`, `GetStats`, `Reset` | concurrent updates | totals are sums of parts |
| Regex detector (`internal/detector/tier1_regex.go`) | compiled rules, disabled rules, exemptions asked for | `Detect`, `ReloadRules`, `ToggleRule` | the rules are copied, toggles and exemptions are read rule by rule, false positives match by match: all change under a scan | no match hidden that counted throughout, none reported that one reason excused throughout |
| PII, semantic detectors (`tier2_pii.go`, `tier3_semantic.go`) | none | placeholders | - | - |
| Exemption manager (`exemption_manager.go`) | exemptions in memory and in a file | `AddKeyword`, `RemoveKeyword`, `Persist`, `LoadFromFile`, `IsExempt`, `IsFalsePositive` | admin changes, saves and watcher reloads interleave; `Persist` wakes the watcher | memory and file agree in the end; no change lost |
| File watcher, config (`internal/config/`) | inotify watch, time of the last event, timer, global instance | `Watch`, `ReloadConfig` and main's callback | dropped events, a truncation seen as a save, replaced files, a component that rejects the new configuration | a change is loaded, by every component that accepts it |
| Admin server (`internal/server/`) | router | HTTP handlers calling the above | concurrent administrators | each call is one change |
| Gateway main (`cmd/gateway/main.go`) | wiring | start, reload callbacks, signal, `Stop`, deferred `Close` | requests that outlive the five seconds, audit goroutines nobody waits for | what `Log` took is on disk at the end; the process does end |
| Formatting, masking (`formatter.go`, `sanitize.go`) | none | `ComputeHash`, masks, severities | - | pure functions |

## 2. Plan

In this order; the first six are done.

1. `AuditLogger` - the compliance promise, the most concurrent component -
   implementing `AuditPromise`.
2. `StreamGate` implementing `StreamPromise`, with the window as intervals of
   positions and, in `SlidingWindow`, as the runes themselves.
3. `RequestLifecycle` - `ServeHTTP` and the answers' paths, with the switches read
   at their own points, the end time and the audit call.
4. `DetectionPipeline` - serial and parallel execution.
5. `FileWatch`, and over it `ConfigReload` and `ExemptionStore`: the watcher with its
   dropped events and its 200 ms before it watches a replaced file again; the fan-out
   of a reload; administrators, saves and reloads of exemptions. `RegexDetector`.
6. `Gateway` - requests, audit goroutines and shutdown around `AuditLogger`, which it
   implements.
7. The contents of sessions, if anything comes to call `LogStreamChunk`; the
   statistics, if anything comes to depend on them.
8. The lines of `SSEParser`, masking and validators as functions against reference
   definitions; `Gateway` with the handler of `RequestLifecycle` instead of its three
   states.

Proofs worth having next: the safety half of the liveness properties of the watcher
(`Follows`, `Converges`), and what a request's handler promises as an abstract
specification of its own.

## 3. Modules

### AuditLogger and AuditPromise

Threads: one per call of `Log` (the audit goroutine of one request), the worker,
the monitor, and the goroutine that runs `Close`. A step is a critical section, a
channel operation or a wait.

| Model | Code |
| --- | --- |
| `pc[r]`: idle, gated, enter, select, leave, done | `Log`: the enabled/disk gate, the section of `stateMu`, the `select`, the return with `pending.Done()` |
| `pending` | the `WaitGroup` of calls that announced themselves |
| `buffer`, `BufferSize` | `al.buffer` |
| `hand[t]`, `kept[t]` | the record thread `t` runs `writeLog` on, and whether `shouldWriteLog` has said yes |
| `workerLoop` | the two nested selects of `startWorker` |
| `closerPc` | the steps of `Close`: closing flag, `FlushAll`, stop, `wg.Wait`, `pending.Wait`, last drain |
| `previousHash`, `log` | the chain and the daily files; `AppendEntry` has the open failure, the write failure with or without a torn entry |
| `sessions`, `flushing` | the aggregator's map; what `FlushAll` returned |
| `MonitorTick`, `purgedDays` | `checkDiskUsage` and `cleanupOldLogs` |
| `Restart` | the process dies at any point, or ends, and is started again |

Abstractions. The hash is injective, so a hash is the sequence of the records
that went into it. A sampling draw is a free choice for records that may be
sampled away. The two reads of the configuration in `writeLog` are one step, and
so are the two reads of `Log`'s gate. A crash does not tear an entry (a failed
write may). Ticker intervals and the disk's real usage are free choices. Session
contents are left out: a session exists or not, and `main` never calls
`LogStreamChunk`, so in the gateway none does (`al_custody` has one all the same).

`AuditPromise` is what all of this promises about a record, without channel,
threads or files. `Custody` maps the logger to it:

| Custody of a record | In the logger |
| --- | --- |
| new, refused | `Log` has not been called, or its gate said no |
| taken | the call runs, and has the record, or the channel or a hand has |
| owed | the call has returned, and the channel or a hand has the record |
| stored | a file has it |
| gone | none of these |

A record leaves custody by a store, by an I/O error, which takes one record at
most, by a rule that allows it (sampling, the Kafka stub, a stream without an end
time), or with the process; what is stored stays; and `Close` returns only when
nothing is owed. A session may be stored before its call is made (`Early`).

### Gateway

`AuditLogger` with the process around it. `handler[r]` is a request as seen from
outside: being served, answered (its `go auditFunc` started), or cut off by the end
of the process. `mainPc` is where `main` stands: waiting for the signal, in
`srv.Stop`, in the deferred calls, gone. When it is gone nothing of the logger
moves. `StartAgain` is the next start of the process, also after a crash at any
point. Every step is a step of `AuditLogger` or leaves it alone, which
`GatewayImplementsLogger` proves.

### StreamGate and StreamPromise

`StreamGate` is the goroutine of one scanned SSE response, together with the
window it alone uses. A character is its position in the upstream's text, so the
window is three numbers: characters appended, characters held, and flush offset.
`SlidingWindow` has the code's `[]rune` and its slices instead; `WindowIsBuffer`
proves that the numbers stand for it.
Banned texts are intervals of positions (`spans`); the detectors recognise one
when all of it is in the window, since `flushBuffered` scans the whole window.
`pc` is the place in the event loop: `read`, `flush`, `tail` (the flush after
the loop), `finish` (the `[DONE]` after it), `end`. A block in the tail does not keep
the handler from `finish`, since it ignores what the last `flushBuffered` answers. The
maximum flush delay is a free choice between
waiting and releasing, which is what a timer read against the wall clock can
amount to. A failing scan is an action of its own because the code goes on
as if the window were clean.

`StreamPromise` is what the gateway promises about such a response without
windows and thresholds. `StreamGate` is shown to implement it.

### RequestLifecycle

The handler of each request is a process, and the administrator another. `pc[r]`
is the place in `ServeHTTP`, `handleNormal` or `handleStream`; a step reaches
from one read of a shared switch to the next, so that bypass, the active policy
and audit-only mode may change between any two of them.

| Model | Code |
| --- | --- |
| `bypass`, `activePolicy`, `auditOnly` | `ph.bypassMode`, `types.activePolicy`, `AuditOnlyMode` of the configuration |
| `policy`, `results`, `action`, `ended` | the fields of `reqCtx` that the audit record is made of |
| `captured` | `handleStream`'s local copy of `auditOnly` |
| `Arrive` | `extractExecutionPolicy` |
| `ScanRequest`, `BlockRequest`, `PassRequest` | the request's scan, `shouldBlock`, the 403 |
| `PassNormal` .. `Release` | `handleNormal`, `writeBufferedResponse`, `checkAndBlockResponse` |
| `OpenStream` .. `EndStream` | `handleStream`: connecting, the second look at bypass, the peek that tells events from a plain body, and the scanned stream as one step that keeps `StreamPromise` |
| `Audit` | `go ph.auditFunc(...)` |
| `sawBypass`, `sawPardon` | history variables, for the properties only |

Abstractions. What the detectors find is part of the request's kind: the action
of the match, `BLOCK` or `ALERT`, or none. Detector errors never reach the
handler, since the pipeline turns them into "no match"; the branches of the
handler that depend on one are left out. A client's policy headers are the
modes of the configured policies, in the configuration's order.

### DetectionPipeline

A process per call, one per goroutine of a parallel call, and one that closes
the channels. `asked[c]` is the copy of the detector list; `results[c]` and
`failures[c]` are the two buffered channels; `channels[c]` says how many of them
are closed. What each detector finds is an input of the call. A parallel call
returns on its first match and its goroutines finish behind it.

### FileWatch

A file, its inotify watch, and the event loop of `FileWatcher.Watch`. A save in place
is a truncation and a write, each an event; a file that is replaced or deleted takes
its watch along. `Coalesce` drops an event within a second of the last one
accepted (`recent`), `Accept` runs the callback, `ReAdd` is the timer that watches the
new file. The callback is left to the modules that extend this one: `loop` leaves
`"called"` by their steps. Time is `recent` alone; the timer of 200 ms is assumed
to fire before the second is over. `raced` is a history variable: a change came
before the one before it was dealt with.

### ConfigReload

`config.yaml` over `FileWatch`, with main's callback in its four steps: the instance,
the proxy (which may reject the upstream's URL and keep the old configuration), the
logger, the rules. The content of the file stands for the configuration. An empty
file is a valid YAML document and gives the zero configuration; a file that is no
YAML ends the callback.

### ExemptionStore

`exemptions.yaml` over `FileWatch`, its set in memory, and the administrators'
requests. `pc[a]` follows a request: `persist` (memory is changed, `Persist` is to copy
it), `open` and `write` (`os.WriteFile` truncates and writes without the lock),
`orphan` (the opened file has been replaced), `apply` (a reload that has read the
file and is about to replace memory). `wanted` is a history variable: the set
after the changes made so far. Two writers at once may leave a text that is no
longer what either wrote (`Garbled`), which may or may not parse.

A file stands for its meaning as `LoadFromFile` takes it: where it has two entries
for the same rule the later one replaces the earlier, and patterns that do not compile
are left out with a warning. What an editor's file loses in this way before it is a set
of items is outside the model, and hand edits leave files that parse.

### RegexDetector

A process per scan. `copy[c]` is the rule list it took under the lock; `enabled` and
`exempt` are the questions it asks of each rule, `match` the loop over the rule's
matches, in which `CheckMatch` asks for one match at a time whether a pattern covers
it. Each question takes a lock of its own, and rules, toggles and exemptions change in
between. A text is the matches of each rule that its validator accepts, in order, the
keywords it contains, and whether a fingerprint matches; an exemption entry is a
keyword, which excuses a rule, or a pattern, which covers some matches of it.
`offEver` and `offAlways` are history variables: the reasons not to look at a rule, or
not to count a match of it, that held at some moment, and at every moment, of the scan.

### Proof modules

The modules named `*_proofs` hold the theorems (section 6). Those named `MC*`
give the constants their values for TLC.

## 4. Runs

| Run | Question | Bounds and why they suffice |
| --- | --- | --- |
| `al_custody` | Is a record ever written twice, lost, or left in the channel by `Close`? Is every step one that `AuditPromise` allows? | two calls and a channel of one place: one record in the channel or at the worker while the other finds the channel full; one of them a blocked stream with a session that `Close` may flush, the other a record that may be sampled away or sent to the Kafka stub, both switched at any time; a failing write, a midnight and a restart. In `gw_shutdown` both records must be kept, an open may fail too, and a midnight is where a file may be purged |
| `gw_shutdown` | Is what `Log` took on disk when the process ends, does it end, is each life's chain whole, is what is retained found? | two requests, of which one may be served for ever while the other is audited; a signal at any moment; a failing open and a failing write; one midnight, which with a retention of one day is the boundary; a second start |
| `sg_gate` | Are characters in order and complete, is anything banned released or unrecorded, is the promise implemented, do the loops end? | window 6, threshold 2, events up to 3, texts up to 3: the smallest window with `Remembers`, so one less would fail; eight characters make it overflow; up to two texts anywhere, overlapping or not; all three policies, audit-only on and off, one failing scan |
| `dp_answer` | Is the answer right, does a call return, does a goroutine find its channel full, stay behind, or send too late? | three detectors, each of which matches, fails or finds nothing: two results and an error can be under way together; one call, since calls share nothing but the list, which may change at any time |
| `rl_policy` | Does anything banned pass, is what happened recorded and audited? | one request of every kind, with up to two policy headers, all switches free: requests do not read each other's state |
| `rd_scan` | Does a change under a scan hide a match or invent one? | one scan, since scans share nothing they write; three rule lists, one with two rules and one that does not compile, one shorter, one empty (the defaults); every text over them, with up to two matches of one rule; a keyword for the other rule, and two false-positive patterns that cover one match each, so that one may be exchanged for the other between the two matches; any number of reloads and changes |
| `es_store` | Do memory and file keep what was changed, as long as nothing overlaps? Does a change by hand come into force? | one item, two administrators with two requests in all, two changes by hand, a failing write, a restart: every two of them meet in every order |
| `hr_reload` | Do the components run on the loaded configuration, the proxy on the last usable one, is a change loaded? | four changes, in place or by replacement or deletion: a replaced file, and one more change that only the renewed watch can see; one configuration the proxy rejects and one that does not parse |
| `al_blocked_stream`, `al_chain`, `gw_lost`, `es_survives` | violations, see section 7 | the smallest instance |

`Agreement`, `Converges`, `Loaded` and `Follows` are stated for behaviours in which
changes do not overlap (`raced`). The code promises no more: `es_survives` shows what
happens when `Persist`, a save in place, meets the watcher.
Replacing the file, which is one event, is never raced by itself, so the
conditional properties have instances: a change that is replaced, loaded,
watched again, and replaced once more.

Deadlock is not checked: `Close` ends the logger, `end` ends a response and a
request, a call that has returned is over, and none of these has anything left
to do.

Each property of a passing run has a mutant in `PROJECT.json`: a definition of
the model altered as a plausible bug would alter the code, under which TLC
finds that property violated. Mutated forms stand beside the originals.

## 5. Fairness

`GatewayFairSpec` is weak fairness, while the process lives, of the audit
goroutine of an answered request, of `writeLog` in each thread, of the worker, of the
monitor's exit and of `Close` once begun: goroutines are scheduled, mutexes are
released and file operations return. `main` goes on when no request is left or the
five seconds are over. There is none for the arrival of requests, for an answer, the
signal, tickers, reloads and restarts.

`ConfigReload!FairSpec` and `ExemptionStore!FairSpec` are weak fairness of the
watcher's goroutine with its callback, of the 200 ms timer, of time passing, and in
the latter of requests under way. Nobody has to edit a file or call the admin server.
That the timer is at most 800 ms late is an assumption of `SecondPasses`: a
scheduler that starves it for longer is not modelled.

`StreamGate!FairSpec` is weak fairness of the flush and of the end of
the stream; the upstream may stay silent for ever.

`DetectionPipeline!FairSpec` is weak fairness of each goroutine (a detector is a
function that returns), of the closing one, and of "take a result or its end".
The last is what Go's `select` gives: it draws one of the ready cases at random,
so that the closed error channel, always ready, cannot win for ever. Without the
draw the loop could spin. `RequestLifecycle!FairSpec` is weak fairness of the
audit call of a handler that has answered. There is none for its other steps: the
upstream clients have no overall timeout, on purpose, so a handler may wait for
ever; and none for arrivals and administrators.

## 6. What is proved

TLAPS, for every value of the constants that satisfies their named assumptions:

* `StreamGate_proofs!TypeCorrect`: the flush offset stays within the buffer.
* `OrderKept`: `Roomy => []InOrder`. `NothingLeaks` and `AuditRecords`:
  `Remembers => []NoLeak` and `[]AuditSees`. `DeliveryIsComplete`:
  `SmallEvents => []CompleteDelivery`. `PromiseKept`: under the three, the handler
  implements `StreamPromise`.
  The conditions are inequalities between an event's size, the window's and the
  threshold. `sg_gate` has the smallest window that satisfies them; in a smaller
  one, or with larger events, the properties fail.
  `InOrder` is not inductive: nothing in it ties the client's text to the window.
  The invariant behind it says that what the client has is exactly what precedes
  the window's front (`Front(window) = Len(client)`), and that less than a
  threshold is unreleased whenever the loop reads. For `NoLeak` it is
  joined by: a banned text whose last character is unreleased is still whole
  in the window. For completeness: how much can be left in `tail` and `finish`.
  `FlushAdvances` is the variant of `flushBuffered`'s loop: every turn leaves the loop
  or lowers what is unreleased. `WindowIsBuffer`: the window's three numbers against
  the runes of `SlidingWindow`, operation by operation, for any text.
* `AuditLogger_proofs`: `TypeCorrect`, `ChainHolds`, `AtMostOnceHolds`,
  `NoSilentDropHolds`, `CloseDrainsHolds`, `QueryAnswersHolds`, for any number of
  records, any channel size, any number of failures and restarts.
  `ChainHolds` is about the chain of each life of the process.
  The number of gaps alone is not inductive: whether the next entry opens one
  depends on `previousHash`; the invariant counts a gap that is already certain because
  `previousHash` is not the hash of the last entry. `AtMostOnce` follows from
  `OnePlace`: a record is in one place only, the call, the channel, one hand or
  the file. `NoSilentDrop` follows from `LossPaidFor`: what is missing has a failure
  of its own. `CloseDrains` adds `CloseOrder`: past each of `Close`'s waits, the
  threads it waited for are through and stay so. `QueryAnswers` follows from
  `FilesKept`: what is purged is older than the retention period.
  `PromiseKept`: every step is a step of `AuditPromise` or leaves custody alone. It
  needs the invariants above and one more, `HeldIsCalled`: what the channel or a
  hand has belongs to a call of this life of the process, so that a record cannot
  fall back from "gone" or "refused" into custody. `PromiseMeans` says what that is
  worth: once closed nothing is owed, and a record the logger must keep is lost to an
  error that takes nothing else, or to the death of the process, and to nothing
  else. `AppendOnly`: no step alters or removes an entry. `CloseIsNeverStuck`: at each of
  `Close`'s waits those it waits for can go on (`PendingRuns`, `StopIsOut`).
* `Gateway_proofs`: `GatewayImplementsLogger` (`GatewaySpec => Spec`, so that what
  is proved of the logger holds in the process: `GatewayFiles`),
  `GatewayTypeCorrect`, and `ExitKeepsHolds`, from `ExitAfterClose`: `main` is gone only
  after `Close` has come to its end. `GatewayKeepsPromise`: the process implements
  `AuditPromise`.
* `ConfigReload_proofs`: `TypeCorrect`, `InStepHolds` and `LoadedHolds`. `InStep` speaks
  of the time between reloads, and says where the proxy is when it has rejected the
  configuration the others run on: on the last one it could use. `Carried` says for
  each place of the callback which components have the new one. `Loaded` needs `Attended`: what is in the file
  is in force, or an event that will be accepted is waiting, and the file is
  watched or about to be; `Spaced` says that this is so until a change is raced.
* `ExemptionStore_proofs`: `TypeCorrect` and `AgreementHolds`. `Agreement` speaks of rest;
  `Orderly` says, as long as nothing overlapped, what is wanted at each place of a
  request, that the file has it unless somebody is about to write it (`FileRight`),
  and that what is not in memory is on its way there (`MemoryRight`).
* `RegexDetector_proofs`: `TypeCorrect`, `NothingMissedHolds` and
  `NoFalseAlarmHolds`. The properties speak of a scan that has returned; `ScanInv`
  says that no rule the scan has passed was due (`Passed`), that the reasons already
  asked about for the current rule have not held all along (`NotDisabled`, `NotExempt`),
  what the matches looked at so far have come to (`Looked`: if none counts, something
  spoke at some moment against each; if one does, no reason stood against it all along),
  and that the history variables enclose the reasons that hold now (`Bounded`).
* `DetectionPipeline_proofs`: `VerdictHolds`, `CloseComesLast`, `TypeCorrect` and
  `SendersFindRoom`, for any number of detectors and calls.
  `Verdict` speaks of calls that have returned. The invariant says of a waiting
  call that each detector asked has a goroutine, and that the match of a goroutine that
  is through still lies in the channel: hence an empty closed channel means that nothing
  matched.
  The channels' capacity is a matter of counting: the messages in both are no more
  than the goroutines that are through (`Counted`), each detector asked has one
  goroutine, and one that is about to send is not through; so there is room for it
  (`NeverBlocks`), and `TypeOK`'s bound holds. `NoCallIsStuck`: a call that waits in its
  `select` has something to take, or a goroutine can go on, which uses both the room
  and that somebody has been asked (`Asked`).
* `RequestLifecycle_proofs`: `TypeCorrect`, `NothingBannedGetsThrough`,
  `DenialsRecorded`, `HitsRecorded` and `AnswersKept`, for any number of requests
  of any kind and headers of any length. The properties speak of the end of a
  request; the invariant says for each place of the handler what has been decided
  (`Enforced`) and recorded (`Booked`, `Seen`) by then. `Enforced` also
  carries what the absence of a pardon says about the switches now, so that a
  decision taken from an older value still holds.

The assumptions on constants are named where the constants are declared. One of
them states a fact and not a choice: `RegexDetector!CompiledShape`, that leaving rules
out of a list keeps it a list of rules. `SelectSeq` is defined by recursion, which
is beyond the prover; TLC evaluates the assumption in `rd_scan`.

Model-checked only: liveness (`AnsweredReachesFile`, `ShutdownEnds`, `FlushEnds`,
`Returns`, `NoneLeftBehind`, `AnsweredIsAudited`, `Converges`, `Follows`), which is
beyond the prover. For four of them the half that is safety is proved:
`CloseIsNeverStuck` (`ShutdownEnds`), `FlushAdvances` (`FlushEnds`), `NoCallIsStuck`
(`Returns`) and `SendersFindRoom` (`NoneLeftBehind`). That fairness then brings the
end about is what TLC checks.

## 7. Findings

Shown by a run:

* A streaming request that is blocked before it is forwarded has no end time, and
  its audit record is discarded (`al_blocked_stream`).
* An answered request may miss the log: the servers stop, `Close` waits for the
  calls of `Log` it knows of, and the process ends before the audit goroutine of
  that request has called (`gw_lost`).
* A change by an administrator may be undone by its own save: the watcher reads
  `exemptions.yaml` between the truncation and the write, and drops the event of the
  write because it comes within a second (`es_survives`).
  A save of `config.yaml` in place is a truncation and a write as well, and may leave
  the gateway with the zero configuration, or the old one, for the same reason: in
  `hr_reload` such saves are among the raced ones, of which `Loaded` says nothing. The
  deployment guide (section 2.1) says that saving with an editor triggers the reload.
* The hash chain does not go on across a restart: `NewAuditLogger` begins with an empty
  hash and appends to the same file, while the deployment guide (section 8) has the
  restart continue the chain of the record before (`al_chain`).

Conditions the properties name, because the code does not go beyond them:

* A failed write leaves a gap in the hash chain: `previousHash` is advanced before
  `WriteString`. `ChainLinked` allows one gap for each failed write, within the chain of
  one life of the process. A fragment of a failed write hides the later entries of its
  day from the query (`QueryAnswers`).
* Records of non-streaming requests are not found by trace id, only by request id.
* What exceeds two thresholds after the last event of a stream is dropped, although
  `[DONE]` is sent (`SmallEvents`). An event that does not fit in the window pushes
  out unreleased text (`Roomy`), and with a smaller window than `Remembers` asks for
  the beginning of a banned text with it.
* An answer to a client that asked for a stream leaves a record of its hit if the rule
  says `BLOCK`; `flushBuffered` looks at no others, so an `ALERT` hit in an event stream
  leaves none. `HitsAreRecorded` therefore leaves out the `ALERT` hits of answers to
  clients that asked for a stream.
* A proxy that rejects a configuration (its upstream's URL does not parse) stays on an
  older one, while logger and rules go on to the new one (`InStep`).
* A rule whose matches are covered by turns, because a reload exchanges one
  false-positive pattern for another between the scan's looks at two matches, is passed
  over, although before and after the reload some match of it counted. The lock is taken
  for each match on its own. `NothingMissed` speaks of a match that nothing covered at
  any moment.
* An answer that breaks off while the reverse proxy copies it ends the handler
  by a panic (`ErrAbortHandler`, recovered by the router), so the request is not
  audited. The same happens when the buffer of `bufferedResponseWriter` is full: the
  branch that answers 502 is reached only without that panic.

Seen while modelling, and not counted as findings:

* the policy `force_block` blocks matches whose rule says `BLOCK`, not every match,
  although the admin server logs that "all matched rules will block";
* a request let pass in spite of a `BLOCK` match is recorded with action `BLOCK`;
* a stream that is cut in the flush after its last event gets a second `[DONE]` after
  the one of the termination frame;
* an entry for a rule that `exemptions.yaml` names twice replaces the earlier one, and
  a pattern that does not compile is dropped with a warning;
* the pipeline swallows detector errors, so `fail_open: false` has no effect;
* a rule that says `ALERT` masks the rules and the fingerprints behind it, which may
  say `BLOCK`: the first match is the answer;
* a purpose's overrides do not apply to the scans of a stream;
* the configuration's switches of the detector tiers are read at startup only;
* `RemoveKeyword` removes the first match only, so a keyword that the file lists
  twice stays (the model's files list an item once); rules of the same name share
  one switch;
* when `Persist` fails the request fails, but the change stays in memory until
  the next load;
* in the gateway nothing calls the statistics' `RecordRequest` and `Reset`, the
  logger's `LogStreamChunk`, the exemption manager's `AddFalsePositive` and
  `SetSourceFile`.

## 8. Not modelled

* Statistics: counters under one mutex that only `/admin/stats` reads. Nothing the
  gateway does depends on them, and nothing calls most of their operations.
* The assembly of lines into events in `SSEParser`, masking, severities and the
  validators of matches (Luhn, ID card): functions of a text, left to tests; later in
  the plan.
* The contents of sessions, which are always empty in the gateway.
* The purpose overrides of the regex detector, set once at startup.
* The upstream's URL and clients that `UpdateConfig` of the proxy replaces, header
  copying, and the cut of the request body to a prefix: regular expression
  matching is a free choice of the model, so what lies beyond the prefix has no
  meaning in it.
* HTTP routing and authentication of the admin server, metrics, JSON layout, logging;
  the PII and semantic detectors, which never match; the disk usage system calls,
  whose verdict is a free choice.
