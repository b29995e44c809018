------------------------- MODULE DetectionPipeline -------------------------
(***************************************************************************)
(* The detection pipeline of internal/pipeline/pipeline.go: the registered *)
(* detectors are run on a text one after the other (Execute,               *)
(* ExecuteStream, ExecuteStreamWithBuffer) or each in a goroutine of its   *)
(* own (ExecuteParallel), and the first match is the answer.               *)
(*                                                                         *)
(* What a detector finds in the text of a call is an input.  A parallel    *)
(* call returns on the first match; its other goroutines, and the one that *)
(* closes the channels, go on without it.                                  *)
(***************************************************************************)
EXTENDS Integers, Sequences, FiniteSets

CONSTANTS
  Detectors,  \* what may be registered, each once (main does it at startup)
  Calls,      \* executions, serial or parallel, possibly at the same time
  Findings,   \* the functions from Detectors to what each finds in a text
  Clean,      \* the answer noMatchResult
  NoAnswer    \* "not returned yet"

Found == {"match", "clean", "fail"}

ASSUME FindingsShape == Findings \subseteq [Detectors -> Found]
ASSUME AnswerNames == Clean \notin Detectors /\ NoAnswer \notin Detectors \cup {Clean}
ASSUME FewDetectors == IsFiniteSet(Detectors)

VARIABLES
  detectors,  \* p.detectors
  found,      \* what each detector finds in the text of each call
  pc,         \* "idle", "scan" (serial loop), "select" (parallel) or "returned"
  asked,      \* the copy of p.detectors the call made
  next,       \* serial: the detectors before this place have been run
  worker,     \* the goroutines of a parallel call
  results,    \* resultChan: the detectors whose match is in it
  failures,   \* errChan: how many errors are in it
  channels,   \* "open", "half" (resultChan closed) or "closed"
  answer      \* what the call returned

data  == <<found>>
queue == <<results, failures>>
vars  == <<detectors, data, pc, asked, next, worker, queue, channels, answer>>

InCopy(c) == {asked[c][i] : i \in 1..Len(asked[c])}
Return(c, a) == pc' = [pc EXCEPT ![c] = "returned"] /\ answer' = [answer EXCEPT ![c] = a]

-----------------------------------------------------------------------------
(* The list of detectors, under p.mu.                                      *)

Registered == {detectors[i] : i \in 1..Len(detectors)}

AddDetector(d) ==
  /\ d \notin Registered
  /\ detectors' = Append(detectors, d)
  /\ UNCHANGED <<data, pc, asked, next, worker, queue, channels, answer>>

RemoveDetector(i) ==
  /\ detectors' = SubSeq(detectors, 1, i - 1) \o SubSeq(detectors, i + 1, Len(detectors))
  /\ UNCHANGED <<data, pc, asked, next, worker, queue, channels, answer>>

ClearDetectors ==
  /\ detectors' = <<>>
  /\ UNCHANGED <<data, pc, asked, next, worker, queue, channels, answer>>

-----------------------------------------------------------------------------
(* The serial loop, which the two stream entry points share.               *)

Execute(c) ==
  /\ pc[c] = "idle"
  /\ pc' = [pc EXCEPT ![c] = "scan"]
  /\ asked' = [asked EXCEPT ![c] = detectors]
  /\ UNCHANGED <<detectors, data, next, worker, queue, channels, answer>>

\* One turn of the loop: an error is logged and skipped, as is no match.
ScanNext(c) ==
  /\ pc[c] = "scan"
  /\ LET i == next[c] + 1 IN
     IF i > Len(asked[c]) THEN Return(c, Clean) /\ UNCHANGED next
     ELSE IF found[c][asked[c][i]] = "match" THEN Return(c, asked[c][i]) /\ UNCHANGED next
     ELSE next' = [next EXCEPT ![c] = i] /\ UNCHANGED <<pc, answer>>
  /\ UNCHANGED <<detectors, data, asked, worker, queue, channels>>

-----------------------------------------------------------------------------
(* ExecuteParallel.                                                        *)

\* wg.Add and a goroutine for every detector of the copy.  An empty list
\* returns at once.
ExecuteParallel(c) ==
  /\ pc[c] = "idle"
  /\ asked' = [asked EXCEPT ![c] = detectors]
  /\ IF detectors = <<>>
       THEN Return(c, Clean) /\ UNCHANGED worker
       ELSE /\ pc' = [pc EXCEPT ![c] = "select"]
            /\ worker' = [worker EXCEPT ![c] =
                            [d \in Detectors |-> IF d \in Registered THEN "detect" ELSE "none"]]
            /\ UNCHANGED answer
  /\ UNCHANGED <<detectors, data, next, queue, channels>>

\* d.Detect returns and its latency is recorded; without a match or an error
\* the goroutine is through.
Detect(c, d) ==
  /\ worker[c][d] = "detect"
  /\ worker' = [worker EXCEPT ![c][d] = IF found[c][d] = "clean" THEN "done" ELSE "send"]
  /\ UNCHANGED <<detectors, data, pc, asked, next, queue, channels, answer>>

\* Mutant: channels with room for one.
CapacityOne(c) == 1

\* Both channels are buffered to fit every detector.
Capacity(c) == Len(asked[c])

\* Mutant: no return after errChan <- err.
SendBoth(c, d) ==
  /\ worker[c][d] = "send" /\ Len(results[c]) < Capacity(c)
  /\ results' = [results EXCEPT ![c] = Append(@, d)]
  /\ failures' = [failures EXCEPT ![c] = IF found[c][d] = "fail" THEN @ + 1 ELSE @]
  /\ worker' = [worker EXCEPT ![c][d] = "done"]
  /\ UNCHANGED <<detectors, data, pc, asked, next, channels, answer>>

\* errChan <- err or resultChan <- result, and the deferred wg.Done().
Send(c, d) ==
  /\ worker[c][d] = "send"
  /\ \/ /\ found[c][d] = "match" /\ Len(results[c]) < Capacity(c)
        /\ results' = [results EXCEPT ![c] = Append(@, d)]
        /\ UNCHANGED failures
     \/ /\ found[c][d] = "fail" /\ failures[c] < Capacity(c)
        /\ failures' = [failures EXCEPT ![c] = @ + 1]
        /\ UNCHANGED results
  /\ worker' = [worker EXCEPT ![c][d] = "done"]
  /\ UNCHANGED <<detectors, data, pc, asked, next, channels, answer>>

\* Mutant: wg.Add inside the goroutine, so Wait misses those not yet running.
CloseResultsUncounted(c) ==
  /\ channels[c] = "open" /\ pc[c] # "idle" /\ asked[c] # <<>>
  /\ \E d \in Detectors : worker[c][d] # "none"
  /\ \A d \in Detectors : worker[c][d] # "send"
  /\ channels' = [channels EXCEPT ![c] = "half"]
  /\ UNCHANGED <<detectors, data, pc, asked, next, worker, queue, answer>>

\* wg.Wait() returns; close(resultChan).
CloseResults(c) ==
  /\ channels[c] = "open"
  /\ \E d \in Detectors : worker[c][d] # "none"
  /\ \A d \in Detectors : worker[c][d] \in {"none", "done"}
  /\ channels' = [channels EXCEPT ![c] = "half"]
  /\ UNCHANGED <<detectors, data, pc, asked, next, worker, queue, answer>>

CloseErrors(c) ==
  /\ channels[c] = "half"
  /\ channels' = [channels EXCEPT ![c] = "closed"]
  /\ UNCHANGED <<detectors, data, pc, asked, next, worker, queue, answer>>

\* case result, ok := <-resultChan with a result in it.
SelectResult(c) ==
  /\ pc[c] = "select" /\ results[c] # <<>>
  /\ results' = [results EXCEPT ![c] = Tail(@)]
  /\ Return(c, Head(results[c]))
  /\ UNCHANGED <<detectors, data, asked, next, worker, failures, channels>>

\* Mutant: the end of errChan is taken for the end of the results.
SelectEndOfErrors(c) ==
  /\ pc[c] = "select"
  /\ \/ results[c] = <<>> /\ channels[c] # "open"
     \/ failures[c] = 0 /\ channels[c] = "closed"
  /\ Return(c, Clean)
  /\ UNCHANGED <<detectors, data, asked, next, worker, queue, channels>>

\* Mutant: ok is not looked at, so the loop goes on with a nil result.
SelectEndSpins(c) ==
  /\ pc[c] = "select" /\ results[c] = <<>> /\ channels[c] # "open"
  /\ UNCHANGED vars

\* The same case with !ok: the channel is closed and what was in it is taken.
SelectEnd(c) ==
  /\ pc[c] = "select" /\ results[c] = <<>> /\ channels[c] # "open"
  /\ Return(c, Clean)
  /\ UNCHANGED <<detectors, data, asked, next, worker, queue, channels>>

\* case err, ok := <-errChan: an error is logged.  Once the channel is closed
\* and empty this case does nothing, any number of times.
SelectFailure(c) ==
  /\ pc[c] = "select" /\ failures[c] > 0
  /\ failures' = [failures EXCEPT ![c] = @ - 1]
  /\ UNCHANGED <<detectors, data, pc, asked, next, worker, results, channels, answer>>

-----------------------------------------------------------------------------

NoWorkers == [d \in Detectors |-> "none"]

Init ==
  /\ detectors = <<>>
  /\ found \in [Calls -> Findings]
  /\ pc = [c \in Calls |-> "idle"]
  /\ asked = [c \in Calls |-> <<>>]
  /\ next = [c \in Calls |-> 0]
  /\ worker = [c \in Calls |-> NoWorkers]
  /\ results = [c \in Calls |-> <<>>]
  /\ failures = [c \in Calls |-> 0]
  /\ channels = [c \in Calls |-> "open"]
  /\ answer = [c \in Calls |-> NoAnswer]

Select(c) == SelectResult(c) \/ SelectEnd(c) \/ SelectFailure(c)
Closer(c) == CloseResults(c) \/ CloseErrors(c)
Worker(c, d) == Detect(c, d) \/ Send(c, d)

Next ==
  \/ \E d \in Detectors : AddDetector(d)
  \/ \E i \in 1..Len(detectors) : RemoveDetector(i)
  \/ ClearDetectors
  \/ \E c \in Calls :
       \/ Execute(c) \/ ScanNext(c) \/ ExecuteParallel(c)
       \/ Closer(c) \/ Select(c)
       \/ \E d \in Detectors : Worker(c, d)

Spec == Init /\ [][Next]_vars

\* Fairness: goroutines run and detectors return.  Of several ready cases a
\* select takes one at random, so a result that stays ready is taken in the
\* end even while the closed errChan is ready too.
Fairness ==
  /\ \A c \in Calls : WF_vars(ScanNext(c)) /\ WF_vars(Closer(c))
  /\ \A c \in Calls : WF_vars(SelectResult(c) \/ SelectEnd(c))
  /\ \A c \in Calls, d \in Detectors : WF_vars(Worker(c, d))

FairSpec == Spec /\ Fairness

-----------------------------------------------------------------------------
(* Properties.                                                             *)

\* The type invariant.  Its part that a bug could break: the channels of a call
\* never hold more than one message for each of its detectors.
TypeOK ==
  /\ detectors \in Seq(Detectors)
  /\ found \in [Calls -> [Detectors -> Found]]
  /\ pc \in [Calls -> {"idle", "scan", "select", "returned"}]
  /\ asked \in [Calls -> Seq(Detectors)]
  /\ next \in [Calls -> Nat]
  /\ worker \in [Calls -> [Detectors -> {"none", "detect", "send", "done"}]]
  /\ results \in [Calls -> Seq(Detectors)]
  /\ failures \in [Calls -> Nat]
  /\ \A c \in Calls : Len(results[c]) + failures[c] <= Len(asked[c])
  /\ channels \in [Calls -> {"open", "half", "closed"}]
  /\ answer \in [Calls -> Detectors \cup {Clean, NoAnswer}]

\* The answer of every entry point: a detector registered when the call began
\* whose scan matched, or "clean" only if none of those matched.  Neither a
\* detector's error, nor a change of the list, nor the order in which results
\* arrive and channels close hides a match.
Verdict ==
  \A c \in Calls : pc[c] = "returned" =>
    IF answer[c] = Clean
      THEN \A d \in InCopy(c) : found[c][d] # "match"
      ELSE answer[c] \in InCopy(c) /\ found[c][answer[c]] = "match"

\* No goroutine is about to send when the channel is closed: Go would panic.
CloseIsLast ==
  \A c \in Calls : channels[c] # "open" =>
    \A d \in Detectors : worker[c][d] \in {"none", "done"}

\* A goroutine that has something to send finds room for it, also when the call
\* has returned and nobody reads any more: no send ever blocks.
NeverBlocks ==
  \A c \in Calls : \A d \in Detectors :
    worker[c][d] = "send" => Len(results[c]) < Capacity(c) /\ failures[c] < Capacity(c)

\* A call returns.
Returns == \A c \in Calls : pc[c] \in {"scan", "select"} ~> pc[c] = "returned"

\* "Detectors still running when a match arrives finish in the background"
\* (ExecuteParallel): none blocks for ever on a channel nobody reads any more.
NoneLeftBehind ==
  \A c \in Calls : \A d \in Detectors : worker[c][d] = "detect" ~> worker[c][d] = "done"

=============================================================================
