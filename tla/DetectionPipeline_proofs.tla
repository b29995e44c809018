---------------------- MODULE DetectionPipeline_proofs ----------------------
(***************************************************************************)
(* Proofs about DetectionPipeline, for any number of detectors and calls.  *)
(*                                                                         *)
(* Verdict and CloseIsLast speak of single calls, so the invariant is one  *)
(* formula per call.  While a parallel call waits, every match of a        *)
(* goroutine that is through lies in the result channel: that is what      *)
(* makes an empty, closed channel mean "no match".                         *)
(***************************************************************************)
EXTENDS DetectionPipeline, SequenceTheorems, FiniteSetTheorems, TLAPS

USE DEF data, queue

Types ==
  /\ detectors \in Seq(Detectors)
  /\ found \in [Calls -> [Detectors -> Found]]
  /\ pc \in [Calls -> {"idle", "scan", "select", "returned"}]
  /\ asked \in [Calls -> Seq(Detectors)]
  /\ next \in [Calls -> Nat]
  /\ worker \in [Calls -> [Detectors -> {"none", "detect", "send", "done"}]]
  /\ results \in [Calls -> Seq(Detectors)]
  /\ failures \in [Calls -> Nat]
  /\ channels \in [Calls -> {"open", "half", "closed"}]
  /\ answer \in [Calls -> Detectors \cup {Clean, NoAnswer}]

\* No goroutine of this call has been started.
Quiet(c) == worker[c] = NoWorkers /\ results[c] = <<>> /\ channels[c] = "open"

Idle(c) == pc[c] = "idle" => Quiet(c) /\ next[c] = 0

\* The serial loop has found nothing so far.
Scanning(c) ==
  pc[c] = "scan" =>
    /\ Quiet(c) /\ next[c] <= Len(asked[c])
    /\ \A i \in 1..next[c] : found[c][asked[c][i]] # "match"

\* A waiting call has a goroutine for each detector, and the match of each that
\* is through is still in the channel.
Waiting(c) ==
  pc[c] = "select" =>
    \A d \in InCopy(c) :
      /\ worker[c][d] # "none"
      /\ worker[c][d] = "done" /\ found[c][d] = "match" =>
           \E i \in 1..Len(results[c]) : results[c][i] = d

\* Goroutines and results are those of detectors that were asked.
Sound(c) ==
  /\ \A d \in Detectors : worker[c][d] # "none" => d \in InCopy(c)
  /\ \A i \in 1..Len(results[c]) :
       results[c][i] \in InCopy(c) /\ found[c][results[c][i]] = "match"

Last(c) ==
  channels[c] # "open" => \A d \in Detectors : worker[c][d] \in {"none", "done"}

Right(c) ==
  pc[c] = "returned" =>
    IF answer[c] = Clean
      THEN \A d \in InCopy(c) : found[c][d] # "match"
      ELSE answer[c] \in InCopy(c) /\ found[c][answer[c]] = "match"

CallInv(c) ==
  Idle(c) /\ Scanning(c) /\ Waiting(c) /\ Sound(c) /\ Last(c) /\ Right(c)

Inv == Types /\ \A c \in Calls : CallInv(c)

-----------------------------------------------------------------------------
(* Types.                                                                  *)

LEMMA TypesInit == Init => Types
BY EmptySeq, FindingsShape DEF Init, Types, NoWorkers, Found

\* Taking out the i-th detector leaves a list of detectors.
LEMMA Removed ==
  ASSUME NEW s \in Seq(Detectors), NEW i \in 1..Len(s)
  PROVE  SubSeq(s, 1, i - 1) \o SubSeq(s, i + 1, Len(s)) \in Seq(Detectors)
<1>1. Len(s) \in Nat /\ \A j \in 1..Len(s) : s[j] \in Detectors
  BY LenProperties, ElementOfSeq
<1>2. SubSeq(s, 1, i - 1) \in Seq(Detectors)
  <2>1. \A j \in 1..(i - 1) : s[j] \in Detectors
    BY <1>1
  <2>2. QED
    BY <1>1, <2>1, SubSeqProperties
<1>3. SubSeq(s, i + 1, Len(s)) \in Seq(Detectors)
  <2>1. \A j \in (i + 1)..Len(s) : s[j] \in Detectors
    BY <1>1
  <2>2. QED
    BY <1>1, <2>1, SubSeqProperties
<1>4. QED
  BY <1>2, <1>3, ConcatProperties

LEMMA TypesStep == Types /\ [Next]_vars => Types'
<1> SUFFICES ASSUME Types, [Next]_vars PROVE Types'
  OBVIOUS
<1> USE DEF Types
<1>1. ASSUME NEW d \in Detectors, AddDetector(d) PROVE Types'
  BY <1>1, AppendProperties DEF AddDetector
<1>2. ASSUME NEW i \in 1..Len(detectors), RemoveDetector(i) PROVE Types'
  BY <1>2, Removed DEF RemoveDetector
<1>3. CASE ClearDetectors
  BY <1>3, EmptySeq DEF ClearDetectors
<1>4. ASSUME NEW c \in Calls, Execute(c) PROVE Types'
  BY <1>4 DEF Execute
<1>5. ASSUME NEW c \in Calls, ScanNext(c) PROVE Types'
  <2> DEFINE i == next[c] + 1
  <2>1. i \in Nat \ {0} /\ Len(asked[c]) \in Nat
    BY LenProperties
  <2>2. i <= Len(asked[c]) => asked[c][i] \in Detectors
    BY <2>1, ElementOfSeq
  <2>3. /\ UNCHANGED <<detectors, found, asked, worker, results, failures, channels>>
        /\ \/ \E a \in Detectors \cup {Clean} : Return(c, a) /\ UNCHANGED next
           \/ next' = [next EXCEPT ![c] = i] /\ UNCHANGED <<pc, answer>>
    BY <1>5, <2>1, <2>2 DEF ScanNext
  <2>4. CASE \E a \in Detectors \cup {Clean} : Return(c, a) /\ UNCHANGED next
    BY <2>3, <2>4 DEF Return
  <2>5. CASE next' = [next EXCEPT ![c] = i] /\ UNCHANGED <<pc, answer>>
    BY <2>1, <2>3, <2>5
  <2>6. QED
    BY <2>3, <2>4, <2>5
<1>6. ASSUME NEW c \in Calls, ExecuteParallel(c) PROVE Types'
  <2>1. asked' = [asked EXCEPT ![c] = detectors]
        /\ UNCHANGED <<detectors, found, next, results, failures, channels>>
    BY <1>6 DEF ExecuteParallel
  <2>2. CASE detectors = <<>>
    <3>1. pc' = [pc EXCEPT ![c] = "returned"] /\ answer' = [answer EXCEPT ![c] = Clean]
            /\ worker' = worker
      BY <1>6, <2>2 DEF ExecuteParallel, Return
    <3>2. QED
      BY <2>1, <3>1
  <2>3. CASE detectors # <<>>
    <3> DEFINE started == [d \in Detectors |-> IF d \in Registered THEN "detect" ELSE "none"]
    <3>1. worker' \in [Calls -> [Detectors -> {"none", "detect", "send", "done"}]]
      <4>1. started \in [Detectors -> {"none", "detect", "send", "done"}]
        OBVIOUS
      <4>2. worker' = [worker EXCEPT ![c] = started]
        BY <1>6, <2>3 DEF ExecuteParallel
      <4> HIDE DEF started
      <4>3. QED
        BY <4>1, <4>2
    <3>2. pc' = [pc EXCEPT ![c] = "select"] /\ UNCHANGED answer
      BY <1>6, <2>3 DEF ExecuteParallel
    <3>3. QED
      BY <2>1, <3>1, <3>2
  <2>4. QED
    BY <2>2, <2>3
<1>7. ASSUME NEW c \in Calls, Closer(c) PROVE Types'
  BY <1>7 DEF Closer, CloseResults, CloseErrors
<1>8. ASSUME NEW c \in Calls, SelectResult(c) PROVE Types'
  <2>1. Head(results[c]) \in Detectors /\ Tail(results[c]) \in Seq(Detectors)
    BY <1>8, HeadTailProperties DEF SelectResult
  <2>2. QED
    BY <1>8, <2>1 DEF SelectResult, Return
<1>9. ASSUME NEW c \in Calls, SelectEnd(c) PROVE Types'
  BY <1>9 DEF SelectEnd, Return
<1>10. ASSUME NEW c \in Calls, SelectFailure(c) PROVE Types'
  BY <1>10 DEF SelectFailure
<1>11. ASSUME NEW c \in Calls, NEW d \in Detectors, Detect(c, d) PROVE Types'
  BY <1>11 DEF Detect
<1>12. ASSUME NEW c \in Calls, NEW d \in Detectors, Send(c, d) PROVE Types'
  <2>1. Append(results[c], d) \in Seq(Detectors)
    BY AppendProperties
  <2>2. results' \in [Calls -> Seq(Detectors)] /\ failures' \in [Calls -> Nat]
    <3>1. CASE results' = [results EXCEPT ![c] = Append(results[c], d)] /\ UNCHANGED failures
      BY <2>1, <3>1
    <3>2. CASE failures' = [failures EXCEPT ![c] = failures[c] + 1] /\ UNCHANGED results
      BY <3>2
    <3>3. QED
      BY <1>12, <3>1, <3>2 DEF Send
  <2>3. worker' \in [Calls -> [Detectors -> {"none", "detect", "send", "done"}]]
    BY <1>12 DEF Send
  <2>4. QED
    BY <1>12, <2>2, <2>3 DEF Send
<1>13. CASE UNCHANGED vars
  BY <1>13 DEF vars
<1>14. QED
  BY <1>1, <1>2, <1>3, <1>4, <1>5, <1>6, <1>7, <1>8, <1>9, <1>10, <1>11, <1>12, <1>13
  DEF Next, Select, Worker

-----------------------------------------------------------------------------
(* A call that a step leaves alone keeps its invariant.                    *)

Same(c) ==
  /\ found'[c] = found[c] /\ pc'[c] = pc[c] /\ asked'[c] = asked[c] /\ next'[c] = next[c]
  /\ worker'[c] = worker[c] /\ results'[c] = results[c]
  /\ channels'[c] = channels[c] /\ answer'[c] = answer[c]

LEMMA SameKeeps ==
  ASSUME NEW c \in Calls, CallInv(c), Same(c)
  PROVE  CallInv(c)'
BY DEF CallInv, Same, Idle, Scanning, Waiting, Sound, Last, Right, Quiet, InCopy

\* The steps of a call.
CallStep(c) ==
  \/ Execute(c) \/ ScanNext(c) \/ ExecuteParallel(c)
  \/ Closer(c) \/ Select(c)
  \/ \E d \in Detectors : Worker(c, d)

LEMMA OthersSame ==
  ASSUME Types, NEW c \in Calls, CallStep(c), NEW e \in Calls, e # c
  PROVE  Same(e)
<1> USE DEF Types, Same
<1>1. CASE Execute(c) \/ ScanNext(c) \/ ExecuteParallel(c)
  BY <1>1 DEF Execute, ScanNext, ExecuteParallel, Return
<1>2. CASE Closer(c)
  BY <1>2 DEF Closer, CloseResults, CloseErrors
<1>3. CASE Select(c)
  BY <1>3 DEF Select, SelectResult, SelectEnd, SelectFailure, Return
<1>4. CASE \E d \in Detectors : Worker(c, d)
  BY <1>4 DEF Worker, Detect, Send
<1>5. QED
  BY <1>1, <1>2, <1>3, <1>4 DEF CallStep

-----------------------------------------------------------------------------
(* The steps of a call keep its own invariant.                             *)

LEMMA ExecuteKeeps ==
  ASSUME Types, NEW c \in Calls, CallInv(c), Execute(c)
  PROVE  CallInv(c)'
<1>1. pc[c] = "idle" /\ pc'[c] = "scan" /\ asked'[c] = detectors /\ next'[c] = 0
        /\ found'[c] = found[c] /\ worker'[c] = worker[c] /\ results'[c] = results[c]
        /\ channels'[c] = channels[c]
  BY DEF Types, Execute, CallInv, Idle
<1>2. Quiet(c)
  BY <1>1 DEF CallInv, Idle
<1>3. Quiet(c)'
  BY <1>1, <1>2 DEF Quiet, NoWorkers
<1>4. Len(detectors) \in Nat
  BY LenProperties DEF Types
<1>5. Scanning(c)'
  BY <1>1, <1>3, <1>4 DEF Scanning
<1>6. Sound(c)'
  BY <1>3, EmptySeq DEF Sound, Quiet, NoWorkers
<1>7. QED
  BY <1>1, <1>3, <1>5, <1>6 DEF CallInv, Idle, Waiting, Last, Right, Quiet

LEMMA ScanKeeps ==
  ASSUME Types, NEW c \in Calls, CallInv(c), ScanNext(c)
  PROVE  CallInv(c)'
<1> DEFINE i == next[c] + 1
<1>1. pc[c] = "scan" /\ Quiet(c) /\ next[c] <= Len(asked[c])
        /\ \A j \in 1..next[c] : found[c][asked[c][j]] # "match"
  BY DEF ScanNext, CallInv, Scanning
<1>2. asked'[c] = asked[c] /\ found'[c] = found[c] /\ worker'[c] = worker[c]
        /\ results'[c] = results[c] /\ channels'[c] = channels[c] /\ Quiet(c)'
  BY <1>1 DEF ScanNext, Types, Quiet, NoWorkers
<1>3. i \in Nat \ {0} /\ next[c] \in Nat /\ Len(asked[c]) \in Nat
  BY LenProperties DEF Types
<1>4. Sound(c)' /\ Last(c)'
  BY <1>2, EmptySeq DEF Sound, Last, Quiet, NoWorkers
<1>5. CASE i > Len(asked[c])
  <2>1. pc'[c] = "returned" /\ answer'[c] = Clean
    BY <1>5 DEF ScanNext, Return, Types
  <2>2. \A d \in InCopy(c) : found[c][d] # "match"
    BY <1>1, <1>3, <1>5 DEF InCopy
  <2>3. QED
    BY <1>2, <1>4, <2>1, <2>2 DEF CallInv, Idle, Scanning, Waiting, Right, InCopy
<1>6. CASE ~(i > Len(asked[c])) /\ found[c][asked[c][i]] = "match"
  <2>1. pc'[c] = "returned" /\ answer'[c] = asked[c][i]
    BY <1>6 DEF ScanNext, Return, Types
  <2>2. i \in 1..Len(asked[c])
    BY <1>3, <1>6
  <2>3. asked[c][i] \in InCopy(c) /\ asked[c][i] \in Detectors
    BY <2>2, ElementOfSeq DEF InCopy, Types
  <2>4. asked[c][i] # Clean
    BY <2>3, AnswerNames
  <2>5. QED
    BY <1>2, <1>4, <1>6, <2>1, <2>3, <2>4
    DEF CallInv, Idle, Scanning, Waiting, Right, InCopy
<1>7. CASE ~(i > Len(asked[c])) /\ found[c][asked[c][i]] # "match"
  <2>1. pc'[c] = "scan" /\ next'[c] = i
    BY <1>1, <1>7 DEF ScanNext, Types
  <2>2. i <= Len(asked[c]) /\ \A j \in 1..i : found[c][asked[c][j]] # "match"
    BY <1>1, <1>3, <1>7
  <2>3. Scanning(c)'
    BY <1>2, <2>1, <2>2 DEF Scanning
  <2>4. QED
    BY <1>4, <2>1, <2>3 DEF CallInv, Idle, Waiting, Right
<1>8. QED
  BY <1>5, <1>6, <1>7

LEMMA ParallelKeeps ==
  ASSUME Types, NEW c \in Calls, CallInv(c), ExecuteParallel(c)
  PROVE  CallInv(c)'
<1>1. pc[c] = "idle" /\ Quiet(c) /\ asked'[c] = detectors /\ found'[c] = found[c]
        /\ results'[c] = <<>> /\ channels'[c] = "open"
  BY DEF ExecuteParallel, CallInv, Idle, Quiet, Types
<1>2. CASE detectors = <<>>
  <2>1. pc'[c] = "returned" /\ answer'[c] = Clean /\ worker'[c] = NoWorkers
    BY <1>1, <1>2 DEF ExecuteParallel, Return, Types, Quiet
  <2>2. InCopy(c)' = {}
    BY <1>1, <1>2, EmptySeq DEF InCopy
  <2>3. Sound(c)' /\ Right(c)'
    BY <1>1, <2>1, <2>2, EmptySeq DEF Sound, Right, NoWorkers
  <2>4. QED
    BY <1>1, <2>1, <2>3 DEF CallInv, Idle, Scanning, Waiting, Last
<1>3. CASE detectors # <<>>
  <2>1. pc'[c] = "select"
        /\ worker'[c] = [d \in Detectors |-> IF d \in Registered THEN "detect" ELSE "none"]
    BY <1>3 DEF ExecuteParallel, Types
  <2>2. InCopy(c)' = Registered /\ Registered \subseteq Detectors
    BY <1>1, ElementOfSeq DEF InCopy, Registered, Types
  <2>3. Sound(c)' /\ Waiting(c)'
    BY <1>1, <2>1, <2>2, EmptySeq DEF Sound, Waiting
  <2>4. QED
    BY <1>1, <2>1, <2>3 DEF CallInv, Idle, Scanning, Last, Right
<1>4. QED
  BY <1>2, <1>3

LEMMA CloserKeeps ==
  ASSUME Types, NEW c \in Calls, CallInv(c), Closer(c)
  PROVE  CallInv(c)'
<1>1. found'[c] = found[c] /\ pc'[c] = pc[c] /\ asked'[c] = asked[c] /\ next'[c] = next[c]
        /\ worker'[c] = worker[c] /\ results'[c] = results[c] /\ answer'[c] = answer[c]
        /\ channels'[c] # "open"
  BY DEF Closer, CloseResults, CloseErrors, Types
<1>2. \A d \in Detectors : worker[c][d] \in {"none", "done"}
  BY DEF Closer, CloseResults, CloseErrors, CallInv, Last
<1>3. ~Quiet(c)
  BY DEF Closer, CloseResults, CloseErrors, Quiet, NoWorkers
<1>4. pc[c] \notin {"idle", "scan"}
  BY <1>3 DEF CallInv, Idle, Scanning
<1>5. QED
  BY <1>1, <1>2, <1>4 DEF CallInv, Idle, Scanning, Waiting, Sound, Last, Right, InCopy

LEMMA SelectKeeps ==
  ASSUME Types, NEW c \in Calls, CallInv(c), Select(c)
  PROVE  CallInv(c)'
<1>1. CASE SelectResult(c)
  <2>1. pc'[c] = "returned" /\ answer'[c] = Head(results[c]) /\ results'[c] = Tail(results[c])
        /\ found'[c] = found[c] /\ asked'[c] = asked[c] /\ worker'[c] = worker[c]
        /\ channels'[c] = channels[c] /\ results[c] # <<>> /\ results[c] \in Seq(Detectors)
    BY <1>1 DEF SelectResult, Return, Types
  <2>2. 1 \in 1..Len(results[c]) /\ Head(results[c]) = results[c][1]
    BY <2>1, EmptySeq
  <2>3. Head(results[c]) \in InCopy(c) /\ found[c][Head(results[c])] = "match"
        /\ Head(results[c]) \in Detectors
    BY <2>1, <2>2, HeadTailProperties DEF CallInv, Sound
  <2>4. Right(c)'
    BY <2>1, <2>3, AnswerNames DEF Right, InCopy
  <2>5. \A i \in 1..Len(Tail(results[c])) :
          i + 1 \in 1..Len(results[c]) /\ Tail(results[c])[i] = results[c][i + 1]
    BY <2>1, HeadTailProperties, LenProperties
  <2>6. Sound(c)'
    <3>1. \A d \in Detectors : worker'[c][d] # "none" => d \in InCopy(c)
      BY <2>1 DEF CallInv, Sound
    <3>2. \A i \in 1..Len(results'[c]) :
            results'[c][i] \in InCopy(c) /\ found[c][results'[c][i]] = "match"
      BY <2>1, <2>5 DEF CallInv, Sound
    <3>3. QED
      BY <2>1, <3>1, <3>2 DEF Sound, InCopy
  <2>7. QED
    BY <2>1, <2>4, <2>6 DEF CallInv, Idle, Scanning, Waiting, Last
<1>2. CASE SelectEnd(c)
  <2>1. pc[c] = "select" /\ pc'[c] = "returned" /\ answer'[c] = Clean /\ results[c] = <<>>
        /\ results'[c] = <<>> /\ found'[c] = found[c] /\ asked'[c] = asked[c]
        /\ worker'[c] = worker[c] /\ channels'[c] = channels[c] /\ channels[c] # "open"
    BY <1>2 DEF SelectEnd, Return, Types
  <2>2. \A d \in InCopy(c) : d \in Detectors /\ worker[c][d] = "done"
    BY <2>1, ElementOfSeq DEF CallInv, Waiting, Last, InCopy, Types
  <2>3. \A d \in InCopy(c) : found[c][d] # "match"
    BY <2>1, <2>2, EmptySeq DEF CallInv, Waiting
  <2>4. QED
    BY <2>1, <2>3 DEF CallInv, Idle, Scanning, Waiting, Sound, Last, Right, InCopy
<1>3. CASE SelectFailure(c)
  <2>1. Same(c)
    BY <1>3 DEF SelectFailure, Same
  <2>2. QED
    BY <2>1, SameKeeps
<1>4. QED
  BY <1>1, <1>2, <1>3 DEF Select

\* A goroutine that goes on, or ends, without adding a result.
LEMMA ThroughKeeps ==
  ASSUME Types, NEW c \in Calls, CallInv(c), NEW d \in Detectors, d \in InCopy(c),
         NEW w \in {"send", "done"}, worker'[c] = [worker[c] EXCEPT ![d] = w],
         w = "done" => found[c][d] # "match",
         channels[c] = "open", pc[c] \notin {"idle", "scan"},
         found'[c] = found[c], pc'[c] = pc[c], asked'[c] = asked[c], answer'[c] = answer[c],
         channels'[c] = channels[c], results'[c] = results[c]
  PROVE  CallInv(c)'
<1>1. InCopy(c)' = InCopy(c) /\ InCopy(c) \subseteq Detectors
  BY ElementOfSeq DEF InCopy, Types
<1>2. worker'[c][d] = w /\ \A e \in Detectors : e # d => worker'[c][e] = worker[c][e]
  BY DEF Types
<1>3. Waiting(c)'
  <2> SUFFICES ASSUME pc[c] = "select", NEW e \in InCopy(c)
               PROVE  /\ worker'[c][e] # "none"
                      /\ worker'[c][e] = "done" /\ found[c][e] = "match" =>
                           \E i \in 1..Len(results[c]) : results[c][i] = e
    BY <1>1 DEF Waiting
  <2>1. CASE e = d
    BY <1>2, <2>1
  <2>2. CASE e # d
    BY <1>1, <1>2, <2>2 DEF CallInv, Waiting
  <2>3. QED
    BY <2>1, <2>2
<1>4. Sound(c)'
  <2>1. \A e \in Detectors : worker'[c][e] # "none" => e \in InCopy(c)
    BY <1>2 DEF CallInv, Sound
  <2>2. QED
    BY <1>1, <2>1 DEF CallInv, Sound
<1>5. QED
  BY <1>1, <1>3, <1>4 DEF CallInv, Idle, Scanning, Last, Right

LEMMA WorkerKeeps ==
  ASSUME Types, NEW c \in Calls, CallInv(c), NEW d \in Detectors, Worker(c, d)
  PROVE  CallInv(c)'
<1>1. worker[c][d] \in {"detect", "send"} /\ pc'[c] = pc[c] /\ asked'[c] = asked[c]
        /\ found'[c] = found[c] /\ answer'[c] = answer[c] /\ channels'[c] = channels[c]
        /\ next'[c] = next[c]
  BY DEF Worker, Detect, Send
<1>2. channels[c] = "open" /\ d \in InCopy(c) /\ pc[c] \notin {"idle", "scan"}
  BY <1>1 DEF CallInv, Last, Sound, Idle, Scanning, Quiet, NoWorkers
<1>3. CASE Detect(c, d)
  <2>1. results'[c] = results[c]
        /\ worker'[c] = [worker[c] EXCEPT ![d] = IF found[c][d] = "clean" THEN "done" ELSE "send"]
    BY <1>3 DEF Detect, Types
  <2>2. QED
    BY <1>1, <1>2, <1>3, <2>1, ThroughKeeps DEF Detect
<1>4. CASE Send(c, d) /\ found[c][d] = "match"
  <2>1. results'[c] = Append(results[c], d) /\ worker'[c] = [worker[c] EXCEPT ![d] = "done"]
    BY <1>4 DEF Send, Types
  <2>2. Len(results'[c]) = Len(results[c]) + 1 /\ Len(results[c]) \in Nat
        /\ results'[c][Len(results[c]) + 1] = d
        /\ \A i \in 1..Len(results[c]) : results'[c][i] = results[c][i]
    BY <2>1, AppendProperties, LenProperties DEF Types
  <2>3. Waiting(c)'
    <3> SUFFICES ASSUME pc[c] = "select", NEW e \in InCopy(c)
                 PROVE  /\ worker'[c][e] # "none"
                        /\ worker'[c][e] = "done" /\ found[c][e] = "match" =>
                             \E i \in 1..Len(results'[c]) : results'[c][i] = e
      BY <1>1 DEF Waiting, InCopy
    <3>1. CASE e = d
      BY <2>1, <2>2, <3>1 DEF Types
    <3>2. CASE e # d
      <4>1. worker'[c][e] = worker[c][e]
        BY <2>1, <3>2, ElementOfSeq DEF Types, InCopy
      <4>2. QED
        BY <2>2, <4>1 DEF CallInv, Waiting
    <3>3. QED
      BY <3>1, <3>2
  <2>4. Sound(c)'
    <3>1. \A e \in Detectors : worker'[c][e] # "none" => e \in InCopy(c)
      BY <1>2, <2>1 DEF CallInv, Sound, Types
    <3>2. \A i \in 1..Len(results'[c]) :
            results'[c][i] \in InCopy(c) /\ found[c][results'[c][i]] = "match"
      BY <1>2, <1>4, <2>2 DEF CallInv, Sound
    <3>3. QED
      BY <1>1, <3>1, <3>2 DEF Sound, InCopy
  <2>5. QED
    BY <1>1, <1>2, <2>3, <2>4 DEF CallInv, Idle, Scanning, Last, Right, InCopy
<1>5. CASE Send(c, d) /\ found[c][d] # "match"
  <2>1. results'[c] = results[c] /\ worker'[c] = [worker[c] EXCEPT ![d] = "done"]
    BY <1>5 DEF Send, Types
  <2>2. QED
    BY <1>1, <1>2, <1>5, <2>1, ThroughKeeps
<1>6. QED
  BY <1>3, <1>4, <1>5 DEF Worker

-----------------------------------------------------------------------------

LEMMA InvInit == Init => Inv
<1> SUFFICES ASSUME Init, NEW c \in Calls PROVE CallInv(c)
  BY TypesInit DEF Inv
<1>1. Quiet(c) /\ pc[c] = "idle" /\ next[c] = 0
  BY DEF Init, Quiet
<1>2. QED
  BY <1>1, EmptySeq DEF CallInv, Idle, Scanning, Waiting, Sound, Last, Right, Quiet, NoWorkers

LEMMA InvStep == Inv /\ [Next]_vars => Inv'
<1> SUFFICES ASSUME Inv, [Next]_vars, NEW e \in Calls PROVE CallInv(e)'
  BY TypesStep DEF Inv
<1>1. Types /\ CallInv(e)
  BY DEF Inv
<1>2. ASSUME NEW c \in Calls, CallStep(c) PROVE CallInv(e)'
  <2>1. CASE e # c
    BY <1>1, <1>2, <2>1, OthersSame, SameKeeps
  <2>2. CASE e = c
    BY <1>1, <1>2, <2>2, ExecuteKeeps, ScanKeeps, ParallelKeeps, CloserKeeps, SelectKeeps, WorkerKeeps
    DEF CallStep
  <2>3. QED
    BY <2>1, <2>2
<1>3. ASSUME NEW d \in Detectors, AddDetector(d) PROVE CallInv(e)'
  BY <1>1, <1>3, SameKeeps DEF AddDetector, Same
<1>4. ASSUME NEW i \in 1..Len(detectors), RemoveDetector(i) PROVE CallInv(e)'
  BY <1>1, <1>4, SameKeeps DEF RemoveDetector, Same
<1>5. CASE ClearDetectors
  BY <1>1, <1>5, SameKeeps DEF ClearDetectors, Same
<1>6. CASE UNCHANGED vars
  BY <1>1, <1>6, SameKeeps DEF vars, Same
<1>7. QED
  BY <1>2, <1>3, <1>4, <1>5, <1>6 DEF Next, CallStep

LEMMA Invariance == Spec => []Inv
<1>1. QED
  BY InvInit, InvStep, PTL DEF Spec

\* Every execution, serial or parallel, answers with the match of a detector
\* that was registered when it began, and with "clean" only if none of them
\* matched (Execute, ExecuteParallel and the stream entry points).
THEOREM VerdictHolds == Spec => []Verdict
<1>1. Inv => Verdict
  BY DEF Inv, CallInv, Right, Verdict
<1>2. QED
  BY <1>1, Invariance, PTL

\* No goroutine of ExecuteParallel sends on a closed channel.
THEOREM CloseComesLast == Spec => []CloseIsLast
<1>1. Inv => CloseIsLast
  BY DEF Inv, CallInv, Last, CloseIsLast
<1>2. QED
  BY <1>1, Invariance, PTL

-----------------------------------------------------------------------------
(* The room in the channels.  A goroutine puts at most one message into    *)
(* them, as its last act, so they never hold more than there are           *)
(* goroutines that are through; and those are detectors of the copy.       *)

Through(c) == {d \in Detectors : worker[c][d] = "done"}

Counted(c) == Len(results[c]) + failures[c] <= Cardinality(Through(c))

RoomInv == Inv /\ \A c \in Calls : Counted(c)

\* A sequence has at most as many different elements as places.
LEMMA FewInCopy ==
  ASSUME Types, NEW c \in Calls
  PROVE  /\ IsFiniteSet(InCopy(c)) /\ InCopy(c) \subseteq Detectors
         /\ Cardinality(InCopy(c)) \in Nat /\ Len(asked[c]) \in Nat
         /\ Cardinality(InCopy(c)) <= Len(asked[c])
<1>1. asked[c] \in Seq(Detectors) /\ Len(asked[c]) \in Nat
  BY LenProperties DEF Types
<1>2. InCopy(c) \subseteq Detectors
  BY <1>1, ElementOfSeq DEF InCopy
<1>3. ExistsSurjection(1..Len(asked[c]), InCopy(c))
  <2> DEFINE f == [i \in 1..Len(asked[c]) |-> asked[c][i]]
  <2>1. f \in Surjection(1..Len(asked[c]), InCopy(c))
    BY DEF Surjection, InCopy
  <2>2. QED
    BY <2>1 DEF ExistsSurjection
<1>4. Cardinality(InCopy(c)) <= Len(asked[c])
  BY <1>1, <1>3, FS_SurjCardinalityBound
<1>5. IsFiniteSet(InCopy(c))
  BY <1>2, FewDetectors, FS_Subset
<1>6. QED
  BY <1>1, <1>2, <1>4, <1>5, FS_CardinalityType

LEMMA ThroughFinite ==
  ASSUME NEW c
  PROVE  IsFiniteSet(Through(c)) /\ Cardinality(Through(c)) \in Nat
BY FewDetectors, FS_Subset, FS_CardinalityType DEF Through

\* The goroutines that are through are detectors of the copy; while one is
\* about to send, they are not all of them.
LEMMA ThroughBound ==
  ASSUME Inv, NEW c \in Calls
  PROVE  /\ Cardinality(Through(c)) <= Len(asked[c])
         /\ \A d \in Detectors :
              worker[c][d] = "send" => Cardinality(Through(c)) + 1 <= Len(asked[c])
<1>1. Types /\ Sound(c)
  BY DEF Inv, CallInv
<1>2. Through(c) \subseteq InCopy(c)
  BY <1>1 DEF Sound, Through
<1>3. Cardinality(Through(c)) <= Cardinality(InCopy(c))
  BY <1>1, <1>2, FewInCopy, FS_Subset
<1>4. ASSUME NEW d \in Detectors, worker[c][d] = "send"
      PROVE  Cardinality(Through(c)) + 1 <= Len(asked[c])
  <2>1. d \notin Through(c) /\ Through(c) \cup {d} \subseteq InCopy(c)
    BY <1>1, <1>2, <1>4 DEF Through, Sound
  <2>2. Cardinality(Through(c) \cup {d}) = Cardinality(Through(c)) + 1
    BY <2>1, ThroughFinite, FS_AddElement
  <2>3. Cardinality(Through(c) \cup {d}) <= Cardinality(InCopy(c))
    BY <1>1, <2>1, FewInCopy, FS_Subset
  <2>4. QED
    BY <1>1, <2>2, <2>3, FewInCopy, ThroughFinite
<1>5. QED
  BY <1>1, <1>3, <1>4, FewInCopy, ThroughFinite

LEMMA CountedInit == Init => \A c \in Calls : Counted(c)
<1> SUFFICES ASSUME Init, NEW c \in Calls PROVE Counted(c)
  OBVIOUS
<1>1. Len(results[c]) = 0 /\ failures[c] = 0
  BY EmptySeq DEF Init
<1>2. QED
  BY <1>1, ThroughFinite DEF Counted

\* A call whose goroutines and channels are left alone.
LEMMA CountedSame ==
  ASSUME NEW c \in Calls, Counted(c), worker'[c] = worker[c],
         results'[c] = results[c], failures'[c] = failures[c]
  PROVE  Counted(c)'
BY DEF Counted, Through

LEMMA CountedDetect ==
  ASSUME Types, NEW c \in Calls, Counted(c), NEW d \in Detectors, Detect(c, d)
  PROVE  Counted(c)'
<1>1. results'[c] = results[c] /\ failures'[c] = failures[c] /\ worker[c][d] = "detect"
        /\ worker'[c] = [worker[c] EXCEPT ![d] = IF found[c][d] = "clean" THEN "done" ELSE "send"]
  BY DEF Detect, Types
<1>2. Through(c) \subseteq Through(c)'
  BY <1>1 DEF Through, Types
<1>3. IsFiniteSet(Through(c)') /\ Cardinality(Through(c)') \in Nat
  BY FewDetectors, FS_Subset, FS_CardinalityType DEF Through
<1>4. Cardinality(Through(c)) <= Cardinality(Through(c)')
  BY <1>2, <1>3, FS_Subset
<1>5. Len(results[c]) \in Nat /\ failures[c] \in Nat
  BY LenProperties DEF Types
<1>6. QED
  BY <1>1, <1>3, <1>4, <1>5, ThroughFinite DEF Counted

LEMMA CountedSend ==
  ASSUME Types, NEW c \in Calls, Counted(c), NEW d \in Detectors, Send(c, d)
  PROVE  Counted(c)'
<1>1. worker[c][d] = "send" /\ worker'[c] = [worker[c] EXCEPT ![d] = "done"]
  BY DEF Send, Types
<1>2. d \notin Through(c) /\ Through(c)' = Through(c) \cup {d}
  BY <1>1 DEF Through, Types
<1>3. Cardinality(Through(c)') = Cardinality(Through(c)) + 1
  BY <1>2, ThroughFinite, FS_AddElement
<1>4. Len(results[c]) \in Nat /\ failures[c] \in Nat
  BY LenProperties DEF Types
<1>5. \/ results'[c] = Append(results[c], d) /\ failures'[c] = failures[c]
      \/ results'[c] = results[c] /\ failures'[c] = failures[c] + 1
  BY DEF Send, Types
<1>6. Len(results'[c]) + failures'[c] = Len(results[c]) + failures[c] + 1
  <2>1. CASE results'[c] = Append(results[c], d) /\ failures'[c] = failures[c]
    BY <1>4, <2>1, AppendProperties DEF Types
  <2>2. CASE results'[c] = results[c] /\ failures'[c] = failures[c] + 1
    BY <1>4, <2>2
  <2>3. QED
    BY <1>5, <2>1, <2>2
<1>7. QED
  BY <1>3, <1>4, <1>6, ThroughFinite DEF Counted

\* Only a call nothing was started for starts goroutines, and its channels are
\* empty.
LEMMA CountedParallel ==
  ASSUME Types, NEW c \in Calls, CallInv(c), Counted(c), ExecuteParallel(c)
  PROVE  Counted(c)'
<1>1. worker[c] = NoWorkers /\ results'[c] = results[c] /\ failures'[c] = failures[c]
        /\ Len(results[c]) \in Nat /\ failures[c] \in Nat
  BY LenProperties DEF ExecuteParallel, CallInv, Idle, Quiet, Types
<1>2. Through(c) = {}
  BY <1>1 DEF Through, NoWorkers
<1>3. Len(results[c]) + failures[c] <= 0
  BY <1>2, FS_EmptySet DEF Counted
<1>4. Cardinality(Through(c)') \in Nat
  BY FewDetectors, FS_Subset, FS_CardinalityType DEF Through
<1>5. QED
  BY <1>1, <1>3, <1>4 DEF Counted

LEMMA CountedSelect ==
  ASSUME Types, NEW c \in Calls, Counted(c), Select(c)
  PROVE  Counted(c)'
<1>1. worker'[c] = worker[c] /\ Len(results[c]) \in Nat /\ failures[c] \in Nat
        /\ results[c] \in Seq(Detectors)
  BY LenProperties DEF Select, SelectResult, SelectEnd, SelectFailure, Types
<1>2. Through(c)' = Through(c)
  BY <1>1 DEF Through
<1>3. CASE SelectResult(c)
  <2>1. results'[c] = Tail(results[c]) /\ results[c] # <<>> /\ failures'[c] = failures[c]
    BY <1>3 DEF SelectResult, Types
  <2>2. Len(results'[c]) = Len(results[c]) - 1
    BY <1>1, <2>1, HeadTailProperties
  <2>3. QED
    BY <1>1, <1>2, <2>1, <2>2, ThroughFinite DEF Counted
<1>4. CASE SelectEnd(c)
  BY <1>1, <1>4, CountedSame DEF SelectEnd
<1>5. CASE SelectFailure(c)
  <2>1. results'[c] = results[c] /\ failures'[c] = failures[c] - 1 /\ failures[c] > 0
    BY <1>5 DEF SelectFailure, Types
  <2>2. QED
    BY <1>1, <1>2, <2>1, ThroughFinite DEF Counted
<1>6. QED
  BY <1>3, <1>4, <1>5 DEF Select

\* The goroutines and channels of the other calls are left alone.
LEMMA OthersCounted ==
  ASSUME Types, NEW c \in Calls, CallStep(c), NEW e \in Calls, e # c, Counted(e)
  PROVE  Counted(e)'
<1> USE DEF Types
<1>1. worker'[e] = worker[e] /\ results'[e] = results[e]
  BY OthersSame DEF Same
<1>2. failures'[e] = failures[e]
  <2>1. CASE Execute(c) \/ ScanNext(c) \/ ExecuteParallel(c)
    BY <2>1 DEF Execute, ScanNext, ExecuteParallel
  <2>2. CASE Closer(c)
    BY <2>2 DEF Closer, CloseResults, CloseErrors
  <2>3. CASE Select(c)
    BY <2>3 DEF Select, SelectResult, SelectEnd, SelectFailure
  <2>4. CASE \E d \in Detectors : Worker(c, d)
    BY <2>4 DEF Worker, Detect, Send
  <2>5. QED
    BY <2>1, <2>2, <2>3, <2>4 DEF CallStep
<1>3. QED
  BY <1>1, <1>2, CountedSame

LEMMA CountedStep == RoomInv /\ [Next]_vars => RoomInv'
<1> SUFFICES ASSUME RoomInv, [Next]_vars, NEW e \in Calls PROVE Counted(e)'
  BY InvStep DEF RoomInv
<1>1. Types /\ CallInv(e) /\ Counted(e)
  BY DEF RoomInv, Inv
<1>2. ASSUME NEW c \in Calls, CallStep(c) PROVE Counted(e)'
  <2>1. CASE e # c
    BY <1>1, <1>2, <2>1, OthersCounted
  <2>2. CASE e = c
    <3>1. CASE Execute(e) \/ ScanNext(e)
      BY <1>1, <3>1, CountedSame DEF Execute, ScanNext
    <3>2. CASE Closer(e)
      BY <1>1, <3>2, CountedSame DEF Closer, CloseResults, CloseErrors
    <3>3. QED
      BY <1>1, <1>2, <2>2, <3>1, <3>2, CountedParallel, CountedSelect, CountedDetect, CountedSend
      DEF CallStep, Worker
  <2>3. QED
    BY <2>1, <2>2
<1>3. ASSUME NEW d \in Detectors, AddDetector(d) PROVE Counted(e)'
  BY <1>1, <1>3, CountedSame DEF AddDetector
<1>4. ASSUME NEW i \in 1..Len(detectors), RemoveDetector(i) PROVE Counted(e)'
  BY <1>1, <1>4, CountedSame DEF RemoveDetector
<1>5. CASE ClearDetectors
  BY <1>1, <1>5, CountedSame DEF ClearDetectors
<1>6. CASE UNCHANGED vars
  BY <1>1, <1>6, CountedSame DEF vars
<1>7. QED
  BY <1>2, <1>3, <1>4, <1>5, <1>6 DEF Next, CallStep

LEMMA RoomInvariance == Spec => []RoomInv
<1>1. Init => RoomInv
  BY InvInit, CountedInit DEF RoomInv
<1>2. QED
  BY <1>1, CountedStep, PTL DEF Spec

\* Type correctness, with what a bug could break: the channels of a call never
\* hold more than one message for each detector of its copy.
THEOREM TypeCorrect == Spec => []TypeOK
<1>1. ASSUME RoomInv, NEW c \in Calls
      PROVE  Len(results[c]) + failures[c] <= Len(asked[c])
  <2>1. Len(results[c]) \in Nat /\ failures[c] \in Nat /\ Len(asked[c]) \in Nat
    BY <1>1, LenProperties DEF RoomInv, Inv, Types
  <2>2. Counted(c) /\ Cardinality(Through(c)) <= Len(asked[c])
    BY <1>1, ThroughBound DEF RoomInv
  <2>3. QED
    BY <2>1, <2>2, ThroughFinite DEF Counted
<1>2. RoomInv => TypeOK
  BY <1>1 DEF RoomInv, Inv, Types, TypeOK
<1>3. QED
  BY <1>2, RoomInvariance, PTL

\* A goroutine that has something to send finds room for it, whether anybody
\* still reads the channels or not: "buffered to fit every detector" is enough
\* for none to be left behind blocked (ExecuteParallel).
THEOREM SendersFindRoom == Spec => []NeverBlocks
<1>1. ASSUME RoomInv, NEW c \in Calls, NEW d \in Detectors, worker[c][d] = "send"
      PROVE  Len(results[c]) < Capacity(c) /\ failures[c] < Capacity(c)
  <2>1. Len(results[c]) \in Nat /\ failures[c] \in Nat /\ Len(asked[c]) \in Nat
    BY <1>1, LenProperties DEF RoomInv, Inv, Types
  <2>2. Counted(c) /\ Cardinality(Through(c)) + 1 <= Len(asked[c])
    BY <1>1, ThroughBound DEF RoomInv
  <2>3. QED
    BY <2>1, <2>2, ThroughFinite DEF Counted, Capacity
<1>2. RoomInv => NeverBlocks
  BY <1>1 DEF NeverBlocks
<1>3. QED
  BY <1>2, RoomInvariance, PTL

-----------------------------------------------------------------------------
(* A waiting call does not wait for nothing.                               *)

\* What may still happen to a waiting call: a result or the end of the results
\* is there to be taken, a goroutine has something to do and room to do it, or
\* all are through and the results can be closed.
CallGoesOn(c) ==
  \/ results[c] # <<>>
  \/ channels[c] # "open"
  \/ \E d \in Detectors :
       \/ worker[c][d] = "detect"
       \/ /\ worker[c][d] = "send" /\ found[c][d] \in {"match", "fail"}
          /\ Len(results[c]) < Capacity(c) /\ failures[c] < Capacity(c)
  \/ /\ \E d \in Detectors : worker[c][d] # "none"
     /\ \A d \in Detectors : worker[c][d] \in {"none", "done"}

WaitingGoesOn == \A c \in Calls : pc[c] = "select" => CallGoesOn(c)

\* A parallel call has asked somebody, and who is about to send has something
\* to send.
Asked(c) ==
  /\ pc[c] = "select" => asked[c] # <<>>
  /\ \A d \in Detectors : worker[c][d] = "send" => found[c][d] \in {"match", "fail"}

LEMMA AskedInit == Init => \A c \in Calls : Asked(c)
BY DEF Init, Asked, NoWorkers

LEMMA AskedStep ==
  Types /\ (\A c \in Calls : Asked(c)) /\ [Next]_vars => (\A c \in Calls : Asked(c))'
<1> SUFFICES ASSUME Types, \A c \in Calls : Asked(c), [Next]_vars, NEW e \in Calls
             PROVE  Asked(e)'
  OBVIOUS
<1>1. Asked(e)
  OBVIOUS
<1>2. ASSUME Same(e) PROVE Asked(e)'
  BY <1>1, <1>2 DEF Asked, Same
<1>3. ASSUME CallStep(e) PROVE Asked(e)'
  <2>1. CASE Execute(e) \/ ScanNext(e)
    BY <1>1, <2>1 DEF Execute, ScanNext, Return, Types, Asked
  <2>2. CASE ExecuteParallel(e)
    <3>1. found'[e] = found[e] /\ asked'[e] = detectors
      BY <2>2 DEF ExecuteParallel, Types
    <3>2. CASE detectors = <<>>
      BY <1>1, <2>2, <3>1, <3>2 DEF ExecuteParallel, Return, Types, Asked
    <3>3. CASE detectors # <<>>
      <4>1. worker'[e] = [d \in Detectors |-> IF d \in Registered THEN "detect" ELSE "none"]
        BY <2>2, <3>3 DEF ExecuteParallel, Types
      <4>2. \A d \in Detectors : worker'[e][d] # "send"
        BY <4>1
      <4>3. QED
        BY <3>1, <3>3, <4>2 DEF Asked
    <3>4. QED
      BY <3>2, <3>3
  <2>3. CASE Closer(e)
    BY <1>1, <2>3 DEF Closer, CloseResults, CloseErrors, Types, Asked
  <2>4. CASE Select(e)
    BY <1>1, <2>4 DEF Select, SelectResult, SelectEnd, SelectFailure, Return, Types, Asked
  <2>5. ASSUME NEW d \in Detectors, Detect(e, d) PROVE Asked(e)'
    <3>1. /\ found'[e] = found[e] /\ pc'[e] = pc[e] /\ asked'[e] = asked[e]
          /\ worker'[e] = [worker[e] EXCEPT ![d] = IF found[e][d] = "clean" THEN "done" ELSE "send"]
      BY <2>5 DEF Detect, Types
    <3>2. found[e][d] \in {"match", "clean", "fail"}
      BY DEF Types, Found
    <3>3. QED
      BY <1>1, <3>1, <3>2 DEF Asked, Types
  <2>6. ASSUME NEW d \in Detectors, Send(e, d) PROVE Asked(e)'
    BY <1>1, <2>6 DEF Send, Types, Asked
  <2>7. QED
    BY <1>3, <2>1, <2>2, <2>3, <2>4, <2>5, <2>6 DEF CallStep, Worker
<1>4. ASSUME NEW c \in Calls, CallStep(c) PROVE Asked(e)'
  BY <1>2, <1>3, <1>4, OthersSame
<1>5. CASE (\E d \in Detectors : AddDetector(d)) \/ ClearDetectors
             \/ \E i \in 1..Len(detectors) : RemoveDetector(i)
  BY <1>2, <1>5 DEF AddDetector, RemoveDetector, ClearDetectors, Same
<1>6. CASE UNCHANGED vars
  BY <1>2, <1>6 DEF vars, Same
<1>7. QED
  BY <1>4, <1>5, <1>6 DEF Next, CallStep

\* ExecuteParallel never waits for what cannot come: until it returns there is a
\* result, the end of the results, or a goroutine that can go on (what stands
\* behind Returns).
THEOREM NoCallIsStuck == Spec => []WaitingGoesOn
<1>1. ASSUME RoomInv, NEW c \in Calls, Asked(c), NeverBlocks, pc[c] = "select"
      PROVE  CallGoesOn(c)
  <2>1. Types /\ Waiting(c)
    BY <1>1 DEF RoomInv, Inv, CallInv
  <2>2. asked[c] \in Seq(Detectors) /\ asked[c] # <<>>
    BY <1>1, <2>1 DEF Types, Asked
  <2>3. 1 \in 1..Len(asked[c]) /\ asked[c][1] \in Detectors
    BY <2>2, EmptySeq, LenProperties, ElementOfSeq
  <2>4. asked[c][1] \in InCopy(c)
    BY <2>3 DEF InCopy
  <2>5. worker[c][asked[c][1]] # "none"
    BY <1>1, <2>1, <2>4 DEF Waiting
  <2>6. \A d \in Detectors : worker[c][d] \in {"none", "detect", "send", "done"}
    BY <2>1 DEF Types
  <2>7. \A d \in Detectors : worker[c][d] = "send" =>
          /\ found[c][d] \in {"match", "fail"}
          /\ Len(results[c]) < Capacity(c) /\ failures[c] < Capacity(c)
    BY <1>1 DEF NeverBlocks, Asked
  <2>8. QED
    BY <2>3, <2>5, <2>6, <2>7 DEF CallGoesOn
<1>2. RoomInv /\ NeverBlocks /\ (\A c \in Calls : Asked(c)) => WaitingGoesOn
  BY <1>1 DEF WaitingGoesOn
<1>3. RoomInv => Types
  BY DEF RoomInv, Inv
<1>4. Spec => [](\A c \in Calls : Asked(c))
  BY <1>3, AskedInit, AskedStep, RoomInvariance, PTL DEF Spec
<1>5. QED
  BY <1>2, <1>4, RoomInvariance, SendersFindRoom, PTL

=============================================================================
