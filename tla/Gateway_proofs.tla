-------------------------- MODULE Gateway_proofs ---------------------------
(***************************************************************************)
(* Proofs about Gateway: the process only ever does with the audit logger  *)
(* what AuditLogger allows, so all that is proved there holds here; and    *)
(* what is on disk when the process ends.                                  *)
(***************************************************************************)
EXTENDS Gateway, AuditLogger_proofs

USE DEF mainVars, LoggerOnly, MainOnly

\* Every step of the process is a step of the logger, or none.
LEMMA LoggerStepped == [GatewayNext]_gwVars => [Next]_vars
<1> SUFFICES ASSUME [GatewayNext]_gwVars PROVE [Next]_vars
  OBVIOUS
<1>1. CASE UNCHANGED gwVars
  BY <1>1 DEF gwVars
<1>2. ASSUME NEW r \in Records, Arrive(r) \/ Answer(r) PROVE [Next]_vars
  BY <1>2 DEF Arrive, Answer
<1>3. ASSUME NEW r \in Records, AuditStep(r) PROVE [Next]_vars
  BY <1>3 DEF AuditStep, Next
<1>4. CASE Signal \/ Drained \/ GraceOver \/ Exit
  BY <1>4 DEF Signal, Drained, GraceOver, Exit
<1>5. CASE DeferredClose
  BY <1>5 DEF DeferredClose, Next
<1>6. CASE StartAgain
  BY <1>6 DEF StartAgain, Next
<1>7. CASE LoggerStep
  BY <1>7 DEF LoggerStep, Next
<1>8. QED
  BY <1>1, <1>2, <1>3, <1>4, <1>5, <1>6, <1>7 DEF GatewayNext

\* The gateway implements the audit logger.
THEOREM GatewayImplementsLogger == GatewaySpec => Spec
<1>1. GatewayInit => Init
  BY DEF GatewayInit
<1>2. QED
  BY <1>1, LoggerStepped, PTL DEF GatewaySpec, Spec

MainType ==
  /\ handler \in [Records -> {"none", "serving", "answered", "cut"}]
  /\ mainPc \in {"running", "draining", "closing", "exited"} /\ graceful \in BOOLEAN

LEMMA MainTypeNext == MainType /\ [GatewayNext]_gwVars => MainType'
<1> SUFFICES ASSUME MainType, [GatewayNext]_gwVars PROVE MainType'
  OBVIOUS
<1> USE DEF MainType
<1>1. CASE UNCHANGED gwVars
  BY <1>1 DEF gwVars
<1>2. ASSUME NEW r \in Records, Arrive(r) \/ Answer(r) PROVE MainType'
  BY <1>2 DEF Arrive, Answer
<1>3. ASSUME NEW r \in Records, AuditStep(r) PROVE MainType'
  BY <1>3 DEF AuditStep
<1>4. CASE Signal \/ Drained \/ GraceOver \/ Exit \/ DeferredClose
  BY <1>4 DEF Signal, Drained, GraceOver, Exit, DeferredClose
<1>5. CASE StartAgain
  BY <1>5 DEF StartAgain
<1>6. CASE LoggerStep
  BY <1>6 DEF LoggerStep
<1>7. QED
  BY <1>1, <1>2, <1>3, <1>4, <1>5, <1>6 DEF GatewayNext

\* The type invariant of the process and its logger.
THEOREM GatewayTypeCorrect == GatewaySpec => []GatewayTypeOK
<1>1. GatewayInit => MainType
  BY DEF GatewayInit, MainType
<1>2. TypeOK /\ MainType => GatewayTypeOK
  BY DEF GatewayTypeOK, MainType
<1>3. QED
  BY <1>1, <1>2, MainTypeNext, TypeCorrect, GatewayImplementsLogger, PTL DEF GatewaySpec

-----------------------------------------------------------------------------

\* The process ends by itself only after Close.
ExitAfterClose == mainPc = "exited" => closerPc = "closed"

LEMMA ExitNext == ExitAfterClose /\ [GatewayNext]_gwVars => ExitAfterClose'
<1> SUFFICES ASSUME ExitAfterClose, [GatewayNext]_gwVars PROVE ExitAfterClose'
  OBVIOUS
<1> USE DEF ExitAfterClose
<1>1. CASE UNCHANGED gwVars
  BY <1>1 DEF gwVars, vars, closeVars
<1>2. ASSUME NEW r \in Records, Arrive(r) \/ Answer(r) PROVE ExitAfterClose'
  BY <1>2 DEF Arrive, Answer, vars, closeVars
<1>3. ASSUME NEW r \in Records, mainPc # "exited", AuditStep(r) PROVE ExitAfterClose'
  BY <1>3 DEF AuditStep
<1>4. CASE Signal \/ Drained \/ GraceOver \/ Exit
  BY <1>4 DEF Signal, Drained, GraceOver, Exit, vars, closeVars
<1>5. CASE DeferredClose \/ StartAgain \/ LoggerStep
  BY <1>5 DEF DeferredClose, StartAgain, LoggerStep
<1>6. QED
  BY <1>1, <1>2, <1>3, <1>4, <1>5 DEF GatewayNext

\* What a Log call took before Close began is in a file when the process ends,
\* whatever the end cuts off (ExitKeeps).
THEOREM ExitKeepsHolds == GatewaySpec => []ExitKeeps
<1>1. GatewayInit => ExitAfterClose
  BY DEF GatewayInit, ExitAfterClose
<1>2. ExitAfterClose /\ CloseOrder /\ CloseDrains => ExitKeeps
  BY DEF ExitAfterClose, CloseOrder, SendersGone, CloseDrains, ExitKeeps
<1>3. QED
  BY <1>1, <1>2, ExitNext, OrderHolds, CloseDrainsHolds, GatewayImplementsLogger, PTL
     DEF GatewaySpec

\* The hash chain and the query, in the process that runs them.
THEOREM GatewayFiles == GatewaySpec => [](ChainLinked /\ QueryAnswers)
BY ChainHolds, QueryAnswersHolds, GatewayImplementsLogger, PTL

\* The process keeps the audit logger's promise for each record, whenever it is
\* stopped, dies or is started again.
THEOREM GatewayKeepsPromise == GatewaySpec => PromiseSpec
BY PromiseKept, GatewayImplementsLogger, PTL

=============================================================================
