------------------------------ MODULE Gateway -------------------------------
(***************************************************************************)
(* The gateway's process, cmd/gateway/main.go: requests, the audit         *)
(* goroutine each of them starts when it has been answered, and shutdown   *)
(* by a signal, with the audit logger of AuditLogger.                      *)
(*                                                                         *)
(* Shutdown stops the servers, waits up to five seconds for the requests,  *)
(* runs main's deferred calls, of which AuditLogger.Close is the last, and *)
(* ends the process with whatever goroutine is left.                       *)
(***************************************************************************)
EXTENDS AuditLogger

VARIABLES
  handler,  \* of each request: "none", "serving", "answered" or "cut"
  mainPc,   \* "running", "draining" (srv.Stop), "closing" (the deferred calls)
            \* or "exited"
  graceful  \* history: the servers stopped because no request was left

mainVars == <<handler, mainPc, graceful>>
gwVars   == <<vars, mainVars>>

LoggerOnly == UNCHANGED mainVars
MainOnly   == UNCHANGED vars

-----------------------------------------------------------------------------
(* Requests.  Their routing is that of RequestLifecycle.                   *)

Arrive(r) ==
  /\ mainPc = "running" /\ handler[r] = "none"
  /\ handler' = [handler EXCEPT ![r] = "serving"]
  /\ UNCHANGED <<mainPc, graceful>>
  /\ MainOnly

\* The handler returns, having started go auditFunc(...).
Answer(r) ==
  /\ mainPc # "exited" /\ handler[r] = "serving"
  /\ handler' = [handler EXCEPT ![r] = "answered"]
  /\ UNCHANGED <<mainPc, graceful>>
  /\ MainOnly

AuditStep(r) ==
  /\ handler[r] = "answered"
  /\ Call(r)
  /\ LoggerOnly

-----------------------------------------------------------------------------
(* main after <-quit.                                                      *)

Signal ==
  /\ mainPc = "running"
  /\ mainPc' = "draining"
  /\ UNCHANGED <<handler, graceful>>
  /\ MainOnly

\* Shutdown returns nil: no connection is busy.
Drained ==
  /\ mainPc = "draining" /\ \A r \in Records : handler[r] # "serving"
  /\ mainPc' = "closing"
  /\ graceful' = TRUE
  /\ UNCHANGED handler
  /\ MainOnly

\* Mutant: Shutdown is given a context without a deadline.
GraceUnlimited == FALSE /\ UNCHANGED gwVars

\* The five seconds are over; the requests go on.
GraceOver ==
  /\ mainPc = "draining" /\ \E r \in Records : handler[r] = "serving"
  /\ mainPc' = "closing"
  /\ UNCHANGED <<handler, graceful>>
  /\ MainOnly

DeferredClose ==
  /\ mainPc = "closing"
  /\ CloseBegin
  /\ LoggerOnly

\* Mutant: main does not wait for Close.
ExitAtOnce ==
  /\ mainPc = "closing" /\ closing
  /\ mainPc' = "exited"
  /\ UNCHANGED <<handler, graceful>>
  /\ MainOnly

\* main returns, and every goroutine ends with it.
Exit ==
  /\ mainPc = "closing" /\ closerPc = "closed"
  /\ mainPc' = "exited"
  /\ UNCHANGED <<handler, graceful>>
  /\ MainOnly

\* The process is started again, after it has exited or died.
StartAgain ==
  /\ Restart
  /\ handler' = [r \in Records |-> IF handler[r] = "none" THEN "none"
                                   ELSE IF pc[r] \in {"gated", "done"} THEN "answered" ELSE "cut"]
  /\ mainPc' = "running" /\ graceful' = FALSE

-----------------------------------------------------------------------------

GatewayInit ==
  /\ Init
  /\ handler = [r \in Records |-> "none"] /\ mainPc = "running" /\ graceful = FALSE

\* The logger's own threads, while there is a process.  Nothing in main calls
\* LogStreamChunk, so no session waits to be flushed or to expire.
LoggerStep ==
  /\ mainPc # "exited"
  /\ \/ \E t \in Threads : WriteLog(t)
     \/ WorkerStep \/ MonitorTick \/ MonitorExit \/ CloserStep \/ UpdateConfig \/ Midnight
  /\ LoggerOnly

GatewayNext ==
  \/ \E r \in Records : Arrive(r) \/ Answer(r) \/ (mainPc # "exited" /\ AuditStep(r))
  \/ Signal \/ Drained \/ GraceOver \/ DeferredClose \/ Exit \/ StartAgain
  \/ LoggerStep

GatewaySpec == GatewayInit /\ [][GatewayNext]_gwVars

Alive(A) == mainPc # "exited" /\ A /\ LoggerOnly

\* Fairness: that of the audit logger, audit goroutines included, while the
\* process lives; and main goes on after the signal, when five seconds are over
\* at the latest.  Nothing says that a request arrives or is ever answered, or
\* that a signal comes.
GatewayFairness ==
  /\ \A r \in Records :
       WF_gwVars(Alive(handler[r] = "answered" /\ Call(r)))
  /\ \A t \in Threads : WF_gwVars(Alive(WriteLog(t)))
  /\ WF_gwVars(Alive(WorkerStep)) /\ WF_gwVars(Alive(MonitorExit))
  /\ WF_gwVars(Alive(CloserStep))
  /\ WF_gwVars(Drained \/ GraceOver) /\ WF_gwVars(DeferredClose) /\ WF_gwVars(Exit)

GatewayFairSpec == GatewaySpec /\ GatewayFairness

-----------------------------------------------------------------------------
(* Properties.                                                             *)

GatewayTypeOK ==
  /\ TypeOK
  /\ handler \in [Records -> {"none", "serving", "answered", "cut"}]
  /\ mainPc \in {"running", "draining", "closing", "exited"} /\ graceful \in BOOLEAN

\* What a Log call took before Close began is in a file when the process ends,
\* however many requests and audit goroutines the end cuts off.
ExitKeeps ==
  mainPc = "exited" =>
    /\ pending = {}
    /\ Cardinality({r \in Durable : pc[r] = "done" /\ ~Stored(r)}) <= openFails + writeFails

\* The durable record of a request that was answered reaches a file if it passes
\* the gate, the process lives on and the file operations succeed.
AnsweredReachesFile ==
  \A r \in Records :
    r \in Durable /\ handler[r] = "answered" ~>
      \/ pc[r] = "gated" \/ Stored(r)
      \/ mainPc = "exited" \/ pc[r] = "lost" \/ handler[r] = "cut"
      \/ openFails + writeFails > 0

\* After a signal the process ends: neither a request that is never answered nor
\* an audit goroutine keeps it.
ShutdownEnds == mainPc = "draining" ~> mainPc \in {"exited", "running"}

\* README: "graceful shutdown drains to disk".  When the servers have stopped with
\* no request left, the durable record of each answered request is in a file
\* when the process ends.
AnsweredIsStored ==
  mainPc = "exited" /\ graceful /\ openFails + writeFails = 0 =>
    \A r \in Durable : handler[r] = "answered" => pc[r] = "gated" \/ Stored(r)

=============================================================================
