----------------------- MODULE RequestLifecycle_proofs -----------------------
(***************************************************************************)
(* Proofs about RequestLifecycle, for any number of requests of any kind.  *)
(*                                                                         *)
(* The safety properties speak of the end of a request: of what the client *)
(* has, and of what was audited.  The invariant says, for each place of    *)
(* the handler, what has been decided and recorded by then; the parts      *)
(* Enforced and Seen do so for requests whose history is free of pardons   *)
(* and of bypass, where the switches still are as the properties need.     *)
(***************************************************************************)
EXTENDS RequestLifecycle, WellFoundedInduction, SequenceTheorems, TLAPS

USE DEF switches, request, history, handlers

\* What is recorded at each place, and what a client's answer implies.
Booked(r) ==
  /\ pc[r] \notin {"audit", "end"} =>
       client[r] = "nothing" /\ r \notin audited /\ r \notin ended
  /\ pc[r] \in {"connect", "events"} => kind[r].stream
  /\ pc[r] = "decide" => kind[r].ask # "none" /\ "ask" \in results[r]
  /\ pc[r] = "verdict" => "reply" \in results[r]
  /\ client[r] \in {"denied", "cut"} => action[r] = "BLOCK" /\ results[r] # {}
  /\ client[r] \in {"full", "cut"} /\ kind[r].stream => r \in ended

\* While blocking is in force, what is banned gets no further than its scan.
Enforced(r) ==
  r \notin sawPardon =>
    /\ InFlight(r) => ~PardonNow(r) /\ policy[r] # "force_audit"
    /\ pc[r] \in {"connect", "events"} => policy[r] = "force_block" \/ ~captured[r]
    /\ pc[r] = "route" \/ Forwarded(r) => kind[r].ask # "BLOCK"
    /\ pc[r] = "release" /\ Scanned(r) => kind[r].reply # "BLOCK"
    /\ client[r] = "full" /\ Scanned(r) => kind[r].reply # "BLOCK"

\* While bypass is off, each scan is made and leaves its record.
AskSeen(r) == kind[r].ask # "none" => "ask" \in results[r]
ReplySeen(r) == Scanned(r) /\ ReplyHitKept(r) => "reply" \in results[r]

Seen(r) ==
  r \notin sawBypass =>
    /\ InFlight(r) => ~bypass
    /\ pc[r] \notin {"new", "scan", "end"} \/ r \in audited => AskSeen(r)
    /\ pc[r] = "release" \/ ReplySettled(r) => ReplySeen(r)

RequestInv(r) == Booked(r) /\ Enforced(r) /\ Seen(r)

Inv == TypeOK /\ \A r \in Requests : RequestInv(r)

-----------------------------------------------------------------------------
(* Types.                                                                  *)

\* The first of some places is one of them, and 1 if 1 is.
LEMMA FirstPlace ==
  ASSUME NEW n \in Nat, NEW S \in SUBSET (1..n), S # {},
         NEW f, f = CHOOSE i \in S : \A j \in S : i <= j
  PROVE  f \in S /\ f \in 1..n /\ (1 \in S => f = 1)
<1> DEFINE R == OpToRel(<, Nat)
<1>1. IsWellFoundedOn(R, Nat)
  BY NatLessThanWellFounded
<1>2. S \subseteq Nat
  OBVIOUS
<1>3. \A a, b \in Nat : a < b => <<a, b>> \in R
  BY DEF OpToRel
<1> HIDE DEF R
<1>4. PICK m \in S : \A j \in S : <<j, m>> \notin R
  BY <1>1, <1>2, WFMin, Zenon
<1>5. \A j \in S : ~(j < m)
  BY <1>2, <1>3, <1>4, Zenon
<1>6. ASSUME NEW j \in S PROVE m <= j
  <2>1. j \in Nat /\ m \in Nat /\ ~(j < m)
    BY <1>2, <1>5, Zenon
  <2>2. QED
    BY <2>1
<1>7. f \in S /\ \A j \in S : f <= j
  BY <1>6, Zenon
<1>8. f \in 1..n
  BY <1>7
<1>9. QED
  BY <1>7, <1>8

\* extractExecutionPolicy answers a mode, and force_audit only for a pardon.
LEMMA PolicyMode ==
  ASSUME TypeOK, NEW r \in Requests
  PROVE  /\ ExtractPolicy(r) \in Modes
         /\ ExtractPolicy(r) = "force_audit" => PardonOnArrival(r)
<1>0. PICK h : h = kind[r].headers
  OBVIOUS
<1>1. h \in Seq(Modes \ {""}) /\ kind[r].export \in BOOLEAN
  BY <1>0 DEF TypeOK, Kind
<1>2. PICK n \in Nat : n = Len(h)
  BY <1>1, LenProperties
<1>3. \A i \in 1..n : h[i] \in {"force_block", "force_audit"}
  BY <1>1, <1>2, ElementOfSeq DEF Modes
<1>4. PICK S : S = Honoured(r)
  OBVIOUS
<1>5. S = {i \in 1..n : h[i] = "force_block" \/ kind[r].export}
  BY <1>0, <1>2, <1>4 DEF Honoured
<1>6. CASE S = {}
  <2>1. FirstMode(r, Honoured(r)) = ""
    BY <1>4, <1>6 DEF FirstMode
  <2>2. QED
    BY <2>1 DEF ExtractPolicy, PardonOnArrival, TypeOK, Modes
<1>7. CASE S # {}
  <2>1. PICK f : f = CHOOSE i \in S : \A j \in S : i <= j
    OBVIOUS
  <2>2. S \in SUBSET (1..n)
    BY <1>5
  <2>3. f \in S /\ f \in 1..n /\ (1 \in S => f = 1)
    BY <1>7, <2>1, <2>2, FirstPlace
  <2>4. FirstMode(r, Honoured(r)) = h[f]
    BY <1>0, <1>4, <1>7, <2>1 DEF FirstMode
  <2>5. h[f] \in Modes
    BY <1>3, <2>3 DEF Modes
  <2>6. ASSUME h[f] = "force_audit"
        PROVE  kind[r].export /\ h # <<>> /\ h[1] = "force_audit"
    <3>1. kind[r].export
      BY <1>5, <2>3, <2>6
    <3>2. 1 \in 1..n
      BY <2>3
    <3>3. 1 \in S
      BY <1>5, <3>1, <3>2
    <3>4. f = 1
      BY <2>3, <3>3
    <3>5. h # <<>>
      <4>1. Len(h) = n /\ n # 0
        BY <1>2, <3>2
      <4>2. QED
        BY <4>1, EmptySeq, Zenon
    <3>6. h[1] = "force_audit"
      BY <2>6, <3>4, Zenon
    <3>7. QED
      BY <3>1, <3>5, <3>6, Zenon
  <2>7. QED
    BY <1>0, <2>4, <2>5, <2>6 DEF ExtractPolicy, PardonOnArrival, TypeOK, Modes
<1>8. QED
  BY <1>6, <1>7

LEMMA TypesInit == Init => TypeOK
<1> SUFFICES ASSUME Init PROVE TypeOK
  OBVIOUS
<1>1. kind \in [Requests -> Kind]
  BY KindsShape DEF Init
<1>2. QED
  BY <1>1 DEF Init, TypeOK, Pc, Modes, Actions

LEMMA TypesStep == Inv /\ [Next]_vars => TypeOK'
<1> SUFFICES ASSUME Inv, [Next]_vars PROVE TypeOK'
  OBVIOUS
<1>0. TypeOK
  BY DEF Inv
<1> USE DEF TypeOK, Goto, Answer, Remember
<1>1. ASSUME NEW r \in Requests, Arrive(r) PROVE TypeOK'
  <2>1. ExtractPolicy(r) \in Modes
    BY <1>0, PolicyMode
  <2>2. QED
    BY <1>0, <1>1, <2>1 DEF Arrive, Pc
<1>2. ASSUME NEW r \in Requests, RefuseBody(r) PROVE TypeOK'
  BY <1>0, <1>2 DEF RefuseBody, Pc
<1>3. ASSUME NEW r \in Requests, ScanRequest(r) PROVE TypeOK'
  <2>1. results' \in [Requests -> SUBSET {"ask", "reply"}]
    BY <1>0, <1>3 DEF ScanRequest, Record
  <2>2. action' \in [Requests -> Actions]
    BY <1>0, <1>3 DEF ScanRequest, SetAction, Actions
  <2>3. pc' \in [Requests -> Pc]
    BY <1>0, <1>3 DEF ScanRequest, Pc
  <2>4. QED
    BY <1>0, <1>3, <2>1, <2>2, <2>3 DEF ScanRequest
<1>4. ASSUME NEW r \in Requests, BlockRequest(r) PROVE TypeOK'
  BY <1>0, <1>4 DEF BlockRequest, SetAction, Pc, Actions
<1>5. ASSUME NEW r \in Requests, PassRequest(r) PROVE TypeOK'
  <2>1. kind[r].ask \in Actions
    BY <1>5 DEF Inv, RequestInv, Booked, PassRequest, Kind, Verdicts, Actions
  <2>2. action' \in [Requests -> Actions]
    BY <1>0, <1>5, <2>1 DEF PassRequest, SetAction
  <2>3. pc' \in [Requests -> Pc]
    BY <1>0, <1>5 DEF PassRequest, Pc
  <2>4. QED
    BY <1>0, <1>5, <2>2, <2>3 DEF PassRequest
<1>6. ASSUME NEW r \in Requests, Audit(r) PROVE TypeOK'
  BY <1>0, <1>6 DEF Audit, Pc
<1>7. ASSUME NEW r \in Requests, PassNormal(r) PROVE TypeOK'
  BY <1>0, <1>7 DEF PassNormal, Complete, Pc
<1>8. ASSUME NEW r \in Requests, BufferNormal(r) PROVE TypeOK'
  BY <1>0, <1>8 DEF BufferNormal, Pc
<1>9. ASSUME NEW r \in Requests, Buffered(r) PROVE TypeOK'
  BY <1>0, <1>9 DEF Buffered, Pc
<1>10. ASSUME NEW r \in Requests, FailNormal(r) PROVE TypeOK'
  BY <1>0, <1>10 DEF FailNormal, Complete, Pc
<1>11. ASSUME NEW r \in Requests, AbortNormal(r) PROVE TypeOK'
  BY <1>0, <1>11 DEF AbortNormal, Pc
<1>12. ASSUME NEW r \in Requests, CheckReply(r) PROVE TypeOK'
  BY <1>0, <1>12 DEF CheckReply, Record, Pc
<1>13. ASSUME NEW r \in Requests, BlockReply(r) PROVE TypeOK'
  BY <1>0, <1>13 DEF BlockReply, SetAction, Complete, Pc, Actions
<1>14. ASSUME NEW r \in Requests, PassReply(r) PROVE TypeOK'
  BY <1>0, <1>14 DEF PassReply, Pc
<1>15. ASSUME NEW r \in Requests, Release(r) PROVE TypeOK'
  BY <1>0, <1>15 DEF Release, Complete, Pc
<1>16. ASSUME NEW r \in Requests, OpenStream(r) PROVE TypeOK'
  BY <1>0, <1>16 DEF OpenStream, Pc
<1>17. ASSUME NEW r \in Requests, FailStream(r) PROVE TypeOK'
  BY <1>0, <1>17 DEF FailStream, Pc
<1>18. ASSUME NEW r \in Requests, PassStream(r) PROVE TypeOK'
  BY <1>0, <1>18 DEF PassStream, Complete, Pc
<1>19. ASSUME NEW r \in Requests, ScanStream(r) PROVE TypeOK'
  BY <1>0, <1>19 DEF ScanStream, Complete, Pc
<1>20. ASSUME NEW r \in Requests, CutStream(r) PROVE TypeOK'
  BY <1>0, <1>20 DEF CutStream, Record, SetAction, Complete, Pc, Actions
<1>21. ASSUME NEW r \in Requests, EndStream(r) PROVE TypeOK'
  BY <1>0, <1>21 DEF EndStream, Record, Complete, Pc
<1>22. CASE SetBypassMode
  BY <1>0, <1>22 DEF SetBypassMode
<1>23. CASE SetActivePolicy
  BY <1>0, <1>23 DEF SetActivePolicy
<1>24. CASE UpdateConfig
  BY <1>0, <1>24 DEF UpdateConfig
<1>25. CASE UNCHANGED vars
  BY <1>0, <1>25 DEF vars
<1>26. QED
  BY <1>1, <1>2, <1>3, <1>4, <1>5, <1>6, <1>7, <1>8, <1>9, <1>10, <1>11, <1>12, <1>13, <1>14, <1>15, <1>16, <1>17, <1>18, <1>19, <1>20, <1>21, <1>22, <1>23, <1>24, <1>25
  DEF Next, Handler

-----------------------------------------------------------------------------
(* What a step adds to the history, and the requests it leaves alone.      *)

LEMMA History ==
  ASSUME Remember, NEW r \in Requests
  PROVE  /\ r \notin sawPardon' =>
              /\ r \notin sawPardon
              /\ InFlight(r)' => ~PardonNow(r)' /\ (pc[r] = "new" => ~PardonOnArrival(r))
         /\ r \notin sawBypass' => r \notin sawBypass /\ (InFlight(r)' => ~bypass')
BY DEF Remember

Same(r) ==
  /\ pc'[r] = pc[r] /\ kind'[r] = kind[r] /\ policy'[r] = policy[r]
  /\ captured'[r] = captured[r] /\ results'[r] = results[r] /\ action'[r] = action[r]
  /\ client'[r] = client[r] /\ (r \in ended' <=> r \in ended)
  /\ (r \in audited' <=> r \in audited)

LEMMA SameKeeps ==
  ASSUME NEW r \in Requests, RequestInv(r), Remember, Same(r)
  PROVE  RequestInv(r)'
<1>1. Booked(r)'
  BY DEF RequestInv, Booked, Same
<1>2. Enforced(r)'
  BY History DEF RequestInv, Enforced, Same, Forwarded, Scanned, InFlight
<1>3. Seen(r)'
  BY History DEF RequestInv, Seen, AskSeen, ReplySeen, ReplySettled, ReplyHitKept, Same, Scanned, InFlight
<1>4. QED
  BY <1>1, <1>2, <1>3 DEF RequestInv

LEMMA OthersSame ==
  ASSUME TypeOK, NEW q \in Requests, Arrive(q) \/ Handler(q), NEW r \in Requests, r # q
  PROVE  Same(r) /\ Remember
<1> USE DEF TypeOK, Same, Goto, Answer
<1>1. CASE Arrive(q)
  BY <1>1 DEF Arrive
<1>2. CASE RefuseBody(q)
  BY <1>2 DEF RefuseBody
<1>3. CASE ScanRequest(q)
  BY <1>3 DEF ScanRequest, Record, SetAction
<1>4. CASE BlockRequest(q)
  BY <1>4 DEF BlockRequest, SetAction
<1>5. CASE PassRequest(q)
  BY <1>5 DEF PassRequest, SetAction
<1>6. CASE Audit(q)
  BY <1>6 DEF Audit
<1>7. CASE PassNormal(q)
  BY <1>7 DEF PassNormal, Complete
<1>8. CASE BufferNormal(q)
  BY <1>8 DEF BufferNormal
<1>9. CASE Buffered(q)
  BY <1>9 DEF Buffered
<1>10. CASE FailNormal(q)
  BY <1>10 DEF FailNormal, Complete
<1>11. CASE AbortNormal(q)
  BY <1>11 DEF AbortNormal
<1>12. CASE CheckReply(q)
  BY <1>12 DEF CheckReply, Record
<1>13. CASE BlockReply(q)
  BY <1>13 DEF BlockReply, SetAction, Complete
<1>14. CASE PassReply(q)
  BY <1>14 DEF PassReply
<1>15. CASE Release(q)
  BY <1>15 DEF Release, Complete
<1>16. CASE OpenStream(q)
  BY <1>16 DEF OpenStream
<1>17. CASE FailStream(q)
  BY <1>17 DEF FailStream
<1>18. CASE PassStream(q)
  BY <1>18 DEF PassStream, Complete
<1>19. CASE ScanStream(q)
  BY <1>19 DEF ScanStream, Complete
<1>20. CASE CutStream(q)
  BY <1>20 DEF CutStream, Record, SetAction, Complete
<1>21. CASE EndStream(q)
  BY <1>21 DEF EndStream, Record, Complete
<1>22. QED
  BY <1>1, <1>2, <1>3, <1>4, <1>5, <1>6, <1>7, <1>8, <1>9, <1>10, <1>11, <1>12, <1>13, <1>14, <1>15, <1>16, <1>17, <1>18, <1>19, <1>20, <1>21
  DEF Handler

-----------------------------------------------------------------------------
(* A step of a request's own handler keeps its invariant.                  *)

LEMMA ArriveKeeps ==
  ASSUME TypeOK, NEW r \in Requests, RequestInv(r), Arrive(r)
  PROVE  RequestInv(r)'
<1>1. pc[r] = "new" /\ pc'[r] = "scan" /\ policy'[r] = ExtractPolicy(r) /\ Remember
      /\ kind'[r] = kind[r] /\ results'[r] = results[r] /\ action'[r] = action[r]
      /\ client'[r] = client[r] /\ ended' = ended /\ audited' = audited
  BY DEF Arrive, Goto, TypeOK
<1>2. policy'[r] = "force_audit" => PardonOnArrival(r)
  BY <1>1, PolicyMode
<1>3. QED
  BY <1>1, <1>2, History
  DEF RequestInv, Booked, Enforced, Seen, AskSeen, ReplySeen, ReplySettled, ReplyHitKept, Forwarded, InFlight, Scanned

LEMMA HandlerKeeps ==
  ASSUME TypeOK, NEW r \in Requests, RequestInv(r), Handler(r)
  PROVE  RequestInv(r)'
<1> USE DEF Goto, Answer
<1>0. Remember
  BY
  DEF Handler, RefuseBody, ScanRequest, BlockRequest, PassRequest, Audit, PassNormal,
      BufferNormal, Buffered, FailNormal, AbortNormal, CheckReply, BlockReply,
      PassReply, Release, OpenStream, FailStream, PassStream, ScanStream, CutStream,
      EndStream
<1>1. CASE RefuseBody(r)
  <2>1. Booked(r)'
    BY <1>1 DEF RefuseBody, TypeOK, RequestInv, Booked
  <2>2. Enforced(r)'
    BY <1>0, <1>1, History
    DEF RefuseBody, TypeOK, RequestInv, Booked, Enforced, PardonNow, Forwarded,
        InFlight, Scanned
  <2>3. Seen(r)'
    BY <1>0, <1>1, History
    DEF RefuseBody, TypeOK, RequestInv, Booked, Seen, AskSeen, ReplySeen, ReplySettled, ReplyHitKept, InFlight,
        Scanned
  <2>4. QED
    BY <2>1, <2>2, <2>3 DEF RequestInv
<1>2. CASE ScanRequest(r)
  <2>1. Booked(r)'
    BY <1>2 DEF ScanRequest, Record, SetAction, TypeOK, RequestInv, Booked
  <2>2. Enforced(r)'
    BY <1>0, <1>2, History
    DEF ScanRequest, Record, SetAction, TypeOK, RequestInv, Booked, Enforced,
        PardonNow, Forwarded, InFlight, Scanned
  <2>3. Seen(r)'
    BY <1>0, <1>2, History
    DEF ScanRequest, Record, SetAction, TypeOK, RequestInv, Booked, Seen, AskSeen,
        ReplySeen, ReplySettled, ReplyHitKept, InFlight, Scanned
  <2>4. QED
    BY <2>1, <2>2, <2>3 DEF RequestInv
<1>3. CASE BlockRequest(r)
  <2>1. Booked(r)'
    BY <1>3 DEF BlockRequest, SetAction, ShouldBlock, TypeOK, RequestInv, Booked
  <2>2. Enforced(r)'
    BY <1>0, <1>3, History
    DEF BlockRequest, SetAction, ShouldBlock, TypeOK, RequestInv, Booked, Enforced,
        PardonNow, Forwarded, InFlight, Scanned
  <2>3. Seen(r)'
    BY <1>0, <1>3, History
    DEF BlockRequest, SetAction, ShouldBlock, TypeOK, RequestInv, Booked, Seen,
        AskSeen, ReplySeen, ReplySettled, ReplyHitKept, InFlight, Scanned
  <2>4. QED
    BY <2>1, <2>2, <2>3 DEF RequestInv
<1>4. CASE PassRequest(r)
  <2>1. Booked(r)'
    BY <1>4 DEF PassRequest, SetAction, ShouldBlock, TypeOK, RequestInv, Booked
  <2>2. Enforced(r)'
    BY <1>0, <1>4, History
    DEF PassRequest, SetAction, ShouldBlock, TypeOK, RequestInv, Booked, Enforced,
        PardonNow, Forwarded, InFlight, Scanned
  <2>3. Seen(r)'
    BY <1>0, <1>4, History
    DEF PassRequest, SetAction, ShouldBlock, TypeOK, RequestInv, Booked, Seen,
        AskSeen, ReplySeen, ReplySettled, ReplyHitKept, InFlight, Scanned
  <2>4. QED
    BY <2>1, <2>2, <2>3 DEF RequestInv
<1>5. CASE Audit(r)
  <2>1. Booked(r)'
    BY <1>5 DEF Audit, TypeOK, RequestInv, Booked
  <2>2. Enforced(r)'
    BY <1>0, <1>5, History
    DEF Audit, TypeOK, RequestInv, Booked, Enforced, PardonNow, Forwarded, InFlight,
        Scanned
  <2>3. Seen(r)'
    BY <1>0, <1>5, History
    DEF Audit, TypeOK, RequestInv, Booked, Seen, AskSeen, ReplySeen, ReplySettled, ReplyHitKept, InFlight, Scanned
  <2>4. QED
    BY <2>1, <2>2, <2>3 DEF RequestInv
<1>6. CASE PassNormal(r)
  <2>1. Booked(r)'
    BY <1>6 DEF PassNormal, Complete, TypeOK, RequestInv, Booked
  <2>2. Enforced(r)'
    BY <1>0, <1>6, History
    DEF PassNormal, Complete, TypeOK, RequestInv, Booked, Enforced, PardonNow,
        Forwarded, InFlight, Scanned
  <2>3. Seen(r)'
    BY <1>0, <1>6, History
    DEF PassNormal, Complete, TypeOK, RequestInv, Booked, Seen, AskSeen, ReplySeen, ReplySettled, ReplyHitKept,
        InFlight, Scanned
  <2>4. QED
    BY <2>1, <2>2, <2>3 DEF RequestInv
<1>7. CASE BufferNormal(r)
  <2>1. Booked(r)'
    BY <1>7 DEF BufferNormal, TypeOK, RequestInv, Booked
  <2>2. Enforced(r)'
    BY <1>0, <1>7, History
    DEF BufferNormal, TypeOK, RequestInv, Booked, Enforced, PardonNow, Forwarded,
        InFlight, Scanned
  <2>3. Seen(r)'
    BY <1>0, <1>7, History
    DEF BufferNormal, TypeOK, RequestInv, Booked, Seen, AskSeen, ReplySeen, ReplySettled, ReplyHitKept, InFlight,
        Scanned
  <2>4. QED
    BY <2>1, <2>2, <2>3 DEF RequestInv
<1>8. CASE Buffered(r)
  <2>1. Booked(r)'
    BY <1>8 DEF Buffered, TypeOK, RequestInv, Booked
  <2>2. Enforced(r)'
    BY <1>0, <1>8, History
    DEF Buffered, TypeOK, RequestInv, Booked, Enforced, PardonNow, Forwarded,
        InFlight, Scanned
  <2>3. Seen(r)'
    BY <1>0, <1>8, History
    DEF Buffered, TypeOK, RequestInv, Booked, Seen, AskSeen, ReplySeen, ReplySettled, ReplyHitKept, InFlight,
        Scanned
  <2>4. QED
    BY <2>1, <2>2, <2>3 DEF RequestInv
<1>9. CASE FailNormal(r)
  <2>1. Booked(r)'
    BY <1>9 DEF FailNormal, Complete, TypeOK, RequestInv, Booked
  <2>2. Enforced(r)'
    BY <1>0, <1>9, History
    DEF FailNormal, Complete, TypeOK, RequestInv, Booked, Enforced, PardonNow,
        Forwarded, InFlight, Scanned
  <2>3. Seen(r)'
    BY <1>0, <1>9, History
    DEF FailNormal, Complete, TypeOK, RequestInv, Booked, Seen, AskSeen, ReplySeen, ReplySettled, ReplyHitKept,
        InFlight, Scanned
  <2>4. QED
    BY <2>1, <2>2, <2>3 DEF RequestInv
<1>10. CASE AbortNormal(r)
  <2>1. Booked(r)'
    BY <1>10 DEF AbortNormal, TypeOK, RequestInv, Booked
  <2>2. Enforced(r)'
    BY <1>0, <1>10, History
    DEF AbortNormal, TypeOK, RequestInv, Booked, Enforced, PardonNow, Forwarded,
        InFlight, Scanned
  <2>3. Seen(r)'
    BY <1>0, <1>10, History
    DEF AbortNormal, TypeOK, RequestInv, Booked, Seen, AskSeen, ReplySeen, ReplySettled, ReplyHitKept, InFlight,
        Scanned
  <2>4. QED
    BY <2>1, <2>2, <2>3 DEF RequestInv
<1>11. CASE CheckReply(r)
  <2>1. Booked(r)'
    BY <1>11 DEF CheckReply, Record, TypeOK, RequestInv, Booked
  <2>2. Enforced(r)'
    BY <1>0, <1>11, History
    DEF CheckReply, Record, TypeOK, RequestInv, Booked, Enforced, PardonNow,
        Forwarded, InFlight, Scanned
  <2>3. Seen(r)'
    BY <1>0, <1>11, History
    DEF CheckReply, Record, TypeOK, RequestInv, Booked, Seen, AskSeen, ReplySeen, ReplySettled, ReplyHitKept,
        InFlight, Scanned
  <2>4. QED
    BY <2>1, <2>2, <2>3 DEF RequestInv
<1>12. CASE BlockReply(r)
  <2>1. Booked(r)'
    BY <1>12 DEF BlockReply, SetAction, ShouldBlock, Complete, TypeOK, RequestInv, Booked
  <2>2. Enforced(r)'
    BY <1>0, <1>12, History
    DEF BlockReply, SetAction, ShouldBlock, Complete, TypeOK, RequestInv, Booked,
        Enforced, PardonNow, Forwarded, InFlight, Scanned
  <2>3. Seen(r)'
    BY <1>0, <1>12, History
    DEF BlockReply, SetAction, ShouldBlock, Complete, TypeOK, RequestInv, Booked,
        Seen, AskSeen, ReplySeen, ReplySettled, ReplyHitKept, InFlight, Scanned
  <2>4. QED
    BY <2>1, <2>2, <2>3 DEF RequestInv
<1>13. CASE PassReply(r)
  <2>1. Booked(r)'
    BY <1>13 DEF PassReply, ShouldBlock, TypeOK, RequestInv, Booked
  <2>2. Enforced(r)'
    BY <1>0, <1>13, History
    DEF PassReply, ShouldBlock, TypeOK, RequestInv, Booked, Enforced, PardonNow,
        Forwarded, InFlight, Scanned
  <2>3. Seen(r)'
    BY <1>0, <1>13, History
    DEF PassReply, ShouldBlock, TypeOK, RequestInv, Booked, Seen, AskSeen, ReplySeen, ReplySettled, ReplyHitKept,
        InFlight, Scanned
  <2>4. QED
    BY <2>1, <2>2, <2>3 DEF RequestInv
<1>14. CASE Release(r)
  <2>1. Booked(r)'
    BY <1>14 DEF Release, Complete, TypeOK, RequestInv, Booked
  <2>2. Enforced(r)'
    BY <1>0, <1>14, History
    DEF Release, Complete, TypeOK, RequestInv, Booked, Enforced, PardonNow, Forwarded,
        InFlight, Scanned
  <2>3. Seen(r)'
    BY <1>0, <1>14, History
    DEF Release, Complete, TypeOK, RequestInv, Booked, Seen, AskSeen, ReplySeen, ReplySettled, ReplyHitKept,
        InFlight, Scanned
  <2>4. QED
    BY <2>1, <2>2, <2>3 DEF RequestInv
<1>15. CASE OpenStream(r)
  <2>1. Booked(r)'
    BY <1>15 DEF OpenStream, TypeOK, RequestInv, Booked
  <2>2. Enforced(r)'
    BY <1>0, <1>15, History
    DEF OpenStream, TypeOK, RequestInv, Booked, Enforced, PardonNow, Forwarded,
        InFlight, Scanned
  <2>3. Seen(r)'
    BY <1>0, <1>15, History
    DEF OpenStream, TypeOK, RequestInv, Booked, Seen, AskSeen, ReplySeen, ReplySettled, ReplyHitKept, InFlight,
        Scanned
  <2>4. QED
    BY <2>1, <2>2, <2>3 DEF RequestInv
<1>16. CASE FailStream(r)
  <2>1. Booked(r)'
    BY <1>16 DEF FailStream, TypeOK, RequestInv, Booked
  <2>2. Enforced(r)'
    BY <1>0, <1>16, History
    DEF FailStream, TypeOK, RequestInv, Booked, Enforced, PardonNow, Forwarded,
        InFlight, Scanned
  <2>3. Seen(r)'
    BY <1>0, <1>16, History
    DEF FailStream, TypeOK, RequestInv, Booked, Seen, AskSeen, ReplySeen, ReplySettled, ReplyHitKept, InFlight,
        Scanned
  <2>4. QED
    BY <2>1, <2>2, <2>3 DEF RequestInv
<1>17. CASE PassStream(r)
  <2>1. Booked(r)'
    BY <1>17 DEF PassStream, Complete, TypeOK, RequestInv, Booked
  <2>2. Enforced(r)'
    BY <1>0, <1>17, History
    DEF PassStream, Complete, TypeOK, RequestInv, Booked, Enforced, PardonNow,
        Forwarded, InFlight, Scanned
  <2>3. Seen(r)'
    BY <1>0, <1>17, History
    DEF PassStream, Complete, TypeOK, RequestInv, Booked, Seen, AskSeen, ReplySeen, ReplySettled, ReplyHitKept,
        InFlight, Scanned
  <2>4. QED
    BY <2>1, <2>2, <2>3 DEF RequestInv
<1>18. CASE ScanStream(r)
  <2>1. Booked(r)'
    BY <1>18 DEF ScanStream, Complete, TypeOK, RequestInv, Booked
  <2>2. Enforced(r)'
    BY <1>0, <1>18, History
    DEF ScanStream, Complete, TypeOK, RequestInv, Booked, Enforced, PardonNow,
        Forwarded, InFlight, Scanned
  <2>3. Seen(r)'
    BY <1>0, <1>18, History
    DEF ScanStream, Complete, TypeOK, RequestInv, Booked, Seen, AskSeen, ReplySeen, ReplySettled, ReplyHitKept,
        InFlight, Scanned
  <2>4. QED
    BY <2>1, <2>2, <2>3 DEF RequestInv
<1>19. CASE CutStream(r)
  <2>1. Booked(r)'
    BY <1>19
    DEF CutStream, Record, SetAction, ShouldBlock, Complete, TypeOK, RequestInv,
        Booked
  <2>2. Enforced(r)'
    BY <1>0, <1>19, History
    DEF CutStream, Record, SetAction, ShouldBlock, Complete, TypeOK, RequestInv,
        Booked, Enforced, PardonNow, Forwarded, InFlight, Scanned
  <2>3. Seen(r)'
    BY <1>0, <1>19, History
    DEF CutStream, Record, SetAction, ShouldBlock, Complete, TypeOK, RequestInv,
        Booked, Seen, AskSeen, ReplySeen, ReplySettled, ReplyHitKept, InFlight, Scanned
  <2>4. QED
    BY <2>1, <2>2, <2>3 DEF RequestInv
<1>20. CASE EndStream(r)
  <2>1. Booked(r)'
    BY <1>20 DEF EndStream, Record, ShouldBlock, Complete, TypeOK, RequestInv, Booked
  <2>2. Enforced(r)'
    BY <1>0, <1>20, History
    DEF EndStream, Record, ShouldBlock, Complete, TypeOK, RequestInv, Booked,
        Enforced, PardonNow, Forwarded, InFlight, Scanned
  <2>3. Seen(r)'
    BY <1>0, <1>20, History
    DEF EndStream, Record, ShouldBlock, Complete, TypeOK, RequestInv, Booked, Seen,
        AskSeen, ReplySeen, ReplySettled, ReplyHitKept, InFlight, Scanned
  <2>4. QED
    BY <2>1, <2>2, <2>3 DEF RequestInv
<1>21. QED
  BY <1>1, <1>2, <1>3, <1>4, <1>5, <1>6, <1>7, <1>8, <1>9, <1>10, <1>11, <1>12, <1>13, <1>14, <1>15, <1>16, <1>17, <1>18, <1>19, <1>20
  DEF Handler

-----------------------------------------------------------------------------

LEMMA InvInit == Init => Inv
<1> SUFFICES ASSUME Init, NEW r \in Requests PROVE RequestInv(r)
  BY TypesInit DEF Inv
<1>1. QED
  BY DEF Init, RequestInv, Booked, Enforced, Seen, AskSeen, ReplySeen, ReplySettled, ReplyHitKept, Forwarded, InFlight

LEMMA InvStep == Inv /\ [Next]_vars => Inv'
<1> SUFFICES ASSUME Inv, [Next]_vars, NEW r \in Requests PROVE RequestInv(r)'
  BY TypesStep DEF Inv
<1>1. TypeOK /\ RequestInv(r)
  BY DEF Inv
<1>2. ASSUME NEW q \in Requests, Arrive(q) \/ Handler(q) PROVE RequestInv(r)'
  <2>1. CASE r # q
    BY <1>1, <1>2, <2>1, OthersSame, SameKeeps
  <2>2. CASE r = q
    BY <1>1, <1>2, <2>2, ArriveKeeps, HandlerKeeps
  <2>3. QED
    BY <2>1, <2>2
<1>3. CASE SetBypassMode \/ SetActivePolicy \/ UpdateConfig
  <2>1. Remember /\ Same(r)
    BY <1>3 DEF SetBypassMode, SetActivePolicy, UpdateConfig, Same
  <2>2. QED
    BY <1>1, <2>1, SameKeeps
<1>4. CASE UNCHANGED vars
  BY <1>1, <1>4
  DEF vars, RequestInv, Booked, Enforced, Seen, AskSeen, ReplySeen, ReplySettled, ReplyHitKept, PardonNow, Forwarded, InFlight, Scanned
<1>5. QED
  BY <1>2, <1>3, <1>4 DEF Next

LEMMA Invariance == Spec => []Inv
<1>1. QED
  BY InvInit, InvStep, PTL DEF Spec

\* Every variable keeps its type: the mode is one shouldBlock knows.
THEOREM TypeCorrect == Spec => []TypeOK
<1>1. Inv => TypeOK
  BY DEF Inv
<1>2. QED
  BY <1>1, Invariance, PTL

\* However bypass, the active policy, audit-only mode and client headers are
\* combined, what is banned passes only with an administrator's or the server's
\* pardon (ServeHTTP, handleNormal, handleStream).
THEOREM NothingBannedGetsThrough == Spec => []NothingBannedPasses
<1>1. Inv => NothingBannedPasses
  BY DEF Inv, RequestInv, Enforced, NothingBannedPasses
<1>2. QED
  BY <1>1, Invariance, PTL

\* The audited record of a denied or cut request says BLOCK and names a hit.
THEOREM DenialsRecorded == Spec => []DeniedIsRecorded
<1>1. Inv => DeniedIsRecorded
  BY DEF Inv, RequestInv, Booked, DeniedIsRecorded, TypeOK
<1>2. QED
  BY <1>1, Invariance, PTL

\* While bypass is off, the hit of a request and the hit of its answer are in
\* the audited record, blocked or let pass; of a stream those of rules that say
\* BLOCK, flushBuffered looks at no others (ServeHTTP, checkAndBlockResponse,
\* handleStream).
THEOREM HitsRecorded == Spec => []HitsAreRecorded
<1>1. Inv => HitsAreRecorded
  BY DEF Inv, RequestInv, Seen, AskSeen, ReplySeen, ReplySettled, ReplyHitKept, HitsAreRecorded, TypeOK
<1>2. QED
  BY <1>1, Invariance, PTL

\* A stream whose answer the client got has an end time when it is audited.
THEOREM AnswersKept == Spec => []AnswerIsKept
<1>1. Inv => AnswerIsKept
  BY DEF Inv, RequestInv, Booked, AnswerIsKept, TypeOK
<1>2. QED
  BY <1>1, Invariance, PTL

=============================================================================
