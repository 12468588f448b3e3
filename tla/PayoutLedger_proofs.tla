------------------------- MODULE PayoutLedger_proofs -------------------------
(***************************************************************************)
(* PayoutQueue implements PayoutLedger: whatever handlers, workers, node   *)
(* and restarts do, a client sees a step of the ledger or nothing.         *)
(***************************************************************************)
EXTENDS PayoutQueue_proofs

USE NoneAssumption, AdminAssumption, BufferAssumption, PointsAssumption, FaultAssumption

(***************************************************************************)
(* What the ledger sees of a request.                                      *)
(***************************************************************************)

(* The refinement mapping.                                                 *)
answerMap   == [r \in Requests |-> AnswerOf(r)]
statusMap   == [r \in Requests |-> row[r].status]
reportedMap == [r \in Requests |-> row[r].bill]
executedMap == [r \in Requests |-> {chain[AdminOf[r]][i].bill : i \in Executions(r)}]

Executed(r) == IF node[r].state = "committed" THEN {node[r].bill} ELSE {}

(* The node's tickets tell which requests the chain shows.                 *)
ExecutedIsCommitted == executedMap = [r \in Requests |-> Executed(r)]

(* Only a success row reports a contract and points.                       *)
OthersReportNothing ==
    \A r \in Requests : row[r].status # "success" => row[r].bill = NoBill

(* The ledger's executions are the tickets the node has committed.         *)
LEMMA CommittedIsExecuted == TypeOK /\ Lifecycle => ExecutedIsCommitted
<1> SUFFICES ASSUME TypeOK, Lifecycle, NEW r \in Requests
             PROVE  {chain[AdminOf[r]][i].bill : i \in Executions(r)} = Executed(r)
  BY DEF executedMap, ExecutedIsCommitted
<1>1. \A i \in Executions(r) : /\ node[r].state = "committed"
                               /\ chain[AdminOf[r]][i].bill = node[r].bill
  BY DEF Lifecycle, ChainIsNode, Executions
<1>2. node[r].state = "committed" => Executions(r) # {}
  BY DEF Lifecycle, ChainIsNode
<1>3. QED
  BY <1>1, <1>2 DEF Executed

Queue == TypeOK /\ Ownership /\ Lifecycle /\ ExecutedIsCommitted /\ OthersReportNothing

(* A step leaves requests other than r alone.                              *)
Touches(r) ==
    \A x \in Requests \ {r} :
        AnswerOf(x)' = AnswerOf(x) /\ row'[x] = row[x] /\ Executed(x)' = Executed(x)

(* What a step on r does to the ledger.                                    *)
LEMMA MapsOfRequest ==
    ASSUME Queue, Queue', NEW r \in Requests, Touches(r)
    PROVE  /\ answerMap[r] = AnswerOf(r) /\ statusMap[r] = row[r].status
           /\ reportedMap[r] = row[r].bill /\ executedMap[r] = Executed(r)
           /\ answerMap' = [answerMap EXCEPT ![r] = AnswerOf(r)']
           /\ statusMap' = [statusMap EXCEPT ![r] = row'[r].status]
           /\ reportedMap' = [reportedMap EXCEPT ![r] = row'[r].bill]
           /\ executedMap' = [executedMap EXCEPT ![r] = Executed(r)']
           /\ AnswerOf(r)' = AnswerOf(r) => UNCHANGED answerMap
           /\ row'[r].status = row[r].status => UNCHANGED statusMap
           /\ row'[r].bill = row[r].bill => UNCHANGED reportedMap
           /\ Executed(r)' = Executed(r) => UNCHANGED executedMap
<1>1. answerMap' = [answerMap EXCEPT ![r] = AnswerOf(r)']
  BY DEF answerMap, Touches
<1>2. statusMap' = [statusMap EXCEPT ![r] = row'[r].status]
  BY DEF statusMap, Touches
<1>3. reportedMap' = [reportedMap EXCEPT ![r] = row'[r].bill]
  BY DEF reportedMap, Touches
<1>4. executedMap = [x \in Requests |-> Executed(x)]
  BY DEF Queue, ExecutedIsCommitted
<1>5. executedMap' = [x \in Requests |-> Executed(x)']
  BY DEF Queue, ExecutedIsCommitted
<1>6. executedMap' = [executedMap EXCEPT ![r] = Executed(r)']
  BY <1>4, <1>5 DEF Touches
<1>7. /\ answerMap[r] = AnswerOf(r) /\ statusMap[r] = row[r].status
      /\ reportedMap[r] = row[r].bill /\ executedMap[r] = Executed(r)
  BY <1>4 DEF answerMap, statusMap, reportedMap
<1>8. /\ AnswerOf(r)' = AnswerOf(r) => UNCHANGED answerMap
      /\ row'[r].status = row[r].status => UNCHANGED statusMap
      /\ row'[r].bill = row[r].bill => UNCHANGED reportedMap
  BY DEF answerMap, statusMap, reportedMap, Touches
<1>9. Executed(r)' = Executed(r) => UNCHANGED executedMap
  BY <1>4, <1>5 DEF Touches
<1>10. QED
  BY <1>1, <1>2, <1>3, <1>6, <1>7, <1>8, <1>9

LedgerMaps == <<answerMap, statusMap, reportedMap, executedMap>>

(* A step the ledger does not see.                                         *)
LEMMA Unseen ==
    ASSUME Queue, Queue',
           \A r \in Requests :
               AnswerOf(r)' = AnswerOf(r) /\ row'[r] = row[r] /\ Executed(r)' = Executed(r)
    PROVE  UNCHANGED LedgerMaps
<1>1. executedMap = [x \in Requests |-> Executed(x)]
  BY DEF Queue, ExecutedIsCommitted
<1>2. executedMap' = [x \in Requests |-> Executed(x)']
  BY DEF Queue, ExecutedIsCommitted
<1>3. answerMap' = answerMap /\ statusMap' = statusMap /\ reportedMap' = reportedMap
  BY DEF answerMap, statusMap, reportedMap
<1>4. QED
  BY <1>1, <1>2, <1>3 DEF LedgerMaps

(* The actions of the ledger, on the maps.                                 *)
LedgerStep == [\E r \in Requests :
    \/ Ledger!Record(r) \/ Ledger!Accept(r) \/ Ledger!Refuse(r) \/ Ledger!Begin(r)
    \/ Ledger!Succeed(r) \/ Ledger!Fail(r)
    \/ \E b \in Bills : Ledger!Execute(r, b)]_LedgerMaps

(* A step of the ledger on the maps is a step of the specification.        *)
LEMMA StepIsLedgers ==
    LedgerStep => [Ledger!Next]_(Ledger!ledgerVars)
BY DEF LedgerStep, LedgerMaps, answerMap, statusMap, reportedMap, executedMap,
       Ledger!Next, Ledger!ledgerVars

(***************************************************************************)
(* The ledger's actions, in terms of what happens to one request.          *)
(***************************************************************************)

(* A row is inserted.                                                      *)
LEMMA RecordsRow ==
    ASSUME Queue, Queue', NEW r \in Requests, Touches(r),
           AnswerOf(r) = "pending", row[r].status = "none",
           row'[r].status = "queued", row'[r].bill = row[r].bill,
           AnswerOf(r)' = AnswerOf(r), Executed(r)' = Executed(r)
    PROVE  LedgerStep
<1>1. /\ answerMap[r] = "pending" /\ statusMap[r] = "none"
      /\ statusMap' = [statusMap EXCEPT ![r] = "queued"]
      /\ UNCHANGED <<answerMap, reportedMap, executedMap>>
  BY MapsOfRequest
<1>2. Ledger!Record(r)
  BY <1>1, Zenon DEF answerMap, statusMap, reportedMap, executedMap,
     Ledger!Record
<1>3. QED
  BY <1>2 DEF LedgerStep

(* The client is told 202.                                                 *)
LEMMA AcceptsRequest ==
    ASSUME Queue, Queue', NEW r \in Requests, Touches(r),
           AnswerOf(r) = "pending", row[r].status = "queued",
           AnswerOf(r)' = "accepted",
           row'[r] = row[r], Executed(r)' = Executed(r)
    PROVE  LedgerStep
<1>1. /\ answerMap[r] = "pending" /\ statusMap[r] = "queued"
      /\ answerMap' = [answerMap EXCEPT ![r] = "accepted"]
      /\ UNCHANGED <<statusMap, reportedMap, executedMap>>
  BY MapsOfRequest
<1>2. Ledger!Accept(r)
  BY <1>1, Zenon DEF answerMap, statusMap, reportedMap, executedMap,
     Ledger!Accept
<1>3. QED
  BY <1>2 DEF LedgerStep

(* The client is told 400, 500 or 503.                                     *)
LEMMA RefusesRequest ==
    ASSUME Queue, Queue', NEW r \in Requests, Touches(r),
           AnswerOf(r) = "pending", Executed(r) = {},
           AnswerOf(r)' = "refused", row'[r].bill = row[r].bill, Executed(r)' = Executed(r),
           \/ row'[r].status = row[r].status
           \/ row[r].status = "none" /\ row'[r].status = "queued"
           \/ row[r].status = "queued" /\ row'[r].status = "failed"
    PROVE  LedgerStep
<1>1. /\ answerMap[r] = "pending" /\ executedMap[r] = {}
      /\ answerMap' = [answerMap EXCEPT ![r] = "refused"]
      /\ \/ UNCHANGED statusMap
         \/ statusMap[r] = "none" /\ statusMap' = [statusMap EXCEPT ![r] = "queued"]
         \/ statusMap[r] = "queued" /\ statusMap' = [statusMap EXCEPT ![r] = "failed"]
      /\ UNCHANGED <<reportedMap, executedMap>>
  BY MapsOfRequest
<1>2. Ledger!Refuse(r)
  BY <1>1, Zenon DEF answerMap, statusMap, reportedMap, executedMap,
     Ledger!Refuse
<1>3. QED
  BY <1>2 DEF LedgerStep

(* The row says processing.                                                *)
LEMMA BeginsRequest ==
    ASSUME Queue, Queue', NEW r \in Requests, Touches(r),
           AnswerOf(r) = "accepted", row[r].status = "queued",
           row'[r].status = "processing", row'[r].bill = row[r].bill,
           AnswerOf(r)' = AnswerOf(r), Executed(r)' = Executed(r)
    PROVE  LedgerStep
<1>1. /\ answerMap[r] = "accepted" /\ statusMap[r] = "queued"
      /\ statusMap' = [statusMap EXCEPT ![r] = "processing"]
      /\ UNCHANGED <<answerMap, reportedMap, executedMap>>
  BY MapsOfRequest
<1>2. Ledger!Begin(r)
  BY <1>1, Zenon DEF answerMap, statusMap, reportedMap, executedMap,
     Ledger!Begin
<1>3. QED
  BY <1>2 DEF LedgerStep

(* The node commits the request with bill b.                               *)
LEMMA ExecutesRequest ==
    ASSUME Queue, Queue', NEW r \in Requests, Touches(r), NEW b \in Bills,
           AnswerOf(r) = "accepted", row[r].status # "success",
           Executed(r) = {}, Executed(r)' = {b},
           AnswerOf(r)' = AnswerOf(r), row'[r] = row[r]
    PROVE  LedgerStep
<1>1. /\ answerMap[r] = "accepted" /\ statusMap[r] # "success"
      /\ executedMap[r] = {} /\ executedMap' = [executedMap EXCEPT ![r] = {b}]
      /\ UNCHANGED <<answerMap, statusMap, reportedMap>>
  BY MapsOfRequest
<1>2. Ledger!Execute(r, b)
  BY <1>1, Zenon DEF answerMap, statusMap, reportedMap, executedMap,
     Ledger!Execute
<1>3. QED
  BY <1>2 DEF LedgerStep

(* The row says success and what was executed.                             *)
LEMMA SucceedsRequest ==
    ASSUME Queue, Queue', NEW r \in Requests, Touches(r),
           row[r].status \in {"queued", "processing"},
           row'[r].status = "success", row'[r].bill \in Executed(r),
           AnswerOf(r)' = AnswerOf(r), Executed(r)' = Executed(r)
    PROVE  LedgerStep
<1>1. /\ statusMap[r] \in {"queued", "processing"}
      /\ \E b \in executedMap[r] : reportedMap' = [reportedMap EXCEPT ![r] = b]
      /\ statusMap' = [statusMap EXCEPT ![r] = "success"]
      /\ UNCHANGED <<answerMap, executedMap>>
  BY MapsOfRequest
<1>2. Ledger!Succeed(r)
  BY <1>1, Zenon DEF answerMap, statusMap, reportedMap, executedMap,
     Ledger!Succeed, Ledger!Open
<1>3. QED
  BY <1>2 DEF LedgerStep

(* The row of an accepted request says failed.                             *)
LEMMA FailsRequest ==
    ASSUME Queue, Queue', NEW r \in Requests, Touches(r),
           AnswerOf(r) = "accepted", row[r].status \in {"queued", "processing"},
           row'[r].status = "failed", row'[r].bill = row[r].bill,
           AnswerOf(r)' = AnswerOf(r), Executed(r)' = Executed(r)
    PROVE  LedgerStep
<1>1. /\ answerMap[r] = "accepted"
      /\ statusMap[r] \in {"queued", "processing"}
      /\ statusMap' = [statusMap EXCEPT ![r] = "failed"]
      /\ UNCHANGED <<answerMap, reportedMap, executedMap>>
  BY MapsOfRequest
<1>2. Ledger!Fail(r)
  BY <1>1, Zenon DEF answerMap, statusMap, reportedMap, executedMap,
     Ledger!Fail, Ledger!Open
<1>3. QED
  BY <1>2 DEF LedgerStep

(***************************************************************************)
(* Each step of the queue is one of the ledger, or unseen.                 *)
(***************************************************************************)

(* The answer by the handler's stage, before and after a step.             *)
LEMMA Answers ==
    \A r \in Requests :
        /\ AnswerOf(r) = IF pc[r] = "accepted" THEN "accepted"
                         ELSE IF pc[r] \in Refusals THEN "refused" ELSE "pending"
        /\ AnswerOf(r)' = IF pc'[r] = "accepted" THEN "accepted"
                          ELSE IF pc'[r] \in Refusals THEN "refused" ELSE "pending"
BY DEF AnswerOf, Refusals

(* A handler of r writes its own stage and row only.                       *)
LEMMA HandlerWrites ==
    ASSUME TypeOK, NEW r \in Requests, NEW s, NEW w,
           pc' = [pc EXCEPT ![r] = s], row' = [row EXCEPT ![r] = w], UNCHANGED node
    PROVE  /\ Touches(r) /\ Executed(r)' = Executed(r)
           /\ pc'[r] = s /\ row'[r] = w
<1>1. pc'[r] = s /\ row'[r] = w
  BY DEF TypeOK
<1>2. \A x \in Requests \ {r} : pc'[x] = pc[x] /\ row'[x] = row[x]
  BY DEF TypeOK
<1>3. \A x \in Requests : Executed(x)' = Executed(x)
  BY DEF Executed
<1>4. \A x \in Requests \ {r} : AnswerOf(x)' = AnswerOf(x)
  BY <1>2, Answers
<1>5. QED
  BY <1>1, <1>2, <1>3, <1>4 DEF Touches

(* A worker with r in its hands writes the row of r only.                  *)
LEMMA WorkerWrites ==
    ASSUME TypeOK, NEW r \in Requests, NEW w,
           row' = [row EXCEPT ![r] = w], UNCHANGED <<pc, node>>
    PROVE  /\ Touches(r) /\ Executed(r)' = Executed(r)
           /\ AnswerOf(r)' = AnswerOf(r) /\ row'[r] = w
<1>1. row'[r] = w /\ \A x \in Requests \ {r} : row'[x] = row[x]
  BY DEF TypeOK
<1>2. \A x \in Requests : Executed(x)' = Executed(x)
  BY DEF Executed
<1>3. \A x \in Requests : AnswerOf(x)' = AnswerOf(x)
  BY Answers
<1>4. QED
  BY <1>1, <1>2, <1>3 DEF Touches

(* CreateTransferStatus: the row is recorded, or the client is refused,    *)
(* with a row or without.                                                  *)
LEMMA CreateIsLedgers ==
    ASSUME Queue, Queue', NEW r \in Requests, CreateTransferStatus(r)
    PROVE  LedgerStep
<1>1. pc[r] = "insert" /\ row[r].status = "none" /\ node[r].state = "none"
  BY DEF CreateTransferStatus, HandlerGoes, Queue, Lifecycle, RowsOfHandlers
<1>2. row[r].bill = NoBill /\ AnswerOf(r) = "pending" /\ Executed(r) = {}
  BY <1>1, Answers DEF Queue, OthersReportNothing, Executed, Refusals
<1>3. row = [row EXCEPT ![r] = row[r]]
  BY SameValue DEF Queue, TypeOK
<1>4. PICK s \in {"lookup", "error"} : pc' = [pc EXCEPT ![r] = s]
  BY DEF CreateTransferStatus, HandlerGoes
<1>5. PICK w : /\ row' = [row EXCEPT ![r] = w]
               /\ w = [status |-> "queued", bill |-> NoBill] \/ (w = row[r] /\ s = "error")
  <2>1. InsertRow(r) \/ (UNCHANGED row /\ pc' = [pc EXCEPT ![r] = "error"])
    BY DEF CreateTransferStatus, HandlerGoes
  <2>2. UNCHANGED row /\ pc' = [pc EXCEPT ![r] = "error"] => s = "error"
    BY <1>4 DEF Queue, TypeOK
  <2>3. QED
    BY <1>3, <2>1, <2>2 DEF InsertRow
<1>6. /\ Touches(r) /\ Executed(r)' = Executed(r) /\ pc'[r] = s /\ row'[r] = w
  BY <1>4, <1>5, HandlerWrites DEF CreateTransferStatus, Queue, nodeVars
<1>7. w.bill = NoBill /\ (w.status = "queued" \/ (w.status = "none" /\ s = "error"))
  BY <1>1, <1>2, <1>5
<1>8. CASE s = "lookup"
  <2>1. AnswerOf(r)' = AnswerOf(r)
    BY <1>2, <1>6, <1>8, Answers DEF Refusals
  <2>2. QED
    BY <1>1, <1>2, <1>6, <1>7, <1>8, <2>1, RecordsRow
<1>9. CASE s = "error"
  <2>1. AnswerOf(r)' = "refused"
    BY <1>6, <1>9, Answers DEF Refusals
  <2>2. QED
    BY <1>1, <1>2, <1>6, <1>7, <2>1, RefusesRequest
<1>10. QED
  BY <1>8, <1>9

(* MarkQueueFull: the client is refused, and the row failed if it can be.  *)
LEMMA MarkFullIsLedgers ==
    ASSUME Queue, Queue', NEW r \in Requests, MarkQueueFull(r)
    PROVE  LedgerStep
<1>1. pc[r] = "markfull" /\ row[r].status = "queued" /\ node[r].state = "none"
  BY DEF MarkQueueFull, HandlerGoes, Queue, Lifecycle, RowsOfHandlers
<1>2. row[r] \in Rows /\ AnswerOf(r) = "pending" /\ Executed(r) = {}
  BY <1>1, Answers DEF Executed, Refusals, Queue, TypeOK
<1>3. row = [row EXCEPT ![r] = row[r]]
  BY SameValue DEF Queue, TypeOK
<1>4. PICK w : /\ row' = [row EXCEPT ![r] = w]
               /\ w = [row[r] EXCEPT !.status = "failed"] \/ w = row[r]
  BY <1>3 DEF MarkQueueFull
<1>5. /\ Touches(r) /\ Executed(r)' = Executed(r)
      /\ pc'[r] = "unavailable" /\ row'[r] = w
  BY <1>4, HandlerWrites DEF MarkQueueFull, HandlerGoes, Queue, nodeVars
<1>6. w.bill = row[r].bill /\ w.status \in {"queued", "failed"}
  <2>1. CASE w = row[r]
    BY <1>1, <2>1
  <2>2. CASE w = [row[r] EXCEPT !.status = "failed"]
    BY <1>2, <2>2, StatusChanges
  <2>3. QED
    BY <1>4, <2>1, <2>2
<1>7. AnswerOf(r)' = "refused"
  BY <1>5, Answers DEF Refusals
<1>8. QED
  BY <1>1, <1>2, <1>5, <1>6, <1>7, RefusesRequest

(* Enqueue: the client is told 202, or the ledger sees nothing.            *)
LEMMA EnqueueIsLedgers ==
    ASSUME Queue, Queue', NEW r \in Requests, Enqueue(r)
    PROVE  LedgerStep
<1>1. pc[r] = "send" /\ row[r].status = "queued" /\ AnswerOf(r) = "pending"
  BY Answers DEF Enqueue, Queue, Lifecycle, RowsOfHandlers, Refusals
<1>2. row' = [row EXCEPT ![r] = row[r]]
  BY SameValue DEF Enqueue, Queue, TypeOK
<1>3. PICK s \in {"accepted", "markfull"} : pc' = [pc EXCEPT ![r] = s]
  BY DEF Enqueue, HandlerGoes
<1>4. /\ Touches(r) /\ Executed(r)' = Executed(r)
      /\ pc'[r] = s /\ row'[r] = row[r]
  BY <1>2, <1>3, HandlerWrites DEF Enqueue, Queue, nodeVars
<1>5. CASE s = "accepted"
  <2>1. AnswerOf(r)' = "accepted"
    BY <1>4, <1>5, Answers
  <2>2. QED
    BY <1>1, <1>4, <2>1, AcceptsRequest
<1>6. CASE s = "markfull"
  <2>1. AnswerOf(r)' = AnswerOf(r)
    BY <1>1, <1>4, <1>6, Answers DEF Refusals
  <2>2. QED
    BY <1>4, <2>1, Unseen DEF Touches, LedgerStep
<1>7. QED
  BY <1>5, <1>6

(* A handler.                                                              *)
LEMMA HandlerIsLedgers ==
    ASSUME Queue, Queue', NEW r \in Requests, Handler(r)
    PROVE  LedgerStep
<1>1. CASE ValidateTransferReward(r)
  <2>1. pc[r] = "new" /\ node[r].state = "none"
    BY <1>1 DEF ValidateTransferReward, HandlerGoes, Queue, Lifecycle, RowsOfHandlers
  <2>2. AnswerOf(r) = "pending" /\ Executed(r) = {}
    BY <2>1, Answers DEF Executed, Refusals
  <2>3. row' = [row EXCEPT ![r] = row[r]]
    BY <1>1, SameValue DEF ValidateTransferReward, Queue, TypeOK
  <2>4. PICK s \in {"insert", "rejected"} : pc' = [pc EXCEPT ![r] = s]
    BY <1>1 DEF ValidateTransferReward, HandlerGoes
  <2>5. /\ Touches(r) /\ Executed(r)' = Executed(r)
        /\ pc'[r] = s /\ row'[r] = row[r]
    BY <1>1, <2>3, <2>4, HandlerWrites DEF ValidateTransferReward, Queue, nodeVars
  <2>6. AnswerOf(r)' = IF s = "insert" THEN AnswerOf(r) ELSE "refused"
    BY <2>2, <2>4, <2>5, Answers DEF Refusals
  <2>7. CASE s = "insert"
    BY <2>5, <2>6, <2>7, Unseen DEF Touches, LedgerStep
  <2>8. CASE s = "rejected"
    BY <2>2, <2>5, <2>6, <2>8, RefusesRequest
  <2>9. QED
    BY <2>4, <2>7, <2>8
<1>2. CASE LookupQueue(r) \/ CreateQueue(r)
  <2>1. /\ pc[r] \in {"lookup", "create"} /\ UNCHANGED <<row, node>>
        /\ \E s \in {"create", "send"} : pc' = [pc EXCEPT ![r] = s]
    BY <1>2 DEF LookupQueue, CreateQueue, HandlerGoes, nodeVars
  <2>2. row' = [row EXCEPT ![r] = row[r]]
    BY <2>1, SameValue DEF Queue, TypeOK
  <2>3. /\ Touches(r) /\ Executed(r)' = Executed(r)
        /\ pc'[r] \in {"create", "send"} /\ row'[r] = row[r]
    BY <2>1, <2>2, HandlerWrites DEF Queue
  <2>4. AnswerOf(r)' = AnswerOf(r)
    BY <2>1, <2>3, Answers DEF Refusals
  <2>5. QED
    BY <2>3, <2>4, Unseen DEF Touches, LedgerStep
<1>3. QED
  BY <1>1, <1>2, CreateIsLedgers, EnqueueIsLedgers, MarkFullIsLedgers DEF Handler

(* A worker records that its job runs, or how it ended.                    *)
LEMMA RecordingIsLedgers ==
    ASSUME Queue, Queue', NEW q \in Requests,
           MarkProcessing(q) \/ RecordSuccess(q) \/ RecordFailure(q)
    PROVE  LedgerStep
<1>1. Busy(q) /\ UNCHANGED <<pc, node>>
  BY DEF MarkProcessing, RecordSuccess, RecordFailure, WorkerGoes, Busy, JobStages,
         handlerVars, nodeVars
<1>2. PICK r \in Requests : r = job[q] /\ row[r] \in Rows
  BY <1>1 DEF Queue, TypeOK, Ownership, JobsBelong
<1>3. AnswerOf(r) = "accepted" /\ row[r].status \in {"queued", "processing"}
  BY <1>1, <1>2, Answers DEF Queue, Lifecycle, HeldJobs, Open
<1>4. row = [row EXCEPT ![r] = row[r]]
  BY SameValue DEF Queue, TypeOK
<1>5. CASE UNCHANGED row
  <2>1. /\ Touches(r) /\ Executed(r)' = Executed(r)
        /\ AnswerOf(r)' = AnswerOf(r) /\ row'[r] = row[r]
    BY <1>1, <1>2, <1>4, <1>5, WorkerWrites DEF Queue
  <2>2. QED
    BY <2>1, Unseen DEF Touches, LedgerStep
<1>6. CASE MarkProcessing(q) /\ row' # row
  <2>1. row' = [row EXCEPT ![r] = [row[r] EXCEPT !.status = "processing"]]
    BY <1>2, <1>6 DEF MarkProcessing, JobWrites
  <2>2. /\ Touches(r) /\ Executed(r)' = Executed(r) /\ AnswerOf(r)' = AnswerOf(r)
        /\ row'[r] = [row[r] EXCEPT !.status = "processing"]
    BY <1>1, <1>2, <2>1, WorkerWrites DEF Queue
  <2>3. row'[r].status = "processing" /\ row'[r].bill = row[r].bill
    BY <1>2, <2>2, StatusChanges
  <2>4. CASE row[r].status = "queued"
    BY <1>2, <1>3, <2>2, <2>3, <2>4, BeginsRequest
  <2>5. CASE row[r].status = "processing"
    <3>1. row'[r] = row[r]
      BY <1>2, <2>2, <2>5 DEF Rows
    <3>2. QED
      BY <2>2, <3>1, Unseen DEF Touches, LedgerStep
  <2>6. QED
    BY <1>3, <2>4, <2>5
<1>7. CASE RecordSuccess(q) /\ row' # row
  <2>1. row' = [row EXCEPT ![r] = SuccessRow(q)]
    BY <1>2, <1>7 DEF RecordSuccess, JobWrites
  <2>2. /\ Touches(r) /\ Executed(r)' = Executed(r) /\ AnswerOf(r)' = AnswerOf(r)
        /\ row'[r] = SuccessRow(q)
    BY <1>1, <1>2, <2>1, WorkerWrites DEF Queue
  <2>3. node[r].state = "committed" /\ node[r].bill = bill[q]
    BY <1>1, <1>2, <1>7 DEF RecordSuccess, WorkerGoes, Queue, Lifecycle, HeldJobs
  <2>4. row'[r].status = "success" /\ row'[r].bill \in Executed(r)
    BY <2>2, <2>3 DEF SuccessRow, Executed
  <2>5. QED
    BY <1>2, <1>3, <2>2, <2>4, SucceedsRequest
<1>8. CASE RecordFailure(q) /\ row' # row
  <2>1. row' = [row EXCEPT ![r] = [row[r] EXCEPT !.status = "failed"]]
    BY <1>2, <1>8 DEF RecordFailure, JobWrites, FailedRow
  <2>2. /\ Touches(r) /\ Executed(r)' = Executed(r) /\ AnswerOf(r)' = AnswerOf(r)
        /\ row'[r] = [row[r] EXCEPT !.status = "failed"]
    BY <1>1, <1>2, <2>1, WorkerWrites DEF Queue
  <2>3. row'[r].status = "failed" /\ row'[r].bill = row[r].bill
    BY <1>2, <2>2, StatusChanges
  <2>4. QED
    BY <1>2, <1>3, <2>2, <2>3, FailsRequest
<1>9. QED
  BY <1>5, <1>6, <1>7, <1>8

(* A worker, its node or its deadline.                                     *)
LEMMA WorkerIsLedgers ==
    ASSUME Queue, Queue', NEW q \in Requests, Worker(q) \/ DeadlineFires(q)
    PROVE  LedgerStep
<1>1. CASE ReceiveJob(q) \/ StartJob(q) \/ DeadlineFires(q) \/ ResolveBill(q)
           \/ SignReturns(q) \/ SignTimesOut(q)
  <2>1. UNCHANGED <<row, pc, node>>
    BY <1>1 DEF ReceiveJob, StartJob, DeadlineFires, ResolveBill, SignReturns,
                SignTimesOut, handlerVars, nodeVars
  <2>2. \A r \in Requests :
            AnswerOf(r)' = AnswerOf(r) /\ row'[r] = row[r] /\ Executed(r)' = Executed(r)
    BY <2>1, Answers DEF Executed
  <2>3. QED
    BY <2>2, Unseen DEF LedgerStep
<1>2. CASE PostTx(q) \/ Sign(q)
  <2>1. UNCHANGED <<row, pc>>
    BY <1>2 DEF PostTx, Sign, handlerVars
  <2>2. Busy(q) /\ wpc[q] \in {"post", "sign"}
    BY <1>2 DEF PostTx, Sign, WorkerGoes, Busy, JobStages
  <2>3. PICK r \in Requests : r = job[q] /\ node[r].state \in {"none", "posted"}
    BY <2>2 DEF Queue, Ownership, JobsBelong, TypeOK, Lifecycle, HeldJobs
  <2>4. node[r] \in Tickets
    BY DEF Queue, TypeOK
  <2>5. /\ \A x \in Requests \ {r} : node'[x] = node[x]
        /\ node'[r].state \in {"none", "posted", "signing"}
    <3>1. CASE UNCHANGED node
      BY <2>3, <3>1
    <3>2. CASE NodePosts(q)
      BY <2>3, <3>2 DEF NodePosts, Queue, TypeOK
    <3>3. CASE node' = [node EXCEPT ![r].state = "signing"]
      BY <2>4, <3>3, StateChanges DEF Queue, TypeOK
    <3>4. QED
      BY <1>2, <2>3, <3>1, <3>2, <3>3 DEF PostTx, Sign
  <2>6. \A x \in Requests :
            AnswerOf(x)' = AnswerOf(x) /\ row'[x] = row[x] /\ Executed(x)' = Executed(x)
    BY <2>1, <2>3, <2>5, Answers DEF Executed
  <2>7. QED
    BY <2>6, Unseen DEF LedgerStep
<1>3. QED
  BY <1>1, <1>2, RecordingIsLedgers DEF Worker, ProcessOne, ProcessTransferReward

(* The node ends a signing.                                                *)
LEMMA NodeIsLedgers ==
    ASSUME Queue, Queue', NEW r \in Requests, NodeCommits(r) \/ NodeRefuses(r)
    PROVE  LedgerStep
<1>1. /\ node[r].state = "signing" /\ node[r] \in Tickets /\ UNCHANGED <<row, pc>>
      /\ Executed(r) = {}
  BY DEF NodeCommits, NodeRefuses, Queue, TypeOK, Executed, handlerVars
<1>2. node[r].bill \in Bills /\ pc[r] = "accepted" /\ row[r].status # "success"
  BY <1>1 DEF Queue, Lifecycle, NodeIsBilled, RowsOfHandlers, SuccessIsCommitted
<1>3. PICK s \in {"committed", "refused"} : node' = [node EXCEPT ![r].state = s]
  BY DEF NodeCommits, NodeRefuses
<1>4. /\ \A x \in Requests \ {r} : node'[x] = node[x]
      /\ node'[r].state = s /\ node'[r].bill = node[r].bill
  BY <1>1, <1>3, StateChanges DEF Queue, TypeOK
<1>5. \A x \in Requests : AnswerOf(x)' = AnswerOf(x) /\ row'[x] = row[x]
  BY <1>1, Answers
<1>6. \A x \in Requests \ {r} : Executed(x)' = Executed(x)
  BY <1>4 DEF Executed
<1>7. Executed(r)' = IF s = "committed" THEN {node[r].bill} ELSE {}
  BY <1>3, <1>4 DEF Executed
<1>8. CASE s = "committed"
  BY <1>1, <1>2, <1>5, <1>6, <1>7, <1>8, Answers, ExecutesRequest DEF Touches
<1>9. CASE s = "refused"
  BY <1>1, <1>5, <1>6, <1>7, <1>9, Unseen DEF LedgerStep
<1>10. QED
  BY <1>3, <1>8, <1>9

(* A restart: a handler that is lost leaves its client without an answer.  *)
LEMMA RestartIsLedgers ==
    ASSUME Queue, Queue', Restart
    PROVE  LedgerStep
<1>1. \A r \in Requests : /\ row'[r] = row[r] /\ node'[r] = node[r]
                          /\ pc'[r] = IF pc[r] \in HandlerRunning THEN "lost" ELSE pc[r]
  BY DEF Restart, nodeVars
<1>2. \A r \in Requests : AnswerOf(r)' = AnswerOf(r) /\ Executed(r)' = Executed(r)
  BY <1>1, Answers DEF HandlerRunning, Refusals, Executed
<1>3. QED
  BY <1>1, <1>2, Unseen DEF LedgerStep

(***************************************************************************)
(* The refinement.                                                         *)
(***************************************************************************)

(* Only RecordSuccess writes a contract and points into a row.             *)
LEMMA ReportsStep ==
    ASSUME TypeOK, Ownership, Lifecycle, OthersReportNothing, [Next]_vars
    PROVE  OthersReportNothing'
<1>1. ASSUME NEW r \in Requests, NEW w, row' = [row EXCEPT ![r] = w],
             w.status # "success" => w.bill = NoBill
      PROVE  OthersReportNothing'
  BY <1>1 DEF OthersReportNothing, TypeOK
<1>2. CASE UNCHANGED row
  BY <1>2 DEF OthersReportNothing
<1>3. ASSUME NEW r \in Requests, CreateTransferStatus(r) PROVE OthersReportNothing'
  BY <1>1, <1>2, <1>3 DEF CreateTransferStatus, InsertRow
<1>4. ASSUME NEW r \in Requests, row[r].status # "success", NEW s,
             row' = [row EXCEPT ![r] = [row[r] EXCEPT !.status = s]]
      PROVE  OthersReportNothing'
  <2>1. [row[r] EXCEPT !.status = s].bill = NoBill
    BY <1>4, StatusChanges DEF OthersReportNothing, TypeOK
  <2>2. QED
    BY <1>1, <1>4, <2>1
<1>5. ASSUME NEW r \in Requests, MarkQueueFull(r) PROVE OthersReportNothing'
  <2>1. row[r].status # "success"
    BY <1>5 DEF MarkQueueFull, HandlerGoes, Lifecycle, RowsOfHandlers
  <2>2. QED
    BY <1>2, <1>4, <1>5, <2>1 DEF MarkQueueFull
<1>6. ASSUME NEW q \in Requests, MarkProcessing(q) \/ RecordFailure(q)
      PROVE  OthersReportNothing'
  <2>1. Busy(q)
    BY <1>6 DEF MarkProcessing, RecordFailure, WorkerGoes, Busy, JobStages
  <2>2. job[q] \in Requests
    BY <2>1 DEF Ownership, JobsBelong, TypeOK
  <2>3. row[job[q]].status # "success"
    BY <2>1 DEF Lifecycle, HeldJobs, Open
  <2>4. QED
    BY <1>2, <1>4, <1>6, <2>2, <2>3 DEF MarkProcessing, RecordFailure, JobWrites, FailedRow
<1>7. ASSUME NEW q \in Requests, RecordSuccess(q) PROVE OthersReportNothing'
  <2>1. Busy(q)
    BY <1>7 DEF RecordSuccess, WorkerGoes, Busy, JobStages
  <2>2. job[q] \in Requests
    BY <2>1 DEF Ownership, JobsBelong, TypeOK
  <2>3. QED
    BY <1>1, <1>2, <1>7, <2>2 DEF RecordSuccess, JobWrites, SuccessRow
<1>8. ASSUME NEW r \in Requests, Handler(r),
             ~CreateTransferStatus(r), ~MarkQueueFull(r)
      PROVE  UNCHANGED row
  BY <1>8 DEF Handler, ValidateTransferReward, LookupQueue, CreateQueue, Enqueue
<1>9. ASSUME NEW q \in Requests, Worker(q),
             ~MarkProcessing(q), ~RecordSuccess(q), ~RecordFailure(q)
      PROVE  UNCHANGED row
  BY <1>9 DEF Worker, ReceiveJob, StartJob, ProcessOne, ProcessTransferReward,
              ResolveBill, PostTx, Sign, SignReturns, SignTimesOut
<1>10. QED
  BY <1>2, <1>3, <1>5, <1>6, <1>7, <1>8, <1>9
     DEF Next, Idle, vars, DeadlineFires, NodeCommits, NodeRefuses, Restart

(* Before the first POST the ledger is empty.                              *)
LEMMA LedgerInit == Init => Ledger!Init
<1> SUFFICES ASSUME Init PROVE Ledger!Init
  OBVIOUS
<1>1. \A r \in Requests : /\ AnswerOf(r) = "pending" /\ row[r].status = "none"
                          /\ row[r].bill = NoBill /\ Executions(r) = {}
  BY Answers DEF Init, Executions, Refusals
<1>2. QED
  BY <1>1 DEF Ledger!Init

(* Every step is one of the ledger, or unseen.                             *)
LEMMA LedgerNext ==
    ASSUME Queue, Queue', [Next]_vars
    PROVE  [Ledger!Next]_(Ledger!ledgerVars)
<1>1. CASE Idle \/ UNCHANGED vars
  <2>1. \A r \in Requests :
            AnswerOf(r)' = AnswerOf(r) /\ row'[r] = row[r] /\ Executed(r)' = Executed(r)
    BY <1>1, Answers DEF Idle, vars, handlerVars, nodeVars, Executed
  <2>2. QED
    BY <2>1, Unseen, StepIsLedgers DEF LedgerStep
<1>2. CASE \E r \in Requests : Handler(r) \/ Worker(r) \/ DeadlineFires(r)
  BY <1>2, HandlerIsLedgers, WorkerIsLedgers, StepIsLedgers
<1>3. CASE \E r \in Requests : NodeCommits(r) \/ NodeRefuses(r)
  BY <1>3, NodeIsLedgers, StepIsLedgers
<1>4. CASE Restart
  BY <1>4, RestartIsLedgers, StepIsLedgers
<1>5. QED
  BY <1>1, <1>2, <1>3, <1>4 DEF Next

(* What handlers, workers, node and restarts do looks to a client like the *)
(* ledger, for every number of requests, admins, faults and restarts.      *)
THEOREM Implements == Spec => LedgerSpec
<1>1. Init => OthersReportNothing
  BY DEF Init, OthersReportNothing
<1>2. TypeOK /\ Ownership /\ Lifecycle /\ OthersReportNothing /\ [Next]_vars
        => OthersReportNothing'
  BY ReportsStep
<1>3. Spec => []OthersReportNothing
  BY <1>1, <1>2, TypeCorrect, OwnershipInvariant, LifecycleInvariant, PTL DEF Spec
<1>4. TypeOK /\ Ownership /\ Lifecycle /\ OthersReportNothing => Queue
  BY CommittedIsExecuted DEF Queue
<1>5. Spec => []Queue
  BY <1>3, <1>4, TypeCorrect, OwnershipInvariant, LifecycleInvariant, PTL
<1>6. Queue /\ Queue' /\ [Next]_vars => [Ledger!Next]_(Ledger!ledgerVars)
  BY LedgerNext
<1>7. QED
  BY <1>5, <1>6, LedgerInit, PTL DEF Spec, LedgerSpec, Ledger!Spec
=============================================================================
