-------------------------- MODULE PayoutQueue_proofs --------------------------
(***************************************************************************)
(* Proofs about PayoutQueue, for all requests, admins, channel capacities, *)
(* bills, faults and numbers of restarts.                                  *)
(***************************************************************************)
EXTENDS PayoutQueue, TLAPS

USE NoneAssumption, AdminAssumption, BufferAssumption, PointsAssumption,
    FaultAssumption

(***************************************************************************)
(* Type correctness.                                                       *)
(***************************************************************************)

(* The rows that CreateTransferStatus and UpdateTransferStatus write are   *)
(* rows of the table.                                                      *)
LEMMA RowTypes ==
    /\ [status |-> "none", bill |-> NoBill] \in Rows
    /\ [status |-> "queued", bill |-> NoBill] \in Rows
    /\ \A b \in Bills : [status |-> "success", bill |-> b] \in Rows
    /\ \A w \in Rows : /\ [w EXCEPT !.status = "processing"] \in Rows
                       /\ [w EXCEPT !.status = "failed"] \in Rows
BY DEF Rows, Statuses

(* What PostTx, Sign and the end of a signing leave at the node is a       *)
(* ticket.                                                                 *)
LEMMA TicketTypes ==
    /\ [state |-> "none", bill |-> NoBill] \in Tickets
    /\ \A b \in Bills : [state |-> "posted", bill |-> b] \in Tickets
    /\ \A t \in Tickets : \A s \in NodeStates : [t EXCEPT !.state = s] \in Tickets
BY DEF Tickets, NodeStates

(* The non-blocking send and the receive keep a channel within its         *)
(* capacity.                                                               *)
LEMMA ChannelTypes ==
    /\ <<>> \in Channels
    /\ \A s \in Channels : \A r \in Requests :
           Len(s) < BufferSize => Append(s, r) \in Channels
    /\ \A s \in Channels : s # <<>> => Head(s) \in Requests /\ Tail(s) \in Channels
BY DEF Channels

(* The server starts with well-typed variables.                            *)
LEMMA TypeInit == Init => TypeOK
BY RowTypes, TicketTypes, ChannelTypes
   DEF Init, TypeOK, HandlerStages, WorkerStages

(* A step of handleTransferReward keeps the types: in particular Enqueue   *)
(* adds to a channel only when it has room.                                *)
LEMMA HandlerType ==
    ASSUME TypeOK, NEW r \in Requests, Handler(r)
    PROVE  TypeOK'
<1> USE DEF TypeOK, queueVars, workerVars, nodeVars, auxVars
<1>1. pc' \in [Requests -> HandlerStages]
  <2>1. PICK s \in HandlerStages : pc' = [pc EXCEPT ![r] = s]
    <3>1. CASE ValidateTransferReward(r)
      BY <3>1 DEF ValidateTransferReward, HandlerGoes, HandlerStages,
                  HandlerRunning, Refusals
    <3>2. CASE ~ValidateTransferReward(r)
      BY <3>2 DEF Handler, HandlerGoes, HandlerStages, HandlerRunning, Refusals,
                  CreateTransferStatus, LookupQueue, CreateQueue, Enqueue,
                  MarkQueueFull
    <3>3. QED
      BY <3>1, <3>2
  <2>2. QED
    BY <2>1
<1>2. CASE ValidateTransferReward(r)
  BY <1>1, <1>2 DEF ValidateTransferReward
<1>3. CASE CreateTransferStatus(r)
  <2>1. row' \in [Requests -> Rows]
    BY <1>3, RowTypes DEF CreateTransferStatus, InsertRow
  <2>2. QED
    BY <1>1, <1>3, <2>1 DEF CreateTransferStatus
<1>4. CASE LookupQueue(r)
  BY <1>1, <1>4 DEF LookupQueue
<1>5. CASE CreateQueue(r)
  <2>1. own' \in [Requests -> Requests \cup {None}]
    BY <1>5 DEF CreateQueue, StartQueue
  <2>2. queues' \in [Admins -> Requests \cup {None}]
    <3>1. queues' = queues \/ queues' = [queues EXCEPT ![AdminOf[r]] = r]
      BY <1>5 DEF CreateQueue, StartQueue
    <3>2. QED
      BY <3>1
  <2>3. wpc' \in [Requests -> WorkerStages]
    BY <1>5 DEF CreateQueue, StartQueue, WorkerStages
  <2>4. ch' = ch
    BY <1>5 DEF CreateQueue, StartQueue
  <2>5. QED
    BY <1>1, <1>5, <2>1, <2>2, <2>3, <2>4 DEF CreateQueue
<1>6. CASE Enqueue(r)
  <2>1. ch' \in [Requests -> Channels]
    <3>1. CASE own[r] \in Requests /\ Len(ch[own[r]]) < BufferSize
      <4>1. Append(ch[own[r]], r) \in Channels
        BY <3>1, ChannelTypes
      <4>2. ch' = [ch EXCEPT ![own[r]] = Append(ch[own[r]], r)]
        BY <1>6, <3>1 DEF Enqueue
      <4>3. QED
        BY <4>1, <4>2
    <3>2. CASE own[r] \notin Requests
      BY <1>6, <3>2 DEF Enqueue
    <3>3. CASE ~(Len(ch[own[r]]) < BufferSize)
      BY <1>6, <3>3 DEF Enqueue
    <3>4. QED
      BY <3>1, <3>2, <3>3
  <2>2. sent' \in [Admins -> Seq(Requests)]
    <3>1. Append(sent[AdminOf[r]], r) \in Seq(Requests)
      OBVIOUS
    <3>2. \/ sent' = sent
          \/ sent' = [sent EXCEPT ![AdminOf[r]] = Append(sent[AdminOf[r]], r)]
      BY <1>6 DEF Enqueue
    <3>3. QED
      BY <3>1, <3>2
  <2>3. own' \in [Requests -> Requests \cup {None}]
    BY <1>6 DEF Enqueue
  <2>4. QED
    BY <1>1, <1>6, <2>1, <2>2, <2>3 DEF Enqueue
<1>7. CASE MarkQueueFull(r)
  <2>1. row' \in [Requests -> Rows]
    <3>1. [row[r] EXCEPT !.status = "failed"] \in Rows
      BY RowTypes
    <3>2. \/ row' = row
          \/ row' = [row EXCEPT ![r] = [row[r] EXCEPT !.status = "failed"]]
      BY <1>7 DEF MarkQueueFull
    <3>3. QED
      BY <3>1, <3>2
  <2>2. QED
    BY <1>1, <1>7, <2>1 DEF MarkQueueFull
<1>8. QED
  BY <1>2, <1>3, <1>4, <1>5, <1>6, <1>7 DEF Handler

(* Whatever a worker writes is a row, also when it holds no job.           *)
LEMMA JobWritesType ==
    ASSUME TypeOK, NEW q \in Requests, NEW w, JobWrites(q, w),
           job[q] \in Requests => w \in Rows
    PROVE  row' \in [Requests -> Rows]
<1>1. CASE row' = row
  BY <1>1 DEF TypeOK
<1>2. CASE row' = [row EXCEPT ![job[q]] = w]
  <2>1. CASE job[q] \in Requests
    BY <1>2, <2>1 DEF TypeOK
  <2>2. CASE job[q] \notin Requests
    BY <1>2, <2>2 DEF TypeOK
  <2>3. QED
    BY <2>1, <2>2
<1>3. QED
  BY <1>1, <1>2 DEF JobWrites

(* A change of one ticket keeps the type of the node's state.              *)
LEMMA NodeWritesType ==
    ASSUME TypeOK, NEW r, NEW t, r \in Requests => t \in Tickets
    PROVE  [node EXCEPT ![r] = t] \in [Requests -> Tickets]
<1>1. CASE r \in Requests
  BY <1>1 DEF TypeOK
<1>2. CASE r \notin Requests
  BY <1>2 DEF TypeOK
<1>3. QED
  BY <1>1, <1>2

(* The return of processOne keeps the types of the worker's variables.     *)
LEMMA EndJobType ==
    ASSUME TypeOK, NEW q \in Requests, EndJob(q)
    PROVE  /\ job' \in [Requests -> Requests \cup {None}]
           /\ bill' \in [Requests -> Bills \cup {NoBill}]
           /\ expired' \in [Requests -> BOOLEAN]
BY DEF TypeOK, EndJob

(* A step of a worker goroutine keeps the types.                           *)
LEMMA WorkerType ==
    ASSUME TypeOK, NEW q \in Requests, Worker(q)
    PROVE  TypeOK'
<1> USE DEF TypeOK, handlerVars, queueVars, nodeVars, auxVars
<1>1. wpc' \in [Requests -> WorkerStages]
  BY DEF Worker, ProcessOne, ProcessTransferReward, WorkerGoes, WorkerStages,
         JobStages, ReceiveJob, StartJob, MarkProcessing, ResolveBill, PostTx,
         Sign, SignReturns, SignTimesOut, RecordSuccess, RecordFailure
<1>2. CASE ReceiveJob(q)
  <2>1. Head(ch[q]) \in Requests /\ Tail(ch[q]) \in Channels
    BY <1>2, ChannelTypes DEF ReceiveJob
  <2>2. job' \in [Requests -> Requests \cup {None}] /\ ch' \in [Requests -> Channels]
    BY <1>2, <2>1 DEF ReceiveJob
  <2>3. QED
    BY <1>1, <1>2, <2>2 DEF ReceiveJob
<1>3. CASE StartJob(q)
  BY <1>1, <1>3 DEF StartJob
<1>4. CASE MarkProcessing(q)
  <2>1. job[q] \in Requests => [row[job[q]] EXCEPT !.status = "processing"] \in Rows
    BY RowTypes
  <2>2. row' \in [Requests -> Rows]
    BY <1>4, <2>1, JobWritesType DEF MarkProcessing
  <2>3. QED
    BY <1>1, <1>4, <2>2 DEF MarkProcessing
<1>5. CASE ResolveBill(q)
  <2>1. bill' \in [Requests -> Bills \cup {NoBill}]
    BY <1>5 DEF ResolveBill
  <2>2. QED
    BY <1>1, <1>5, <2>1 DEF ResolveBill
<1>6. CASE PostTx(q)
  <2>1. [state |-> "posted", bill |-> bill[q]] \in Tickets
    BY DEF Tickets, NodeStates
  <2>2. node' \in [Requests -> Tickets]
    BY <1>6, <2>1, NodeWritesType DEF PostTx, NodePosts
  <2>3. QED
    BY <1>1, <1>6, <2>2 DEF PostTx
<1>7. CASE Sign(q)
  <2>1. job[q] \in Requests => [node[job[q]] EXCEPT !.state = "signing"] \in Tickets
    BY TicketTypes DEF NodeStates
  <2>2. \/ node' = node
        \/ node' = [node EXCEPT ![job[q]] = [node[job[q]] EXCEPT !.state = "signing"]]
    BY <1>7 DEF Sign
  <2>3. node' \in [Requests -> Tickets]
    BY <2>1, <2>2, NodeWritesType
  <2>4. QED
    BY <1>1, <1>7, <2>3 DEF Sign
<1>8. CASE SignReturns(q)
  BY <1>1, <1>8 DEF SignReturns
<1>9. CASE SignTimesOut(q)
  BY <1>1, <1>9 DEF SignTimesOut
<1>10. CASE RecordSuccess(q)
  <2>1. bill[q] \in Bills => SuccessRow(q) \in Rows
    BY RowTypes DEF SuccessRow
  <2>2. SuccessRow(q) \in Rows
    BY <2>1 DEF SuccessRow, Rows, Statuses
  <2>3. row' \in [Requests -> Rows]
    BY <1>10, <2>2, JobWritesType DEF RecordSuccess
  <2>4. QED
    BY <1>1, <1>10, <2>3, EndJobType DEF RecordSuccess
<1>11. CASE RecordFailure(q)
  <2>1. job[q] \in Requests => FailedRow(q) \in Rows
    BY RowTypes DEF FailedRow
  <2>2. row' \in [Requests -> Rows]
    BY <1>11, <2>1, JobWritesType DEF RecordFailure
  <2>3. QED
    BY <1>1, <1>11, <2>2, EndJobType DEF RecordFailure
<1>12. QED
  BY <1>2, <1>3, <1>4, <1>5, <1>6, <1>7, <1>8, <1>9, <1>10, <1>11
     DEF Worker, ProcessOne, ProcessTransferReward

(* A deadline, the end of a signing, a restart and a stutter keep the      *)
(* types.                                                                  *)
LEMMA SurroundingsType ==
    ASSUME TypeOK,
           \/ \E r \in Requests : DeadlineFires(r) \/ NodeCommits(r) \/ NodeRefuses(r)
           \/ Restart \/ UNCHANGED vars
    PROVE  TypeOK'
<1> USE DEF TypeOK, handlerVars, queueVars, workerVars, nodeVars, auxVars
<1>1. ASSUME NEW r \in Requests, DeadlineFires(r) PROVE TypeOK'
  BY <1>1 DEF DeadlineFires
<1>2. ASSUME NEW r \in Requests, NodeCommits(r) PROVE TypeOK'
  <2>1. [req |-> r, bill |-> node[r].bill] \in Entries
    BY DEF Entries, Tickets
  <2>2. chain' \in [Admins -> Seq(Entries)]
    BY <1>2, <2>1 DEF NodeCommits
  <2>3. [node[r] EXCEPT !.state = "committed"] \in Tickets
    BY TicketTypes DEF NodeStates
  <2>4. node' \in [Requests -> Tickets]
    BY <1>2, <2>3 DEF NodeCommits
  <2>5. QED
    BY <1>2, <2>2, <2>4 DEF NodeCommits
<1>3. ASSUME NEW r \in Requests, NodeRefuses(r) PROVE TypeOK'
  <2>1. [node[r] EXCEPT !.state = "refused"] \in Tickets
    BY TicketTypes DEF NodeStates
  <2>2. node' \in [Requests -> Tickets]
    BY <1>3, <2>1 DEF NodeRefuses
  <2>3. QED
    BY <1>3, <2>2 DEF NodeRefuses
<1>4. CASE Restart
  <2>1. pc' \in [Requests -> HandlerStages]
    BY <1>4 DEF Restart, HandlerStages
  <2>2. ch' \in [Requests -> Channels]
    BY <1>4, ChannelTypes DEF Restart
  <2>3. wpc' \in [Requests -> WorkerStages]
    BY <1>4 DEF Restart, WorkerStages
  <2>4. crashes' \in 0 .. MaxCrashes
    BY <1>4 DEF Restart
  <2>5. QED
    BY <1>4, <2>1, <2>2, <2>3, <2>4 DEF Restart
<1>5. CASE UNCHANGED vars
  BY <1>5 DEF vars
<1>6. QED
  BY <1>1, <1>2, <1>3, <1>4, <1>5

(* Every step keeps the types.                                             *)
LEMMA TypeStep == TypeOK /\ [Next]_vars => TypeOK'
<1> SUFFICES ASSUME TypeOK, [Next]_vars PROVE TypeOK'
  OBVIOUS
<1>1. CASE \E r \in Requests : Handler(r) \/ Worker(r)
  BY <1>1, HandlerType, WorkerType
<1>2. CASE ~ \E r \in Requests : Handler(r) \/ Worker(r)
  BY <1>2, SurroundingsType DEF Next, Idle
<1>3. QED
  BY <1>1, <1>2

(* Every variable keeps its type; in particular no channel ever holds more *)
(* than BufferSize jobs.                                                   *)
THEOREM TypeCorrect == Spec => []TypeOK
<1>1. Init => TypeOK
  BY TypeInit
<1>2. TypeOK /\ [Next]_vars => TypeOK'
  BY TypeStep
<1>3. QED
  BY <1>1, <1>2, PTL DEF Spec

(***************************************************************************)
(* One queue, one worker per admin: whoever runs or holds a queue object   *)
(* agrees with Manager.queues.                                             *)
(***************************************************************************)

WorkersAreOwned ==
    \A q \in Requests : wpc[q] # "none" => queues[AdminOf[q]] = q

QueuesAreServed ==
    \A a \in Admins : queues[a] # None =>
        AdminOf[queues[a]] = a /\ wpc[queues[a]] # "none"

HandlersAgree ==
    \A r \in Requests :
        /\ own[r] # None => own[r] = queues[AdminOf[r]]
        /\ pc[r] = "send" => own[r] # None

JobsBelong ==
    \A q \in Requests :
        /\ \A i \in DOMAIN ch[q] : AdminOf[ch[q][i]] = AdminOf[q]
        /\ ch[q] # <<>> => wpc[q] # "none"
        /\ IF Busy(q) THEN job[q] # None /\ AdminOf[job[q]] = AdminOf[q]
                      ELSE job[q] = None

Ownership == WorkersAreOwned /\ QueuesAreServed /\ HandlersAgree /\ JobsBelong

(* Before the first POST there is no queue, no worker and no job.          *)
LEMMA OwnershipInit == Init => Ownership
BY DEF Init, Ownership, WorkersAreOwned, QueuesAreServed, HandlersAgree,
       JobsBelong, Busy, JobStages

(* A handler keeps Ownership: it starts a worker only under the write lock *)
(* and only when the admin has no queue, and it sends its own request to   *)
(* the queue of its own admin.                                             *)
LEMMA OwnershipHandler ==
    ASSUME TypeOK, Ownership, NEW r \in Requests, Handler(r)
    PROVE  Ownership'
<1> USE DEF TypeOK, Ownership, WorkersAreOwned, QueuesAreServed, HandlersAgree,
        JobsBelong, Busy, HandlerGoes, queueVars, workerVars, nodeVars, auxVars
<1>1. CASE ValidateTransferReward(r)
  BY <1>1 DEF ValidateTransferReward
<1>2. CASE CreateTransferStatus(r)
  BY <1>2 DEF CreateTransferStatus
<1>3. CASE LookupQueue(r)
  BY <1>3 DEF LookupQueue
<1>4. CASE CreateQueue(r)
  <2>1. CASE queues[AdminOf[r]] # None
    BY <1>4, <2>1 DEF CreateQueue
  <2>2. CASE queues[AdminOf[r]] = None
    <3>1. StartQueue(r) /\ HandlerGoes(r, "create", "send") /\ UNCHANGED job
      BY <1>4, <2>2 DEF CreateQueue
    <3>2. \A q \in Requests : AdminOf[q] = AdminOf[r] => wpc[q] = "none"
      BY <2>2
    <3>3. WorkersAreOwned' /\ QueuesAreServed'
      BY <3>1, <3>2 DEF StartQueue
    <3>4. HandlersAgree'
      BY <3>1, <2>2 DEF StartQueue
    <3>5. JobsBelong'
      BY <3>1, <3>2 DEF StartQueue, JobStages
    <3>6. QED
      BY <3>3, <3>4, <3>5
  <2>3. QED
    BY <2>1, <2>2
<1>5. CASE Enqueue(r)
  <2>1. own[r] \in Requests /\ AdminOf[own[r]] = AdminOf[r] /\ wpc[own[r]] # "none"
    BY <1>5 DEF Enqueue
  <2>2. WorkersAreOwned' /\ QueuesAreServed' /\ HandlersAgree'
    BY <1>5 DEF Enqueue
  <2>3. JobsBelong'
    <3>1. ASSUME NEW q \in Requests
          PROVE /\ \A i \in DOMAIN ch'[q] : AdminOf[ch'[q][i]] = AdminOf[q]
                /\ ch'[q] # <<>> => wpc[q] # "none"
      <4>1. ch[q] \in Seq(Requests)
        BY DEF Channels
      <4>2. \/ ch' = ch
            \/ ch' = [ch EXCEPT ![own[r]] = Append(ch[own[r]], r)]
        BY <1>5 DEF Enqueue
      <4>3. ch'[q] = ch[q] \/ (q = own[r] /\ ch'[q] = Append(ch[q], r))
        BY <4>2
      <4>4. CASE ch'[q] = ch[q]
        BY <4>4
      <4>5. CASE q = own[r] /\ ch'[q] = Append(ch[q], r)
        <5>1. /\ Len(ch[q]) \in Nat /\ DOMAIN ch[q] = 1 .. Len(ch[q])
              /\ DOMAIN Append(ch[q], r) = 1 .. Len(ch[q]) + 1
          BY <4>1
        <5>2. \A i \in 1 .. Len(ch[q]) + 1 :
                 Append(ch[q], r)[i] = IF i <= Len(ch[q]) THEN ch[q][i] ELSE r
          BY <4>1
        <5>3. QED
          BY <2>1, <4>5, <5>1, <5>2
      <4>6. QED
        BY <4>3, <4>4, <4>5
    <3>2. QED
      BY <1>5, <3>1 DEF Enqueue
  <2>4. QED
    BY <2>2, <2>3
<1>6. CASE MarkQueueFull(r)
  BY <1>6 DEF MarkQueueFull
<1>7. QED
  BY <1>1, <1>2, <1>3, <1>4, <1>5, <1>6 DEF Handler

(* A worker keeps Ownership: it takes jobs from its own channel.           *)
LEMMA OwnershipWorker ==
    ASSUME TypeOK, Ownership, NEW q \in Requests, Worker(q)
    PROVE  Ownership'
<1> USE DEF TypeOK, Ownership, WorkersAreOwned, QueuesAreServed, HandlersAgree,
        JobsBelong, Busy, JobStages, WorkerGoes, handlerVars, queueVars
<1>1. CASE ReceiveJob(q)
  <2>1. ch[q] \in Seq(Requests) /\ ch[q] # <<>>
    BY <1>1 DEF ReceiveJob, Channels
  <2>2. /\ AdminOf[Head(ch[q])] = AdminOf[q] /\ Head(ch[q]) # None
        /\ \A i \in DOMAIN Tail(ch[q]) : AdminOf[Tail(ch[q])[i]] = AdminOf[q]
    BY <2>1
  <2>3. WorkersAreOwned' /\ QueuesAreServed' /\ HandlersAgree'
    BY <1>1 DEF ReceiveJob
  <2>4. JobsBelong'
    <3>1. ASSUME NEW p \in Requests, p # q
          PROVE  ch'[p] = ch[p] /\ wpc'[p] = wpc[p] /\ job'[p] = job[p]
      BY <1>1, <3>1 DEF ReceiveJob
    <3>2. ch'[q] = Tail(ch[q]) /\ wpc'[q] = "spacing" /\ job'[q] = Head(ch[q])
      BY <1>1 DEF ReceiveJob
    <3>3. ASSUME NEW p \in Requests
          PROVE  /\ \A i \in DOMAIN ch'[p] : AdminOf[ch'[p][i]] = AdminOf[p]
                 /\ ch'[p] # <<>> => wpc'[p] # "none"
                 /\ IF Busy(p)' THEN job'[p] # None /\ AdminOf[job'[p]] = AdminOf[p]
                                ELSE job'[p] = None
      <4>1. CASE p = q
        BY <2>2, <3>2, <4>1
      <4>2. CASE p # q
        BY <3>1, <4>2
      <4>3. QED
        BY <4>1, <4>2
    <3>4. QED
      BY <3>3
  <2>5. QED
    BY <2>3, <2>4
<1>2. CASE StartJob(q)
  BY <1>2 DEF StartJob
<1>3. CASE MarkProcessing(q)
  BY <1>3 DEF MarkProcessing
<1>4. CASE ProcessTransferReward(q)
  <2>1. \/ wpc' = wpc \/ \E s \in JobStages : wpc' = [wpc EXCEPT ![q] = s]
    BY <1>4 DEF ProcessTransferReward, ResolveBill, PostTx, Sign, SignReturns, SignTimesOut
  <2>2. wpc[q] \in JobStages /\ UNCHANGED <<ch, queues, job, pc, own>>
    BY <1>4 DEF ProcessTransferReward, ResolveBill, PostTx, Sign, SignReturns, SignTimesOut
  <2>3. QED
    BY <2>1, <2>2
<1>5. CASE RecordSuccess(q)
  BY <1>5 DEF RecordSuccess, EndJob
<1>6. CASE RecordFailure(q)
  BY <1>6 DEF RecordFailure, EndJob
<1>7. QED
  BY <1>1, <1>2, <1>3, <1>4, <1>5, <1>6 DEF Worker, ProcessOne

(* Every step keeps Ownership.                                             *)
LEMMA OwnershipStep == TypeOK /\ Ownership /\ [Next]_vars => Ownership'
<1> SUFFICES ASSUME TypeOK, Ownership, [Next]_vars PROVE Ownership'
  OBVIOUS
<1>1. CASE \E r \in Requests : Handler(r) \/ Worker(r)
  BY <1>1, OwnershipHandler, OwnershipWorker
<1>2. CASE UNCHANGED <<pc, own, queues, ch, wpc, job>>
  BY <1>2 DEF Ownership, WorkersAreOwned, QueuesAreServed, HandlersAgree,
              JobsBelong, Busy
<1>3. CASE Restart
  <2>1. \A q \in Requests : ch'[q] = <<>> /\ wpc'[q] = "none" /\ job'[q] = None
    BY <1>3 DEF Restart
  <2>2. \A r \in Requests : own'[r] = None /\ pc'[r] # "send"
    BY <1>3 DEF Restart, HandlerRunning
  <2>3. \A a \in Admins : queues'[a] = None
    BY <1>3 DEF Restart
  <2>4. JobsBelong'
    BY <2>1 DEF JobsBelong, Busy, JobStages
  <2>5. QED
    BY <2>1, <2>2, <2>3, <2>4
       DEF Ownership, WorkersAreOwned, QueuesAreServed, HandlersAgree
<1>4. QED
  BY <1>1, <1>2, <1>3 DEF Next, Idle, vars, DeadlineFires, NodeCommits, NodeRefuses,
        handlerVars, queueVars, workerVars

(* getOrCreate gives each admin one queue and one worker, in every run.    *)
LEMMA OwnershipInvariant == Spec => []Ownership
<1>1. Init => Ownership
  BY OwnershipInit
<1>2. TypeOK /\ Ownership /\ [Next]_vars => Ownership'
  BY OwnershipStep
<1>3. QED
  BY <1>1, <1>2, TypeCorrect, PTL DEF Spec

(* Jobs of one admin run serially: two workers never hold jobs of the same *)
(* admin, although any number of handlers may race to create its queue.    *)
THEOREM Serial == Spec => []SerialPerAdmin
<1>1. ASSUME Ownership, NEW p \in Requests, NEW q \in Requests,
             Busy(p), Busy(q), AdminOf[job[p]] = AdminOf[job[q]]
      PROVE  p = q
  <2>1. AdminOf[p] = AdminOf[q]
    BY <1>1 DEF Ownership, JobsBelong
  <2>2. wpc[p] # "none" /\ wpc[q] # "none"
    BY <1>1 DEF Busy, JobStages
  <2>3. QED
    BY <1>1, <2>1, <2>2 DEF Ownership, WorkersAreOwned
<1>2. Ownership => SerialPerAdmin
  BY <1>1 DEF SerialPerAdmin
<1>3. QED
  BY <1>2, OwnershipInvariant, PTL

(***************************************************************************)
(* Where a request is tells what has happened to it.                       *)
(***************************************************************************)

Open == {"queued", "processing"}

WaitingJobs ==
    \A q \in Requests : \A i \in DOMAIN ch[q] :
        /\ pc[ch[q][i]] = "accepted"
        /\ row[ch[q][i]].status = "queued"
        /\ node[ch[q][i]].state = "none"
        /\ \A p \in Requests : job[p] # ch[q][i]
        /\ \A j \in DOMAIN ch[q] : ch[q][i] = ch[q][j] => i = j

HeldJobs ==
    \A q \in Requests : Busy(q) =>
        /\ pc[job[q]] = "accepted"
        /\ row[job[q]].status \in Open
        /\ wpc[q] \in {"spacing", "mark", "resolve", "post"} => node[job[q]].state = "none"
        /\ wpc[q] \in {"post", "sign", "signing", "succeed"} => bill[q] \in Bills
        /\ wpc[q] \in {"sign", "signing", "succeed"} => node[job[q]].bill = bill[q]
        /\ wpc[q] = "sign" => node[job[q]].state = "posted"
        /\ wpc[q] = "signing" => node[job[q]].state \in {"signing", "committed", "refused"}
        /\ wpc[q] = "succeed" => node[job[q]].state = "committed"

RowsOfHandlers ==
    \A r \in Requests :
        /\ pc[r] \in {"new", "insert", "rejected"} => row[r].status = "none"
        /\ pc[r] \in {"lookup", "create", "send", "markfull"} => row[r].status = "queued"
        /\ pc[r] # "accepted" => node[r].state = "none" /\ row[r].status # "success"

NodeIsBilled ==
    \A r \in Requests : node[r].state # "none" => node[r].bill \in Bills

SuccessIsCommitted ==
    \A r \in Requests : row[r].status = "success" =>
        node[r].state = "committed" /\ row[r].bill = node[r].bill

ChainIsNode ==
    /\ \A r \in Requests : node[r].state = "committed" => Executions(r) # {}
    /\ \A a \in Admins : \A i \in DOMAIN chain[a] :
          /\ AdminOf[chain[a][i].req] = a
          /\ node[chain[a][i].req].state = "committed"
          /\ chain[a][i].bill = node[chain[a][i].req].bill
          /\ \A j \in DOMAIN chain[a] : chain[a][i].req = chain[a][j].req => i = j

Lifecycle ==
    /\ WaitingJobs /\ HeldJobs /\ RowsOfHandlers
    /\ NodeIsBilled /\ SuccessIsCommitted /\ ChainIsNode

(* Writing a function's own value back changes nothing.                    *)
LEMMA SameValue ==
    ASSUME NEW S, NEW T, NEW f \in [S -> T], NEW x
    PROVE  [f EXCEPT ![x] = f[x]] = f
OBVIOUS

(* An update of the status column leaves contract and points alone.        *)
LEMMA StatusChanges ==
    ASSUME NEW w \in Rows, NEW s
    PROVE  LET v == [w EXCEPT !.status = s] IN v.status = s /\ v.bill = w.bill
BY DEF Rows

(* A change of a ticket's state leaves the posted bill alone.              *)
LEMMA StateChanges ==
    ASSUME NEW t \in Tickets, NEW s
    PROVE  LET v == [t EXCEPT !.state = s] IN v.state = s /\ v.bill = t.bill
BY DEF Tickets

(* The elements of a sequence after a send to its end.                     *)
LEMMA AppendElements ==
    ASSUME NEW S, NEW s \in Seq(S), NEW x \in S
    PROVE  /\ Len(s) \in Nat /\ DOMAIN s = 1 .. Len(s)
           /\ DOMAIN Append(s, x) = 1 .. Len(s) + 1
           /\ \A i \in 1 .. Len(s) : Append(s, x)[i] = s[i]
           /\ Append(s, x)[Len(s) + 1] = x
OBVIOUS

(* The elements of a sequence after its oldest one is taken.               *)
LEMMA TailElements ==
    ASSUME NEW S, NEW s \in Seq(S), s # <<>>
    PROVE  /\ Head(s) = s[1] /\ 1 \in DOMAIN s
           /\ \A i \in DOMAIN Tail(s) : /\ i \in Nat /\ i + 1 \in DOMAIN s
                                       /\ i + 1 # 1 /\ Tail(s)[i] = s[i + 1]
<1>1. Len(s) \in Nat /\ DOMAIN s = 1 .. Len(s) /\ Len(s) > 0
  OBVIOUS
<1>2. DOMAIN Tail(s) = 1 .. Len(s) - 1
  OBVIOUS
<1>3. QED
  BY <1>1, <1>2

(* A job is in one worker's hands, and in one channel.                     *)
LEMMA OneHolder ==
    ASSUME Ownership, NEW p \in Requests, NEW q \in Requests
    PROVE  /\ Busy(p) /\ Busy(q) /\ job[p] = job[q] => p = q
           /\ \A i \in DOMAIN ch[p] : \A j \in DOMAIN ch[q] :
                  ch[p] # <<>> /\ ch[q] # <<>> /\ ch[p][i] = ch[q][j] => p = q
<1>1. AdminOf[p] = AdminOf[q] /\ wpc[p] # "none" /\ wpc[q] # "none" => p = q
  BY DEF Ownership, WorkersAreOwned
<1>2. QED
  BY <1>1 DEF Ownership, JobsBelong, Busy, JobStages

(* Before the first POST no row, no ticket and no execution exists.        *)
LEMMA LifecycleInit == Init => Lifecycle
BY DEF Init, Lifecycle, WaitingJobs, HeldJobs, RowsOfHandlers, NodeIsBilled,
       SuccessIsCommitted, ChainIsNode, Busy, JobStages

(* A step of a handler that does not send its job.                         *)
LEMMA HandlerQuiet ==
    ASSUME TypeOK, Lifecycle, NEW r \in Requests, NEW s, NEW w,
           pc[r] # "accepted", s # "accepted", w.status # "success",
           s \in {"new", "insert", "rejected"} => w.status = "none",
           s \in {"lookup", "create", "send", "markfull"} => w.status = "queued",
           pc' = [pc EXCEPT ![r] = s], row' = [row EXCEPT ![r] = w],
           UNCHANGED <<ch, job, bill, node, chain>>,
           \A q \in Requests : Busy(q)' => Busy(q) /\ wpc'[q] = wpc[q]
    PROVE  Lifecycle'
<1> USE DEF TypeOK, Lifecycle
<1>1. /\ \A q \in Requests : Busy(q) => job[q] # r
      /\ \A q \in Requests : \A i \in DOMAIN ch[q] : ch[q][i] # r
  BY DEF WaitingJobs, HeldJobs
<1>2. \A x \in Requests : x # r => pc'[x] = pc[x] /\ row'[x] = row[x]
  OBVIOUS
<1>3. pc'[r] = s /\ row'[r] = w
  OBVIOUS
<1>4. WaitingJobs'
  <2>1. \A q \in Requests : \A i \in DOMAIN ch[q] : ch[q][i] \in Requests
    BY DEF Channels
  <2>2. QED
    BY <1>1, <1>2, <2>1 DEF WaitingJobs
<1>5. HeldJobs'
  BY <1>1, <1>2 DEF HeldJobs
<1>6. RowsOfHandlers'
  BY <1>2, <1>3 DEF RowsOfHandlers
<1>7. NodeIsBilled' /\ ChainIsNode'
  BY DEF NodeIsBilled, ChainIsNode, Executions
<1>8. SuccessIsCommitted'
  BY <1>2, <1>3 DEF SuccessIsCommitted
<1>9. QED
  BY <1>4, <1>5, <1>6, <1>7, <1>8

(* A step of a worker between StartJob and the recording of the outcome:   *)
(* it goes to stage s with bill b, leaves w in the row and t at the node.  *)
LEMMA WorkerBusyStep ==
    ASSUME TypeOK, Ownership, Lifecycle, NEW q \in Requests,
           NEW s, NEW b, NEW w, NEW t,
           Busy(q), s \in JobStages,
           wpc' = [wpc EXCEPT ![q] = s], bill' = [bill EXCEPT ![q] = b],
           row' = [row EXCEPT ![job[q]] = w], node' = [node EXCEPT ![job[q]] = t],
           UNCHANGED <<pc, ch, job, chain>>,
           w.status \in Open,
           t.state # "none" => t.bill \in Bills,
           node[job[q]].state = "committed" => t = node[job[q]],
           t.state = "committed" => node[job[q]].state = "committed",
           s \in {"mark", "resolve", "post"} => t.state = "none",
           s \in {"post", "sign", "signing", "succeed"} => b \in Bills,
           s \in {"sign", "signing", "succeed"} => t.bill = b,
           s = "sign" => t.state = "posted",
           s = "signing" => t.state \in {"signing", "committed", "refused"},
           s = "succeed" => t.state = "committed"
    PROVE  Lifecycle'
<1> USE DEF TypeOK, Lifecycle
<1>1. job[q] \in Requests /\ pc[job[q]] = "accepted" /\ row[job[q]].status \in Open
  BY DEF Ownership, JobsBelong, HeldJobs
<1>2. \A x \in Requests : x # job[q] => row'[x] = row[x] /\ node'[x] = node[x]
  OBVIOUS
<1>3. row'[job[q]] = w /\ node'[job[q]] = t
  BY <1>1
<1>4. WaitingJobs'
  <2>1. \A p \in Requests : \A i \in DOMAIN ch[p] :
            ch[p][i] # job[q] /\ ch[p][i] \in Requests
    BY DEF WaitingJobs, Channels
  <2>2. QED
    BY <1>2, <2>1 DEF WaitingJobs
<1>5. HeldJobs'
  <2>1. ASSUME NEW p \in Requests, p # q, Busy(p)'
        PROVE  /\ Busy(p) /\ job[p] # job[q] /\ job[p] \in Requests
               /\ wpc'[p] = wpc[p] /\ bill'[p] = bill[p]
    <3>1. wpc'[p] = wpc[p] /\ bill'[p] = bill[p] /\ Busy(p)
      BY <2>1 DEF Busy
    <3>2. QED
      BY <2>1, <3>1, OneHolder DEF Ownership, JobsBelong
  <2>2. wpc'[q] = s /\ bill'[q] = b /\ s # "spacing"
    BY DEF JobStages
  <2>3. QED
    BY <1>1, <1>2, <1>3, <2>1, <2>2 DEF HeldJobs
<1>6. RowsOfHandlers'
  <2>1. pc[job[q]] = "accepted"
    BY <1>1
  <2>2. QED
    BY <1>2, <2>1 DEF RowsOfHandlers
<1>7. NodeIsBilled' /\ SuccessIsCommitted'
  BY <1>1, <1>2, <1>3 DEF NodeIsBilled, SuccessIsCommitted, Open
<1>8. ChainIsNode'
  BY <1>1, <1>2, <1>3 DEF ChainIsNode, Executions
<1>9. QED
  BY <1>4, <1>5, <1>6, <1>7, <1>8

(* A worker ends a job and leaves w in its row.                            *)
LEMMA WorkerEndStep ==
    ASSUME TypeOK, Ownership, Lifecycle, NEW q \in Requests, NEW w,
           Busy(q), wpc' = [wpc EXCEPT ![q] = "idle"], EndJob(q),
           row' = [row EXCEPT ![job[q]] = w],
           UNCHANGED <<pc, ch, node, chain>>,
           w.status = "success" =>
               node[job[q]].state = "committed" /\ w.bill = node[job[q]].bill
    PROVE  Lifecycle'
<1> USE DEF TypeOK, Lifecycle
<1>1. job[q] \in Requests /\ pc[job[q]] = "accepted"
  BY DEF Ownership, JobsBelong, HeldJobs
<1>2. \A x \in Requests : x # job[q] => row'[x] = row[x]
  OBVIOUS
<1>3. row'[job[q]] = w
  BY <1>1
<1>4. \A p \in Requests : job'[p] = IF p = q THEN None ELSE job[p]
  BY DEF EndJob
<1>5. WaitingJobs'
  <2>1. \A p \in Requests : \A i \in DOMAIN ch[p] :
            ch[p][i] # job[q] /\ ch[p][i] \in Requests
    BY DEF WaitingJobs, Channels
  <2>2. QED
    BY <1>2, <1>4, <2>1 DEF WaitingJobs
<1>6. HeldJobs'
  <2>1. ASSUME NEW p \in Requests, Busy(p)'
        PROVE  /\ Busy(p) /\ p # q /\ job[p] # job[q] /\ job[p] \in Requests
               /\ wpc'[p] = wpc[p] /\ bill'[p] = bill[p] /\ job'[p] = job[p]
    <3>1. p # q
      BY <2>1 DEF Busy, JobStages
    <3>2. wpc'[p] = wpc[p] /\ bill'[p] = bill[p] /\ Busy(p) /\ job'[p] = job[p]
      BY <2>1, <3>1, <1>4 DEF Busy, EndJob
    <3>3. QED
      BY <3>1, <3>2, OneHolder DEF Ownership, JobsBelong
  <2>2. QED
    BY <1>2, <2>1 DEF HeldJobs
<1>7. RowsOfHandlers'
  BY <1>1, <1>2 DEF RowsOfHandlers
<1>8. NodeIsBilled' /\ SuccessIsCommitted'
  BY <1>1, <1>2, <1>3 DEF NodeIsBilled, SuccessIsCommitted
<1>9. ChainIsNode'
  BY DEF ChainIsNode, Executions
<1>10. QED
  BY <1>5, <1>6, <1>7, <1>8, <1>9

(* A handler keeps Lifecycle: it writes its own row, before it sends the   *)
(* job or when the send was refused.                                       *)
LEMMA LifecycleHandler ==
    ASSUME TypeOK, Ownership, Lifecycle, NEW r \in Requests, Handler(r)
    PROVE  Lifecycle'
<1> USE DEF HandlerGoes, queueVars, workerVars, nodeVars, auxVars
<1>1. row = [row EXCEPT ![r] = row[r]] /\ pc[r] \in HandlerStages
  BY SameValue DEF TypeOK
<1>2. pc[r] # "accepted" => row[r].status # "success"
  BY DEF Lifecycle, RowsOfHandlers
<1>3. CASE ValidateTransferReward(r)
  <2>1. pc[r] = "new" /\ row[r].status = "none"
    BY <1>3 DEF ValidateTransferReward, Lifecycle, RowsOfHandlers
  <2>2. QED
    BY <1>1, <1>3, <2>1, HandlerQuiet DEF ValidateTransferReward, Busy
<1>4. CASE CreateTransferStatus(r)
  <2>1. pc[r] = "insert"
    BY <1>4 DEF CreateTransferStatus
  <2>2. CASE InsertRow(r)
    BY <1>4, <2>1, <2>2, HandlerQuiet DEF CreateTransferStatus, InsertRow, Busy
  <2>3. CASE row' = row /\ pc' = [pc EXCEPT ![r] = "error"]
    BY <1>1, <1>2, <1>4, <2>1, <2>3, HandlerQuiet DEF CreateTransferStatus, Busy
  <2>4. QED
    BY <1>4, <2>2, <2>3 DEF CreateTransferStatus
<1>5. CASE LookupQueue(r)
  <2>1. pc[r] = "lookup" /\ row[r].status = "queued"
    BY <1>5 DEF LookupQueue, Lifecycle, RowsOfHandlers
  <2>2. QED
    BY <1>1, <1>5, <2>1, HandlerQuiet DEF LookupQueue, Busy
<1>6. CASE CreateQueue(r)
  <2>1. pc[r] = "create" /\ row[r].status = "queued"
    BY <1>6 DEF CreateQueue, Lifecycle, RowsOfHandlers
  <2>2. \A q \in Requests : Busy(q)' => Busy(q) /\ wpc'[q] = wpc[q]
    BY <1>6 DEF CreateQueue, StartQueue, Busy, JobStages, TypeOK
  <2>3. UNCHANGED <<ch, job, bill, node, chain, row>>
    BY <1>6 DEF CreateQueue, StartQueue
  <2>4. QED
    BY <1>1, <1>6, <2>1, <2>2, <2>3, HandlerQuiet DEF CreateQueue
<1>7. CASE Enqueue(r)
  <2>1. pc[r] = "send" /\ row[r].status = "queued" /\ node[r].state = "none"
    BY <1>7 DEF Enqueue, Lifecycle, RowsOfHandlers
  <2>2. CASE pc' = [pc EXCEPT ![r] = "markfull"] /\ ch' = ch
    BY <1>1, <1>7, <2>1, <2>2, HandlerQuiet DEF Enqueue, Busy
  <2>3. CASE /\ pc' = [pc EXCEPT ![r] = "accepted"]
             /\ ch' = [ch EXCEPT ![own[r]] = Append(ch[own[r]], r)]
    <3>1. UNCHANGED <<row, wpc, job, bill, node, chain>>
      BY <1>7 DEF Enqueue
    <3>2. own[r] \in Requests
      BY <2>1 DEF TypeOK, Ownership, HandlersAgree
    <3>3. /\ \A q \in Requests : job[q] # r /\ (Busy(q) => job[q] \in Requests)
          /\ \A q \in Requests : \A i \in DOMAIN ch[q] :
                 ch[q][i] # r /\ ch[q][i] \in Requests
      <4>1. \A q \in Requests : Busy(q) => job[q] # r
        BY <2>1 DEF Lifecycle, HeldJobs
      <4>2. \A q \in Requests : IF Busy(q) THEN job[q] \in Requests ELSE job[q] = None
        BY DEF Ownership, JobsBelong, TypeOK
      <4>3. \A q \in Requests : ch[q] \in Seq(Requests)
        BY DEF TypeOK, Channels
      <4>4. \A q \in Requests : \A i \in DOMAIN ch[q] : ch[q][i] # r
        BY <2>1 DEF Lifecycle, WaitingJobs
      <4>5. QED
        BY <4>1, <4>2, <4>3, <4>4
    <3>4. \A x \in Requests : pc'[x] = IF x = r THEN "accepted" ELSE pc[x]
      BY <2>3 DEF TypeOK
    <3>5. ASSUME NEW q \in Requests
          PROVE  \A i \in DOMAIN ch'[q] :
                   /\ ch'[q][i] = r \/ (i \in DOMAIN ch[q] /\ ch'[q][i] = ch[q][i])
                   /\ \A j \in DOMAIN ch'[q] : ch'[q][i] = r /\ ch'[q][j] = r => i = j
      <4>1. CASE q = own[r]
        <5>1. ch[q] \in Seq(Requests) /\ ch'[q] = Append(ch[q], r)
          BY <2>3, <3>2, <4>1 DEF TypeOK, Channels
        <5>2. QED
          BY <3>3, <5>1, AppendElements
      <4>2. CASE q # own[r]
        BY <2>3, <3>3, <4>2 DEF TypeOK
      <4>3. QED
        BY <4>1, <4>2
    <3>6. WaitingJobs'
      <4>1. ASSUME NEW q \in Requests, NEW i \in DOMAIN ch'[q]
            PROVE /\ pc'[ch'[q][i]] = "accepted"
                  /\ row[ch'[q][i]].status = "queued"
                  /\ node[ch'[q][i]].state = "none"
                  /\ \A p \in Requests : job[p] # ch'[q][i]
                  /\ \A j \in DOMAIN ch'[q] : ch'[q][i] = ch'[q][j] => i = j
        BY <2>1, <3>3, <3>4, <3>5 DEF Lifecycle, WaitingJobs
      <4>2. QED
        BY <3>1, <4>1 DEF WaitingJobs
    <3>7. HeldJobs'
      BY <3>1, <3>3, <3>4 DEF Lifecycle, HeldJobs, Busy
    <3>8. RowsOfHandlers'
      BY <3>1, <3>4 DEF Lifecycle, RowsOfHandlers
    <3>9. QED
      BY <3>1, <3>6, <3>7, <3>8
         DEF Lifecycle, NodeIsBilled, SuccessIsCommitted, ChainIsNode, Executions
  <2>4. QED
    BY <1>7, <2>2, <2>3 DEF Enqueue
<1>8. CASE MarkQueueFull(r)
  <2>1. pc[r] = "markfull" /\ pc' = [pc EXCEPT ![r] = "unavailable"]
    BY <1>8 DEF MarkQueueFull
  <2>2. CASE row' = row
    BY <1>1, <1>2, <1>8, <2>1, <2>2, HandlerQuiet DEF MarkQueueFull, Busy
  <2>3. CASE row' = [row EXCEPT ![r] = [row[r] EXCEPT !.status = "failed"]]
    <3>1. row[r] \in Rows
      BY DEF TypeOK
    <3>2. [row[r] EXCEPT !.status = "failed"].status = "failed"
      BY <3>1, StatusChanges
    <3>3. QED
      BY <1>8, <2>1, <2>3, <3>2, HandlerQuiet DEF MarkQueueFull, Busy
  <2>4. QED
    BY <1>8, <2>2, <2>3 DEF MarkQueueFull
<1>9. QED
  BY <1>3, <1>4, <1>5, <1>6, <1>7, <1>8 DEF Handler

(* A worker keeps Lifecycle: it takes its job through the node once, and   *)
(* records success only of what the node committed.                        *)
LEMMA LifecycleWorker ==
    ASSUME TypeOK, Ownership, Lifecycle, NEW q \in Requests, Worker(q)
    PROVE  Lifecycle'
<1> USE DEF WorkerGoes, handlerVars, queueVars, nodeVars, auxVars
<1>1. /\ row = [row EXCEPT ![job[q]] = row[job[q]]]
      /\ node = [node EXCEPT ![job[q]] = node[job[q]]]
      /\ bill = [bill EXCEPT ![q] = bill[q]]
  BY SameValue DEF TypeOK
<1>2. Busy(q) =>
        /\ job[q] \in Requests /\ row[job[q]].status \in Open
        /\ row[job[q]] \in Rows /\ node[job[q]] \in Tickets
        /\ node[job[q]].state # "none" => node[job[q]].bill \in Bills
  BY DEF Ownership, JobsBelong, TypeOK, Lifecycle, HeldJobs, NodeIsBilled
<1>3. CASE ReceiveJob(q)
  <2>1. ch[q] \in Seq(Requests) /\ ch[q] # <<>> /\ wpc[q] = "idle"
    BY <1>3 DEF ReceiveJob, TypeOK, Channels
  <2>2. /\ job' = [job EXCEPT ![q] = Head(ch[q])] /\ ch' = [ch EXCEPT ![q] = Tail(ch[q])]
        /\ wpc' = [wpc EXCEPT ![q] = "spacing"]
        /\ UNCHANGED <<row, pc, bill, node, chain>>
    BY <1>3 DEF ReceiveJob
  <2>3. DEFINE h == Head(ch[q])
  <2>4. /\ h = ch[q][1] /\ 1 \in DOMAIN ch[q] /\ h \in Requests
        /\ \A i \in DOMAIN Tail(ch[q]) : /\ i \in Nat /\ i + 1 \in DOMAIN ch[q]
                                         /\ i + 1 # 1 /\ Tail(ch[q])[i] = ch[q][i + 1]
    BY <2>1, TailElements
  <2>5. /\ pc[h] = "accepted" /\ row[h].status = "queued" /\ node[h].state = "none"
        /\ \A p \in Requests : job[p] # h
    BY <2>4 DEF Lifecycle, WaitingJobs
  <2>6. ASSUME NEW p \in Requests, p # q
        PROVE  \A i \in DOMAIN ch[p] : ch[p][i] # h
    <3>1. ASSUME NEW i \in DOMAIN ch[p], ch[p][i] = h PROVE ch[p] # <<>>
      BY <3>1
    <3>2. QED
      BY <2>1, <2>4, <2>6, <3>1, OneHolder
  <2>7. WaitingJobs'
    <3>1. ASSUME NEW p \in Requests, NEW i \in DOMAIN ch'[p]
          PROVE  /\ pc[ch'[p][i]] = "accepted"
                 /\ row[ch'[p][i]].status = "queued"
                 /\ node[ch'[p][i]].state = "none"
                 /\ \A o \in Requests : job'[o] # ch'[p][i]
                 /\ \A j \in DOMAIN ch'[p] : ch'[p][i] = ch'[p][j] => i = j
      <4>1. \A o \in Requests : job'[o] = IF o = q THEN h ELSE job[o]
        BY <2>2 DEF TypeOK
      <4>2. CASE p = q
        <5>1. ch'[q] = Tail(ch[q])
          BY <2>2 DEF TypeOK
        <5>2. i \in Nat /\ i + 1 \in DOMAIN ch[q] /\ i + 1 # 1 /\ ch'[q][i] = ch[q][i + 1]
          BY <2>4, <4>2, <5>1
        <5>3. ch'[q][i] # h
          BY <2>4, <5>2 DEF Lifecycle, WaitingJobs
        <5>4. \A j \in DOMAIN ch'[q] : ch'[q][i] = ch'[q][j] => i + 1 = j + 1
          BY <2>4, <5>1, <5>2 DEF Lifecycle, WaitingJobs
        <5>5. \A j \in DOMAIN ch'[q] : ch'[q][i] = ch'[q][j] => i = j
          BY <2>4, <5>1, <5>2, <5>4
        <5>6. QED
          BY <4>1, <4>2, <5>2, <5>3, <5>5 DEF Lifecycle, WaitingJobs
      <4>3. CASE p # q
        <5>1. ch'[p] = ch[p]
          BY <2>2, <4>3 DEF TypeOK
        <5>2. QED
          BY <2>6, <4>1, <4>3, <5>1 DEF Lifecycle, WaitingJobs
      <4>4. QED
        BY <4>2, <4>3
    <3>2. QED
      BY <2>2, <3>1 DEF WaitingJobs
  <2>8. HeldJobs'
    <3>1. \A p \in Requests : p # q => (Busy(p)' => Busy(p)) /\ wpc'[p] = wpc[p] /\ job'[p] = job[p]
      BY <2>2 DEF Busy, TypeOK
    <3>2. wpc'[q] = "spacing" /\ job'[q] = h
      BY <2>2 DEF TypeOK
    <3>3. QED
      BY <2>2, <2>5, <3>1, <3>2 DEF Lifecycle, HeldJobs, Open
  <2>9. QED
    BY <2>2, <2>7, <2>8 DEF Lifecycle, RowsOfHandlers, NodeIsBilled,
                            SuccessIsCommitted, ChainIsNode, Executions
<1>4. CASE StartJob(q)
  <2>1. wpc[q] = "spacing" /\ Busy(q) /\ node[job[q]].state = "none"
    BY <1>4 DEF StartJob, Busy, Lifecycle, HeldJobs
  <2>2. QED
    BY <1>1, <1>2, <1>4, <2>1, WorkerBusyStep DEF StartJob, JobStages
<1>5. CASE MarkProcessing(q)
  <2>1. wpc[q] = "mark" /\ Busy(q) /\ node[job[q]].state = "none"
    BY <1>5 DEF MarkProcessing, Busy, JobStages, Lifecycle, HeldJobs
  <2>2. PICK w : w.status \in Open /\ row' = [row EXCEPT ![job[q]] = w]
    <3>1. [row[job[q]] EXCEPT !.status = "processing"].status \in Open
      BY <1>2, <2>1, StatusChanges DEF Open
    <3>2. QED
      BY <1>1, <1>2, <1>5, <2>1, <3>1 DEF MarkProcessing, JobWrites
  <2>3. QED
    BY <1>1, <1>2, <1>5, <2>1, <2>2, WorkerBusyStep DEF MarkProcessing, JobStages
<1>6. CASE ResolveBill(q)
  <2>1. wpc[q] = "resolve" /\ Busy(q) /\ node[job[q]].state = "none"
    BY <1>6 DEF ResolveBill, Busy, JobStages, Lifecycle, HeldJobs
  <2>2. CASE \E b \in Bills : bill' = [bill EXCEPT ![q] = b] /\ wpc' = [wpc EXCEPT ![q] = "post"]
    <3>1. PICK b \in Bills : bill' = [bill EXCEPT ![q] = b]
      BY <2>2
    <3>2. wpc' = [wpc EXCEPT ![q] = "post"]
      BY <2>2
    <3>3. UNCHANGED <<row, node, pc, ch, job, chain>>
      BY <1>6 DEF ResolveBill
    <3>4. QED
      BY <1>1, <1>2, <2>1, <3>1, <3>2, <3>3, WorkerBusyStep DEF JobStages
  <2>3. CASE bill' = bill /\ wpc' = [wpc EXCEPT ![q] = "fail"]
    BY <1>1, <1>2, <1>6, <2>1, <2>3, WorkerBusyStep DEF ResolveBill, JobStages
  <2>4. QED
    BY <1>6, <2>2, <2>3 DEF ResolveBill
<1>7. CASE PostTx(q)
  <2>1. wpc[q] = "post" /\ Busy(q) /\ node[job[q]].state = "none" /\ bill[q] \in Bills
    BY <1>7 DEF PostTx, Busy, JobStages, Lifecycle, HeldJobs
  <2>2. CASE node' = node /\ wpc' = [wpc EXCEPT ![q] = "fail"]
    BY <1>1, <1>2, <1>7, <2>1, <2>2, WorkerBusyStep DEF PostTx, JobStages
  <2>3. CASE NodePosts(q) /\ wpc' \in {[wpc EXCEPT ![q] = s] : s \in {"sign", "fail"}}
    BY <1>1, <1>2, <1>7, <2>1, <2>3, WorkerBusyStep DEF PostTx, NodePosts, JobStages
  <2>4. QED
    BY <1>7, <2>2, <2>3 DEF PostTx
<1>8. CASE Sign(q)
  <2>1. /\ wpc[q] = "sign" /\ Busy(q) /\ node[job[q]].state = "posted"
        /\ bill[q] \in Bills /\ node[job[q]].bill = bill[q]
    BY <1>8 DEF Sign, Busy, JobStages, Lifecycle, HeldJobs
  <2>2. CASE node' = node /\ wpc' = [wpc EXCEPT ![q] = "fail"]
    BY <1>1, <1>2, <1>8, <2>1, <2>2, WorkerBusyStep DEF Sign, JobStages
  <2>3. CASE /\ node' = [node EXCEPT ![job[q]] = [node[job[q]] EXCEPT !.state = "signing"]]
             /\ wpc' = [wpc EXCEPT ![q] = "signing"]
    <3>1. LET t == [node[job[q]] EXCEPT !.state = "signing"]
          IN  t.state = "signing" /\ t.bill = bill[q]
      BY <1>2, <2>1, StateChanges
    <3>2. QED
      BY <1>1, <1>2, <1>8, <2>1, <2>3, <3>1, WorkerBusyStep DEF Sign, JobStages
  <2>4. QED
    BY <1>8, <2>2, <2>3 DEF Sign
<1>9. CASE SignReturns(q) \/ SignTimesOut(q)
  <2>1. /\ wpc[q] = "signing" /\ Busy(q) /\ bill[q] \in Bills
        /\ node[job[q]].bill = bill[q] /\ node[job[q]].state # "none"
    BY <1>9 DEF SignReturns, SignTimesOut, Busy, JobStages, Lifecycle, HeldJobs
  <2>2. UNCHANGED <<row, node, bill, pc, ch, job, chain>>
    BY <1>9 DEF SignReturns, SignTimesOut
  <2>3. CASE wpc' = [wpc EXCEPT ![q] = "fail"]
    BY <1>1, <1>2, <2>1, <2>2, <2>3, WorkerBusyStep DEF JobStages
  <2>4. CASE wpc' = [wpc EXCEPT ![q] = "succeed"] /\ node[job[q]].state = "committed"
    BY <1>1, <1>2, <2>1, <2>2, <2>4, WorkerBusyStep DEF JobStages
  <2>5. QED
    BY <1>9, <2>3, <2>4 DEF SignReturns, SignTimesOut
<1>10. CASE RecordSuccess(q)
  <2>1. /\ wpc[q] = "succeed" /\ Busy(q) /\ node[job[q]].bill = bill[q]
        /\ node[job[q]].state = "committed"
    BY <1>10 DEF RecordSuccess, Busy, JobStages, Lifecycle, HeldJobs
  <2>2. CASE row' = row
    BY <1>1, <1>2, <1>10, <2>1, <2>2, WorkerEndStep DEF RecordSuccess, Open
  <2>3. CASE row' = [row EXCEPT ![job[q]] = SuccessRow(q)]
    BY <1>10, <2>1, <2>3, WorkerEndStep DEF RecordSuccess, SuccessRow
  <2>4. QED
    BY <1>10, <2>2, <2>3 DEF RecordSuccess, JobWrites
<1>11. CASE RecordFailure(q)
  <2>1. wpc[q] = "fail" /\ Busy(q)
    BY <1>11 DEF RecordFailure, Busy, JobStages
  <2>2. CASE row' = row
    BY <1>1, <1>2, <1>11, <2>1, <2>2, WorkerEndStep DEF RecordFailure, Open
  <2>3. CASE row' = [row EXCEPT ![job[q]] = FailedRow(q)]
    <3>1. FailedRow(q).status = "failed"
      BY <1>2, <2>1, StatusChanges DEF FailedRow
    <3>2. QED
      BY <1>11, <2>1, <2>3, <3>1, WorkerEndStep DEF RecordFailure
  <2>4. QED
    BY <1>11, <2>2, <2>3 DEF RecordFailure, JobWrites
<1>12. QED
  BY <1>3, <1>4, <1>5, <1>6, <1>7, <1>8, <1>9, <1>10, <1>11
     DEF Worker, ProcessOne, ProcessTransferReward

(* The end of a signing keeps Lifecycle: a request is committed once, with *)
(* the bill that was posted for it.                                        *)
LEMMA LifecycleNode ==
    ASSUME TypeOK, Ownership, Lifecycle, NEW r \in Requests, NodeCommits(r) \/ NodeRefuses(r)
    PROVE  Lifecycle'
<1> DEFINE a == AdminOf[r]
           t == node'[r]
<1> USE DEF Lifecycle, handlerVars, queueVars, workerVars, auxVars
<1>1. UNCHANGED <<row, pc, ch, wpc, job, bill>>
  BY DEF NodeCommits, NodeRefuses
<1>2. node[r].state = "signing" /\ node[r].bill \in Bills /\ a \in Admins
  BY DEF NodeCommits, NodeRefuses, NodeIsBilled, TypeOK
<1>3. /\ \A x \in Requests : x # r => node'[x] = node[x]
      /\ t.state \in {"committed", "refused"} /\ t.bill = node[r].bill
  <2>1. PICK s \in {"committed", "refused"} :
            node' = [node EXCEPT ![r] = [node[r] EXCEPT !.state = s]]
    BY DEF NodeCommits, NodeRefuses
  <2>2. node[r] \in Tickets
    BY DEF TypeOK
  <2>3. t = [node[r] EXCEPT !.state = s]
    BY <2>1 DEF TypeOK
  <2>4. QED
    BY <2>1, <2>2, <2>3, StateChanges DEF TypeOK
<1>4. WaitingJobs'
  <2>1. \A q \in Requests : \A i \in DOMAIN ch[q] :
            ch[q][i] \in Requests /\ ch[q][i] # r
    BY <1>2 DEF WaitingJobs, TypeOK, Channels
  <2>2. QED
    BY <1>1, <1>3, <2>1 DEF WaitingJobs
<1>5. HeldJobs'
  <2>1. ASSUME NEW q \in Requests, Busy(q), job[q] = r
        PROVE  wpc[q] \notin {"spacing", "mark", "resolve", "post", "sign", "succeed"}
    BY <1>2, <2>1 DEF HeldJobs
  <2>2. ASSUME NEW q \in Requests, Busy(q)
        PROVE  /\ wpc[q] \in {"spacing", "mark", "resolve", "post"} => node'[job[q]].state = "none"
               /\ wpc[q] \in {"sign", "signing", "succeed"} => node'[job[q]].bill = bill[q]
               /\ wpc[q] = "sign" => node'[job[q]].state = "posted"
               /\ wpc[q] = "signing" => node'[job[q]].state \in {"signing", "committed", "refused"}
               /\ wpc[q] = "succeed" => node'[job[q]].state = "committed"
    <3>1. CASE job[q] = r
      BY <1>3, <2>1, <2>2, <3>1 DEF HeldJobs
    <3>2. CASE job[q] # r
      <4>1. job[q] \in Requests
        BY <2>2 DEF Ownership, JobsBelong, TypeOK
      <4>2. QED
        BY <1>3, <2>2, <3>2, <4>1 DEF HeldJobs
    <3>3. QED
      BY <3>1, <3>2
  <2>3. QED
    BY <1>1, <2>2 DEF HeldJobs, Busy
<1>6. RowsOfHandlers' /\ NodeIsBilled' /\ SuccessIsCommitted'
  BY <1>1, <1>2, <1>3 DEF RowsOfHandlers, NodeIsBilled, SuccessIsCommitted
<1>7. \A x \in Admins : \A i \in DOMAIN chain[x] :
         chain[x][i].req \in Requests /\ chain[x][i].req # r
  <2>1. \A x \in Admins : \A i \in DOMAIN chain[x] : chain[x][i] \in Entries
    BY DEF TypeOK
  <2>2. QED
    BY <1>2, <2>1 DEF ChainIsNode, Entries
<1>8. CASE NodeRefuses(r)
  <2>1. chain' = chain /\ t.state = "refused"
    <3>1. node[r] \in Tickets /\ t = [node[r] EXCEPT !.state = "refused"]
      BY <1>8 DEF NodeRefuses, TypeOK
    <3>2. QED
      BY <1>8, <3>1, StateChanges DEF NodeRefuses
  <2>2. ChainIsNode'
    BY <1>2, <1>3, <1>7, <2>1 DEF ChainIsNode, Executions
  <2>3. QED
    BY <1>4, <1>5, <1>6, <2>2
<1>9. CASE NodeCommits(r)
  <2>1. DEFINE e == [req |-> r, bill |-> node[r].bill]
  <2>2. /\ chain[a] \in Seq(Entries) /\ e \in Entries /\ chain'[a] = Append(chain[a], e)
        /\ \A x \in Admins : x # a => chain'[x] = chain[x]
        /\ t.state = "committed"
    <3>1. node[r] \in Tickets /\ t = [node[r] EXCEPT !.state = "committed"]
      BY <1>9 DEF NodeCommits, TypeOK
    <3>2. t.state = "committed"
      BY <3>1, StateChanges
    <3>3. QED
      BY <1>2, <1>9, <3>2 DEF NodeCommits, TypeOK, Entries
  <2>3. /\ DOMAIN chain[a] \subseteq DOMAIN chain'[a]
        /\ \A i \in DOMAIN chain[a] : chain'[a][i] = chain[a][i]
        /\ Len(chain[a]) + 1 \in DOMAIN chain'[a]
        /\ \A i \in DOMAIN chain'[a] \ DOMAIN chain[a] :
               i = Len(chain[a]) + 1 /\ chain'[a][i] = e
        /\ chain'[a][Len(chain[a]) + 1] = e
    BY <2>2, AppendElements
  <2>4. ASSUME NEW x \in Requests, node'[x].state = "committed"
        PROVE  \E i \in DOMAIN chain'[AdminOf[x]] : chain'[AdminOf[x]][i].req = x
    <3>1. CASE x = r
      BY <2>3, <3>1
    <3>2. CASE x # r
      <4>1. PICK i \in DOMAIN chain[AdminOf[x]] : chain[AdminOf[x]][i].req = x
        BY <1>3, <2>4, <3>2 DEF ChainIsNode, Executions
      <4>2. QED
        BY <2>2, <2>3, <4>1
    <3>3. QED
      BY <3>1, <3>2
  <2>5. ASSUME NEW x \in Admins, NEW i \in DOMAIN chain'[x]
        PROVE  /\ AdminOf[chain'[x][i].req] = x
               /\ node'[chain'[x][i].req].state = "committed"
               /\ chain'[x][i].bill = node'[chain'[x][i].req].bill
               /\ \A j \in DOMAIN chain'[x] : chain'[x][i].req = chain'[x][j].req => i = j
    <3>1. CASE x = a /\ i \notin DOMAIN chain[a]
      <4>1. i = Len(chain[a]) + 1 /\ chain'[a][i] = e
        BY <2>3, <2>5, <3>1
      <4>2. \A j \in DOMAIN chain'[a] : chain'[a][j].req = r => j = i
        <5>1. SUFFICES ASSUME NEW j \in DOMAIN chain'[a], chain'[a][j].req = r PROVE j = i
          OBVIOUS
        <5>2. CASE j \in DOMAIN chain[a]
          BY <1>7, <2>3, <5>1, <5>2
        <5>3. CASE j \notin DOMAIN chain[a]
          BY <2>3, <4>1, <5>1, <5>3
        <5>4. QED
          BY <5>2, <5>3
      <4>3. chain'[x][i].req = r /\ chain'[x][i].bill = node[r].bill
        BY <3>1, <4>1
      <4>4. AdminOf[r] = x /\ node'[r].state = "committed" /\ node'[r].bill = node[r].bill
        BY <1>3, <2>2, <3>1
      <4>5. QED
        BY <3>1, <4>2, <4>3, <4>4
    <3>2. CASE i \in DOMAIN chain[x]
      <4>1. chain'[x][i] = chain[x][i] /\ chain[x][i].req \in Requests /\ chain[x][i].req # r
        BY <1>7, <2>2, <2>3, <3>2
      <4>2. \A j \in DOMAIN chain'[x] : chain'[x][i].req = chain'[x][j].req => i = j
        <5>1. ASSUME NEW j \in DOMAIN chain'[x], chain'[x][i].req = chain'[x][j].req
              PROVE  j \in DOMAIN chain[x] /\ chain'[x][j] = chain[x][j]
          <6>1. CASE x = a
            BY <2>3, <4>1, <5>1, <6>1
          <6>2. CASE x # a
            BY <2>2, <6>2
          <6>3. QED
            BY <6>1, <6>2
        <5>2. QED
          BY <3>2, <4>1, <5>1 DEF ChainIsNode
      <4>3. QED
        BY <1>3, <3>2, <4>1, <4>2 DEF ChainIsNode
    <3>3. QED
      BY <2>2, <3>1, <3>2
  <2>6. ChainIsNode'
    BY <2>4, <2>5 DEF ChainIsNode, Executions
  <2>7. QED
    BY <1>4, <1>5, <1>6, <2>6
<1>10. QED
  BY <1>8, <1>9

(* Every step keeps Lifecycle.                                             *)
LEMMA LifecycleStep == TypeOK /\ Ownership /\ Lifecycle /\ [Next]_vars => Lifecycle'
<1> SUFFICES ASSUME TypeOK, Ownership, Lifecycle, [Next]_vars PROVE Lifecycle'
  OBVIOUS
<1>1. CASE \E r \in Requests : Handler(r) \/ Worker(r) \/ NodeCommits(r) \/ NodeRefuses(r)
  BY <1>1, LifecycleHandler, LifecycleWorker, LifecycleNode
<1>2. CASE UNCHANGED <<row, pc, ch, wpc, job, bill, nodeVars>>
  BY <1>2 DEF Lifecycle, WaitingJobs, HeldJobs, RowsOfHandlers, NodeIsBilled,
              SuccessIsCommitted, ChainIsNode, Executions, Busy, nodeVars
<1>3. CASE Restart
  <2>1. /\ \A q \in Requests : ch'[q] = <<>> /\ wpc'[q] = "none"
        /\ \A r \in Requests : pc'[r] = IF pc[r] \in HandlerRunning THEN "lost" ELSE pc[r]
        /\ UNCHANGED <<row, node, chain>>
    BY <1>3 DEF Restart, nodeVars
  <2>2. WaitingJobs' /\ HeldJobs'
    BY <2>1 DEF WaitingJobs, HeldJobs, Busy, JobStages
  <2>3. RowsOfHandlers'
    BY <2>1 DEF Lifecycle, RowsOfHandlers, HandlerRunning
  <2>4. QED
    BY <2>1, <2>2, <2>3 DEF Lifecycle, NodeIsBilled, SuccessIsCommitted,
                            ChainIsNode, Executions
<1>4. QED
  BY <1>1, <1>2, <1>3 DEF Next, Idle, vars, DeadlineFires, handlerVars,
        queueVars, workerVars, nodeVars

(* Row, channel, worker, node and chain agree on how far a request has     *)
(* come, in every run.                                                     *)
LEMMA LifecycleInvariant == Spec => []Lifecycle
<1>1. Init => Lifecycle
  BY LifecycleInit
<1>2. TypeOK /\ Ownership /\ Lifecycle /\ [Next]_vars => Lifecycle'
  BY LifecycleStep
<1>3. QED
  BY <1>1, <1>2, TypeCorrect, OwnershipInvariant, PTL DEF Spec

(***************************************************************************)
(* What the two inductive invariants are for.                              *)
(***************************************************************************)

(* A row that says success is backed by an execution with the row's        *)
(* contract and points, whatever failed or restarted meanwhile.            *)
THEOREM Success == Spec => []SuccessIsOnChain
<1>1. ASSUME Lifecycle, NEW r \in Requests, row[r].status = "success"
      PROVE  \E i \in Executions(r) : chain[AdminOf[r]][i].bill = row[r].bill
  <2>1. PICK i \in DOMAIN chain[AdminOf[r]] : chain[AdminOf[r]][i].req = r
    BY <1>1 DEF Lifecycle, SuccessIsCommitted, ChainIsNode, Executions
  <2>2. QED
    BY <1>1, <2>1 DEF Lifecycle, SuccessIsCommitted, ChainIsNode, Executions
<1>2. Lifecycle => SuccessIsOnChain
  BY <1>1 DEF SuccessIsOnChain
<1>3. QED
  BY <1>2, LifecycleInvariant, PTL

(* No request is executed twice: its job is in one place, and a place      *)
(* remembers how far the node has come with it.                            *)
THEOREM ExecutedOnce == Spec => []AtMostOnce
<1>1. Lifecycle => AtMostOnce
  BY DEF Lifecycle, ChainIsNode, AtMostOnce, Executions
<1>2. QED
  BY <1>1, LifecycleInvariant, PTL

(* A request that was answered 400, 500 or 503 is never run.               *)
THEOREM Refused == Spec => []RefusedNeverRuns
<1>1. ASSUME TypeOK, Ownership, Lifecycle, NEW r \in Requests, pc[r] \in Refusals
      PROVE  /\ Executions(r) = {}
             /\ \A q \in Requests : job[q] # r /\ \A i \in DOMAIN ch[q] : ch[q][i] # r
  <2>1. pc[r] # "accepted" /\ node[r].state = "none"
    BY <1>1 DEF Refusals, Lifecycle, RowsOfHandlers
  <2>2. Executions(r) = {}
    BY <2>1, <1>1 DEF Lifecycle, ChainIsNode, Executions
  <2>3. \A q \in Requests : IF Busy(q) THEN pc[job[q]] = "accepted" ELSE job[q] = None
    BY <1>1 DEF Lifecycle, HeldJobs, Ownership, JobsBelong
  <2>4. \A q \in Requests : \A i \in DOMAIN ch[q] : ch[q][i] # r
    BY <1>1, <2>1 DEF Lifecycle, WaitingJobs
  <2>5. QED
    BY <2>1, <2>2, <2>3, <2>4
<1>2. TypeOK /\ Ownership /\ Lifecycle => RefusedNeverRuns
  BY <1>1 DEF RefusedNeverRuns
<1>3. QED
  BY <1>2, TypeCorrect, OwnershipInvariant, LifecycleInvariant, PTL

(* Only one row changes in a step, and it is an open row or a new one.     *)
LEMMA RowStep ==
    ASSUME TypeOK, Ownership, Lifecycle, [Next]_vars
    PROVE  \/ row' = row
           \/ \E r \in Requests, w \in Rows :
                 row[r].status \notin Settled /\ row' = [row EXCEPT ![r] = w]
<1>1. ASSUME NEW r \in Requests, CreateTransferStatus(r), row' # row
      PROVE  row[r].status \notin Settled
                 /\ row' = [row EXCEPT ![r] = [status |-> "queued", bill |-> NoBill]]
  BY <1>1 DEF CreateTransferStatus, InsertRow, HandlerGoes, Lifecycle, RowsOfHandlers, Settled
<1>2. ASSUME NEW r \in Requests, MarkQueueFull(r), row' # row
      PROVE  row[r].status \notin Settled
                 /\ row' = [row EXCEPT ![r] = [row[r] EXCEPT !.status = "failed"]]
  BY <1>2 DEF MarkQueueFull, HandlerGoes, Lifecycle, RowsOfHandlers, Settled
<1>3. ASSUME NEW q \in Requests, MarkProcessing(q) \/ RecordSuccess(q) \/ RecordFailure(q),
             row' # row
      PROVE  \E w \in Rows : /\ job[q] \in Requests /\ row[job[q]].status \notin Settled
                             /\ row' = [row EXCEPT ![job[q]] = w]
  <2>1. Busy(q)
    BY <1>3 DEF MarkProcessing, RecordSuccess, RecordFailure, WorkerGoes, Busy, JobStages
  <2>2. job[q] \in Requests /\ row[job[q]] \in Rows
    BY <2>1 DEF TypeOK, Ownership, JobsBelong
  <2>3. row[job[q]].status \notin Settled
    BY <2>1 DEF Lifecycle, HeldJobs, Open, Settled
  <2>4. SuccessRow(q) \in Rows
    BY DEF SuccessRow, Rows, Statuses, TypeOK
  <2>5. FailedRow(q) \in Rows /\ [row[job[q]] EXCEPT !.status = "processing"] \in Rows
    BY <2>2, RowTypes DEF FailedRow
  <2>6. QED
    BY <1>3, <2>2, <2>3, <2>4, <2>5 DEF MarkProcessing, RecordSuccess, RecordFailure, JobWrites
<1>4. CASE \E r \in Requests : CreateTransferStatus(r) \/ MarkQueueFull(r)
  <2>1. PICK r \in Requests : CreateTransferStatus(r) \/ MarkQueueFull(r)
    BY <1>4
  <2>2. row[r] \in Rows
    BY DEF TypeOK
  <2>3. QED
    BY <1>1, <1>2, <2>1, <2>2, RowTypes
<1>5. CASE \E q \in Requests : MarkProcessing(q) \/ RecordSuccess(q) \/ RecordFailure(q)
  BY <1>3, <1>5
<1>6. CASE UNCHANGED row
  BY <1>6
<1>7. ASSUME NEW r \in Requests, Handler(r),
             ~CreateTransferStatus(r), ~MarkQueueFull(r)
      PROVE  UNCHANGED row
  BY <1>7 DEF Handler, ValidateTransferReward, LookupQueue, CreateQueue, Enqueue
<1>8. ASSUME NEW q \in Requests, Worker(q),
             ~MarkProcessing(q), ~RecordSuccess(q), ~RecordFailure(q)
      PROVE  UNCHANGED row
  BY <1>8 DEF Worker, ReceiveJob, StartJob, ProcessOne, ProcessTransferReward,
              ResolveBill, PostTx, Sign, SignReturns, SignTimesOut
<1>9. QED
  BY <1>4, <1>5, <1>6, <1>7, <1>8
     DEF Next, Idle, vars, DeadlineFires, NodeCommits, NodeRefuses, Restart

(* Once a row says success or failed it is never written again.            *)
THEOREM SettledStays == Spec => SettledRowsStay
<1>1. TypeOK /\ Ownership /\ Lifecycle /\ [Next]_vars
        => [\A r \in Requests : row[r].status \in Settled => row'[r] = row[r]]_vars
  BY RowStep DEF TypeOK
<1>2. QED
  BY <1>1, TypeCorrect, OwnershipInvariant, LifecycleInvariant, PTL
     DEF Spec, SettledRowsStay

(***************************************************************************)
(* Without timeouts the client and the node agree on what failed.          *)
(***************************************************************************)

NoTimeouts == Faults \cap {"deadline", "timeout"} = {}

Unexecuted == {"none", "refused"}

FailuresAreOffChain ==
    /\ \A q \in Requests : ~expired[q]
    /\ \A q \in Requests : wpc[q] = "fail" => node[job[q]].state \in Unexecuted
    /\ \A r \in Requests : row[r].status = "failed" => node[r].state \in Unexecuted

(* Contexts of jobs do not end while the jobs run.                         *)
LEMMA NeverExpires ==
    ASSUME "deadline" \notin Faults, TypeOK, \A q \in Requests : ~expired[q], [Next]_vars
    PROVE  \A q \in Requests : ~expired'[q]
BY DEF Next, Handler, ValidateTransferReward, CreateTransferStatus, LookupQueue,
     CreateQueue, Enqueue, MarkQueueFull, Worker, ReceiveJob, StartJob, ProcessOne,
     MarkProcessing, ProcessTransferReward, ResolveBill, PostTx, Sign, SignReturns,
     SignTimesOut, RecordSuccess, RecordFailure, EndJob, DeadlineFires, NodeCommits,
     NodeRefuses, Restart, Idle, vars, workerVars, TypeOK

(* A handler fails the row of a request that never reached the node.       *)
LEMMA OffChainHandler ==
    ASSUME TypeOK, Lifecycle, FailuresAreOffChain, NEW r \in Requests, Handler(r)
    PROVE  FailuresAreOffChain'
<1> USE DEF FailuresAreOffChain
<1>1. UNCHANGED <<expired, node, job>>
  BY DEF Handler, ValidateTransferReward, CreateTransferStatus, LookupQueue, CreateQueue,
         Enqueue, MarkQueueFull, workerVars, nodeVars
<1>2. \A q \in Requests : wpc'[q] = "fail" => wpc[q] = "fail"
  <2>1. wpc' = wpc \/ wpc' = [wpc EXCEPT ![r] = "idle"]
    BY DEF Handler, ValidateTransferReward, CreateTransferStatus, LookupQueue, CreateQueue,
           StartQueue, Enqueue, MarkQueueFull, workerVars
  <2>2. QED
    BY <2>1 DEF TypeOK
<1>3. \A x \in Requests : row'[x].status = "failed" =>
          row[x].status = "failed" \/ (x = r /\ MarkQueueFull(r))
  <2>1. CASE CreateTransferStatus(r)
    BY <2>1 DEF CreateTransferStatus, InsertRow, TypeOK
  <2>2. CASE MarkQueueFull(r)
    BY <2>2 DEF MarkQueueFull, TypeOK
  <2>3. QED
    BY <2>1, <2>2 DEF Handler, ValidateTransferReward, LookupQueue, CreateQueue, Enqueue
<1>4. MarkQueueFull(r) => node[r].state = "none"
  BY DEF MarkQueueFull, HandlerGoes, Lifecycle, RowsOfHandlers
<1>5. QED
  BY <1>1, <1>2, <1>3, <1>4 DEF Unexecuted

(* A worker gives up a job before the node signs it, or once the node has  *)
(* refused it.                                                             *)
LEMMA OffChainWorker ==
    ASSUME NoTimeouts, TypeOK, Ownership, Lifecycle, FailuresAreOffChain,
           NEW q \in Requests, Worker(q)
    PROVE  FailuresAreOffChain'
<1> USE DEF FailuresAreOffChain, WorkerGoes
<1>1. \A p \in Requests : ~expired'[p]
  BY DEF Worker, ReceiveJob, StartJob, ProcessOne, MarkProcessing, ProcessTransferReward,
         ResolveBill, PostTx, Sign, SignReturns, SignTimesOut, RecordSuccess,
         RecordFailure, EndJob, TypeOK
<1>2. CASE ReceiveJob(q)
  <2>1. /\ UNCHANGED <<row, node>>
        /\ \A p \in Requests : wpc'[p] = "fail" => wpc[p] = "fail" /\ job'[p] = job[p]
    BY <1>2 DEF ReceiveJob, TypeOK, nodeVars
  <2>2. QED
    BY <1>1, <2>1
<1>3. CASE StartJob(q) \/ MarkProcessing(q) \/ ProcessTransferReward(q)
  <2>1. PICK r \in Requests : r = job[q] /\ Busy(q)
    BY <1>3 DEF StartJob, MarkProcessing, ProcessTransferReward, ResolveBill, PostTx, Sign,
                SignReturns, SignTimesOut, Busy, JobStages, Ownership, JobsBelong, TypeOK
  <2>2. row[r].status # "failed" /\ row[r] \in Rows
    BY <2>1 DEF Lifecycle, HeldJobs, Open, TypeOK
  <2>3. /\ UNCHANGED job
        /\ \A x \in Requests \ {r} : row'[x] = row[x] /\ node'[x] = node[x]
    <3>1. \/ row' = row
          \/ row' = [row EXCEPT ![r] = [row[r] EXCEPT !.status = "processing"]]
      BY <1>3, <2>1 DEF StartJob, MarkProcessing, JobWrites, ProcessTransferReward,
                ResolveBill, PostTx, Sign, SignReturns, SignTimesOut
    <3>2. \/ node' = node \/ NodePosts(q)
          \/ node' = [node EXCEPT ![r].state = "signing"]
      BY <1>3, <2>1 DEF StartJob, MarkProcessing, ProcessTransferReward,
                ResolveBill, PostTx, Sign, SignReturns, SignTimesOut, nodeVars
    <3>3. UNCHANGED job
      BY <1>3 DEF StartJob, MarkProcessing, ProcessTransferReward,
                ResolveBill, PostTx, Sign, SignReturns, SignTimesOut
    <3>4. QED
      BY <2>1, <3>1, <3>2, <3>3 DEF NodePosts, TypeOK
  <2>4. row'[r].status # "failed"
    <3>1. [row[r] EXCEPT !.status = "processing"].status # "failed"
      BY <2>2, StatusChanges
    <3>2. \/ row' = row
          \/ row' = [row EXCEPT ![r] = [row[r] EXCEPT !.status = "processing"]]
      BY <1>3, <2>1 DEF StartJob, MarkProcessing, JobWrites, ProcessTransferReward,
                ResolveBill, PostTx, Sign, SignReturns, SignTimesOut
    <3>3. QED
      BY <2>2, <3>1, <3>2 DEF TypeOK
  <2>5. \A p \in Requests \ {q} : wpc'[p] = wpc[p] /\ (Busy(p) => job[p] # r)
    <3>1. \A p \in Requests \ {q} : wpc'[p] = wpc[p]
      BY <1>3 DEF StartJob, MarkProcessing, ProcessTransferReward,
                ResolveBill, PostTx, Sign, SignReturns, SignTimesOut, TypeOK
    <3>2. QED
      BY <2>1, <3>1, OneHolder
  <2>6. wpc'[q] = "fail" => node'[r].state \in Unexecuted
    <3>1. CASE ResolveBill(q)
      BY <2>1, <3>1 DEF ResolveBill, Lifecycle, HeldJobs, nodeVars, Unexecuted
    <3>2. CASE PostTx(q)
      BY <2>1, <3>2 DEF PostTx, NoTimeouts, TypeOK, Lifecycle, HeldJobs, Unexecuted
    <3>3. CASE Sign(q)
      BY <3>3 DEF Sign, TypeOK
    <3>4. CASE SignReturns(q)
      BY <2>1, <3>4 DEF SignReturns, TypeOK, nodeVars, Unexecuted
    <3>5. CASE SignTimesOut(q)
      BY <3>5 DEF SignTimesOut, NoTimeouts
    <3>6. CASE StartJob(q) \/ MarkProcessing(q)
      BY <3>6 DEF StartJob, MarkProcessing, TypeOK
    <3>7. QED
      BY <1>3, <3>1, <3>2, <3>3, <3>4, <3>5, <3>6 DEF ProcessTransferReward
  <2>7. \A p \in Requests : wpc'[p] = "fail" => node'[job'[p]].state \in Unexecuted
    <3>1. ASSUME NEW p \in Requests, p # q, wpc'[p] = "fail"
          PROVE  node'[job'[p]] = node[job[p]] /\ node[job[p]].state \in Unexecuted
      <4>1. Busy(p) /\ wpc[p] = "fail"
        BY <2>5, <3>1 DEF Busy, JobStages
      <4>2. job[p] \in Requests \ {r}
        BY <2>5, <3>1, <4>1 DEF Ownership, JobsBelong, TypeOK
      <4>3. QED
        BY <2>3, <4>1, <4>2
    <3>2. QED
      BY <2>1, <2>3, <2>6, <3>1
  <2>8. QED
    BY <1>1, <2>3, <2>4, <2>7
<1>4. CASE RecordSuccess(q) \/ RecordFailure(q)
  <2>1. PICK r \in Requests : r = job[q] /\ Busy(q)
    BY <1>4 DEF RecordSuccess, RecordFailure, Busy, JobStages, Ownership, JobsBelong, TypeOK
  <2>2. /\ UNCHANGED node
        /\ \A p \in Requests : wpc'[p] = "fail" => wpc[p] = "fail" /\ job'[p] = job[p]
    BY <1>4 DEF RecordSuccess, RecordFailure, EndJob, TypeOK, nodeVars
  <2>3. row' = row \/ \E w : row' = [row EXCEPT ![r] = w]
                             /\ (w.status # "failed" \/ node[r].state \in Unexecuted)
    <3>1. CASE RecordSuccess(q)
      BY <2>1, <3>1 DEF RecordSuccess, JobWrites, SuccessRow
    <3>2. CASE RecordFailure(q)
      BY <2>1, <3>2 DEF RecordFailure, JobWrites
    <3>3. QED
      BY <1>4, <3>1, <3>2
  <2>4. QED
    BY <1>1, <2>1, <2>2, <2>3 DEF TypeOK
<1>5. QED
  BY <1>2, <1>3, <1>4 DEF Worker, ProcessOne

(* If no call of the node times out and no job's context ends early, a row *)
(* that says failed was not executed: the client may send it again.        *)
THEOREM FailedIsOffChain ==
    ASSUME NoTimeouts
    PROVE  Spec => []FailedIsNotOnChain
<1>1. Init => FailuresAreOffChain
  BY DEF Init, FailuresAreOffChain
<1>2. TypeOK /\ Ownership /\ Lifecycle /\ FailuresAreOffChain /\ [Next]_vars
        => FailuresAreOffChain'
  <2> SUFFICES ASSUME TypeOK, Ownership, Lifecycle, FailuresAreOffChain, [Next]_vars
               PROVE  FailuresAreOffChain'
    OBVIOUS
  <2>1. CASE \E r \in Requests : Handler(r) \/ Worker(r)
    BY <2>1, OffChainHandler, OffChainWorker
  <2>2. CASE \E r \in Requests : NodeCommits(r) \/ NodeRefuses(r)
    <3>1. PICK r \in Requests : NodeCommits(r) \/ NodeRefuses(r)
      BY <2>2
    <3>2. /\ UNCHANGED <<row, wpc, job, expired>> /\ node[r].state = "signing"
          /\ \A x \in Requests \ {r} : node'[x] = node[x]
      BY <3>1 DEF NodeCommits, NodeRefuses, workerVars, TypeOK
    <3>3. \A q \in Requests : wpc[q] = "fail" => job[q] \in Requests
      BY DEF Ownership, JobsBelong, Busy, JobStages, TypeOK
    <3>4. QED
      BY <3>2, <3>3 DEF FailuresAreOffChain, Unexecuted
  <2>3. CASE Restart
    BY <2>3 DEF Restart, FailuresAreOffChain, nodeVars
  <2>4. CASE \E q \in Requests : DeadlineFires(q)
    BY <2>4 DEF DeadlineFires, NoTimeouts
  <2>5. CASE UNCHANGED vars
    BY <2>5 DEF FailuresAreOffChain, vars, workerVars, nodeVars
  <2>6. QED
    BY <2>1, <2>2, <2>3, <2>4, <2>5 DEF Next, Idle
<1>3. Lifecycle /\ FailuresAreOffChain => FailedIsNotOnChain
  BY DEF Lifecycle, ChainIsNode, FailuresAreOffChain, FailedIsNotOnChain, Executions,
         Unexecuted
<1>4. QED
  BY <1>1, <1>2, <1>3, TypeCorrect, OwnershipInvariant, LifecycleInvariant, PTL DEF Spec

(***************************************************************************)
(* Jobs are run in the order in which they were sent, and none is lost.    *)
(***************************************************************************)

IsEndOf(s, t) ==
    /\ Len(s) <= Len(t)
    /\ \A i \in 1 .. Len(s) : s[i] = t[Len(t) - Len(s) + i]

(* The end of a sequence as the model writes it.                           *)
LEMMA EndIsSubSeq ==
    ASSUME NEW S, NEW s \in Seq(S), NEW t \in Seq(S), IsEndOf(s, t)
    PROVE  s = SubSeq(t, Len(t) - Len(s) + 1, Len(t))
BY DEF IsEndOf

(* A send adds the same job to the channel and to what was sent.           *)
LEMMA EndAppend ==
    ASSUME NEW S, NEW s \in Seq(S), NEW t \in Seq(S), NEW x \in S, IsEndOf(s, t)
    PROVE  IsEndOf(Append(s, x), Append(t, x))
<1>1. /\ Len(s) \in Nat /\ Len(t) \in Nat /\ Len(s) <= Len(t)
      /\ Len(Append(s, x)) = Len(s) + 1 /\ Len(Append(t, x)) = Len(t) + 1
  BY DEF IsEndOf
<1>2. ASSUME NEW i \in 1 .. Len(s) + 1
      PROVE  Append(s, x)[i] = Append(t, x)[Len(t) + 1 - (Len(s) + 1) + i]
  <2>1. Len(t) + 1 - (Len(s) + 1) + i = Len(t) - Len(s) + i
    BY <1>1
  <2>2. CASE i = Len(s) + 1
    BY <1>1, <2>1, <2>2, AppendElements
  <2>3. CASE i \in 1 .. Len(s)
    <3>1. Len(t) - Len(s) + i \in 1 .. Len(t)
      BY <1>1, <2>3
    <3>2. QED
      BY <2>1, <2>3, <3>1, AppendElements DEF IsEndOf
  <2>4. QED
    BY <1>1, <2>2, <2>3
<1> DEFINE u == Append(s, x)
           v == Append(t, x)
<1>3. /\ Len(u) = Len(s) + 1 /\ Len(v) = Len(t) + 1
      /\ \A i \in 1 .. Len(s) + 1 : u[i] = v[Len(t) + 1 - (Len(s) + 1) + i]
  BY <1>1, <1>2
<1>4. IsEndOf(u, v)
  <2> HIDE DEF u, v
  <2>1. QED
    BY <1>1, <1>3 DEF IsEndOf
<1>5. QED
  BY <1>4

(* A job that is done leaves the front.                                    *)
LEMMA EndDrop ==
    ASSUME NEW S, NEW s \in Seq(S), NEW t \in Seq(S), NEW x \in S,
           IsEndOf(<<x>> \o s, t)
    PROVE  IsEndOf(s, t)
<1>1. /\ Len(<<x>> \o s) = Len(s) + 1
      /\ \A i \in 1 .. Len(s) : (<<x>> \o s)[i + 1] = s[i]
  OBVIOUS
<1>2. Len(s) <= Len(t)
  BY <1>1 DEF IsEndOf
<1>3. ASSUME NEW i \in 1 .. Len(s) PROVE s[i] = t[Len(t) - Len(s) + i]
  <2>1. i + 1 \in 1 .. Len(s) + 1 /\ Len(t) - (Len(s) + 1) + (i + 1) = Len(t) - Len(s) + i
    OBVIOUS
  <2>2. (<<x>> \o s)[i + 1] = t[Len(t) - (Len(s) + 1) + (i + 1)]
    BY <1>1, <2>1 DEF IsEndOf
  <2>3. QED
    BY <1>1, <2>1, <2>2
<1>4. QED
  BY <1>2, <1>3 DEF IsEndOf

(* Taking the oldest job into one's hands changes no order.                *)
LEMMA HeadFirst ==
    ASSUME NEW S, NEW s \in Seq(S)
    PROVE  /\ s # <<>> => <<Head(s)>> \o Tail(s) = s
           /\ \A x, y \in S : <<y>> \o Append(s, x) = Append(<<y>> \o s, x)
OBVIOUS

InOrder == \A a \in Admins : IsEndOf(InFlight(a), sent[a])

(* What an admin's queue object q and its worker hold.                     *)
Holding(q) == IF Busy(q) THEN <<job[q]>> \o ch[q] ELSE ch[q]

(* The jobs in flight of an admin are those its one queue object holds.    *)
LEMMA Holdings ==
    ASSUME TypeOK, Ownership
    PROVE  /\ \A q \in Requests : Holding(q) \in Seq(Requests)
           /\ \A a \in Admins :
                  InFlight(a) = IF queues[a] = None THEN <<>> ELSE Holding(queues[a])
<1>1. ASSUME NEW q \in Requests
      PROVE  /\ Holding(q) \in Seq(Requests)
             /\ Holding(q) = (IF Busy(q) THEN <<job[q]>> ELSE <<>>) \o ch[q]
  <2>1. ch[q] \in Seq(Requests) /\ <<>> \o ch[q] = ch[q]
    BY DEF TypeOK, Channels
  <2>2. Busy(q) => job[q] \in Requests
    BY DEF TypeOK, Ownership, JobsBelong
  <2>3. Busy(q) => <<job[q]>> \in Seq(Requests) /\ <<job[q]>> \o ch[q] \in Seq(Requests)
    BY <2>1, <2>2
  <2>4. QED
    BY <2>1, <2>3 DEF Holding
<1>2. \A q \in Requests : Holding(q) \in Seq(Requests)
  BY <1>1
<1>3. ASSUME NEW a \in Admins
      PROVE  InFlight(a) = IF queues[a] = None THEN <<>> ELSE Holding(queues[a])
  BY <1>1 DEF InFlight, TypeOK
<1>4. QED
  BY <1>2, <1>3

(* What a step does to the jobs in flight of an admin.                     *)
Kept(a)    == InFlight(a)' = InFlight(a) /\ sent'[a] = sent[a]
Sent(a, r) == /\ pc[r] = "send" /\ AdminOf[r] = a
              /\ InFlight(a)' = Append(InFlight(a), r)
              /\ sent'[a] = Append(sent[a], r)
              /\ pc'[r] = "accepted"
Dropped(a) == /\ \E x \in Requests : InFlight(a) = <<x>> \o InFlight(a)'
              /\ sent'[a] = sent[a]

(* A job of admin a ends in this step.                                     *)
Ends(a) ==
    /\ queues[a] # None
    /\ wpc[queues[a]] \in {"succeed", "fail"} /\ wpc'[queues[a]] = "idle"

FlowOf(a) ==
    \/ ~Ends(a) /\ (Kept(a) \/ \E r \in Requests : Sent(a, r))
    \/ Ends(a) /\ Dropped(a)

Flow == \A a \in Admins : FlowOf(a)

(* A step on the queue of admin b leaves the other admins' jobs alone.     *)
LEMMA OtherQueues ==
    ASSUME TypeOK, Ownership, NEW b \in Admins,
           \A a \in Admins \ {b} : queues'[a] = queues[a] /\ sent'[a] = sent[a],
           \A q \in Requests : AdminOf[q] # b =>
               job'[q] = job[q] /\ ch'[q] = ch[q] /\ (Busy(q)' <=> Busy(q)),
           FlowOf(b)
    PROVE  Flow
<1>1. ASSUME NEW a \in Admins, a # b PROVE Kept(a) /\ ~Ends(a)
  <2>1. CASE queues[a] = None
    BY <1>1, <2>1 DEF InFlight, Kept, Ends
  <2>2. CASE queues[a] # None
    <3>1. queues[a] \in Requests /\ AdminOf[queues[a]] = a
      BY <2>2 DEF TypeOK, Ownership, QueuesAreServed
    <3>2. QED
      BY <1>1, <3>1 DEF InFlight, Kept, Ends, Busy, JobStages
  <2>3. QED
    BY <2>1, <2>2
<1>2. QED
  BY <1>1 DEF Flow, FlowOf

(* A step that touches no queue.                                           *)
LEMMA QuietQueues ==
    ASSUME TypeOK, UNCHANGED <<queues, ch, job, sent>>,
           \A q \in Requests : Busy(q)' <=> Busy(q)
    PROVE  Flow
<1>1. \A a \in Admins : InFlight(a)' = InFlight(a)
  BY DEF InFlight, TypeOK
<1>2. \A a \in Admins : ~Ends(a)
  BY DEF Ends, Busy, JobStages, TypeOK
<1>3. QED
  BY <1>1, <1>2 DEF Flow, FlowOf, Kept

(* Enqueue puts the job behind those of its admin; a new queue is empty.   *)
LEMMA FlowHandler ==
    ASSUME TypeOK, Ownership, NEW r \in Requests, Handler(r)
    PROVE  Flow
<1> DEFINE b == AdminOf[r]
<1>1. b \in Admins
  OBVIOUS
<1>2. CASE UNCHANGED <<queues, ch, wpc, job, sent>>
  BY <1>2, QuietQueues DEF Busy
<1>3. CASE CreateQueue(r) /\ queues[b] = None
  <2>1. /\ queues' = [queues EXCEPT ![b] = r] /\ wpc' = [wpc EXCEPT ![r] = "idle"]
        /\ UNCHANGED <<ch, job, sent>>
    BY <1>3 DEF CreateQueue, StartQueue, auxVars
  <2>2. wpc[r] = "none"
    BY <1>3 DEF Ownership, WorkersAreOwned
  <2>3. ch[r] = <<>>
    BY <2>2 DEF Ownership, JobsBelong
  <2>4. InFlight(b)' = <<>>
    BY <1>1, <2>1, <2>3 DEF InFlight, Busy, JobStages, TypeOK
  <2>5. Kept(b)
    BY <1>3, <2>1, <2>4 DEF Kept, InFlight
  <2>6. \A q \in Requests : AdminOf[q] # b => (Busy(q)' <=> Busy(q))
    BY <2>1 DEF Busy, TypeOK
  <2>7. FlowOf(b)
    BY <1>3, <2>5 DEF FlowOf, Ends
  <2>8. QED
    BY <1>1, <2>1, <2>6, <2>7, OtherQueues DEF TypeOK
<1>4. CASE Enqueue(r) /\ sent' # sent
  <2>1. PICK q \in Requests : q = own[r] /\ q = queues[b] /\ AdminOf[q] = b
    BY <1>1, <1>4 DEF Enqueue, TypeOK, Ownership, HandlersAgree, QueuesAreServed
  <2>2. /\ ch' = [ch EXCEPT ![q] = Append(ch[q], r)]
        /\ sent' = [sent EXCEPT ![b] = Append(sent[b], r)]
        /\ UNCHANGED <<queues, wpc, job>> /\ pc[r] = "send" /\ pc'[r] = "accepted"
    BY <1>4, <2>1 DEF Enqueue, HandlerGoes, workerVars, TypeOK
  <2>3. ch[q] \in Seq(Requests)
    BY <2>1 DEF TypeOK, Channels
  <2>4. ch'[q] = Append(ch[q], r) /\ sent'[b] = Append(sent[b], r)
    BY <1>1, <2>1, <2>2 DEF TypeOK
  <2>5. InFlight(b)' = Append(InFlight(b), r)
    <3>1. CASE Busy(q)
      <4>1. job[q] \in Requests
        BY <3>1 DEF Ownership, JobsBelong, TypeOK
      <4>2. InFlight(b) = <<job[q]>> \o ch[q] /\ InFlight(b)' = <<job[q]>> \o Append(ch[q], r)
        BY <2>1, <2>2, <2>4, <3>1 DEF InFlight, Busy
      <4>3. QED
        BY <2>3, <4>1, <4>2, HeadFirst
    <3>2. CASE ~Busy(q)
      <4>1. InFlight(b) = <<>> \o ch[q] /\ InFlight(b)' = <<>> \o Append(ch[q], r)
        BY <2>1, <2>2, <2>4, <3>2 DEF InFlight, Busy
      <4>2. QED
        BY <2>3, <4>1
    <3>3. QED
      BY <3>1, <3>2
  <2>6. Sent(b, r)
    BY <2>2, <2>4, <2>5 DEF Sent
  <2>7. \A p \in Requests : AdminOf[p] # b => ch'[p] = ch[p] /\ (Busy(p)' <=> Busy(p))
    BY <2>1, <2>2 DEF Busy, TypeOK
  <2>8. FlowOf(b)
    BY <2>2, <2>6 DEF FlowOf, Ends
  <2>9. QED
    BY <1>1, <2>1, <2>2, <2>7, <2>8, OtherQueues DEF TypeOK
<1>5. ~(CreateQueue(r) /\ queues[b] = None) /\ ~(Enqueue(r) /\ sent' # sent)
          => UNCHANGED <<queues, ch, wpc, job, sent>>
  BY DEF Handler, ValidateTransferReward, CreateTransferStatus, LookupQueue, CreateQueue,
         Enqueue, MarkQueueFull, queueVars, workerVars, auxVars, TypeOK
<1>6. QED
  BY <1>2, <1>3, <1>4, <1>5

(* A worker takes the oldest job, and drops it when it is done.            *)
LEMMA FlowWorker ==
    ASSUME TypeOK, Ownership, NEW q \in Requests, Worker(q)
    PROVE  Flow
<1> USE DEF WorkerGoes, handlerVars, queueVars, auxVars
<1> DEFINE b == AdminOf[q]
<1>1. b \in Admins /\ ch[q] \in Seq(Requests)
  BY DEF TypeOK, Channels
<1>2. wpc[q] # "none" => queues[b] = q /\ q # None
  BY DEF Ownership, WorkersAreOwned
<1>3. CASE ReceiveJob(q)
  <2>1. /\ ch[q] # <<>> /\ wpc[q] = "idle" /\ wpc' = [wpc EXCEPT ![q] = "spacing"]
        /\ job' = [job EXCEPT ![q] = Head(ch[q])] /\ ch' = [ch EXCEPT ![q] = Tail(ch[q])]
        /\ UNCHANGED <<queues, sent>>
    BY <1>3 DEF ReceiveJob
  <2>2. InFlight(b) = <<>> \o ch[q]
    BY <1>2, <2>1 DEF InFlight, Busy, JobStages
  <2>3. InFlight(b)' = <<Head(ch[q])>> \o Tail(ch[q])
    BY <1>1, <1>2, <2>1 DEF InFlight, Busy, TypeOK
  <2>4. <<>> \o ch[q] = ch[q]
    BY <1>1
  <2>5. Kept(b)
    BY <1>1, <2>1, <2>2, <2>3, <2>4, HeadFirst DEF Kept
  <2>6. \A p \in Requests : AdminOf[p] # b =>
            job'[p] = job[p] /\ ch'[p] = ch[p] /\ (Busy(p)' <=> Busy(p))
    BY <2>1 DEF Busy, TypeOK
  <2>7. ~Ends(b)
    BY <1>2, <2>1 DEF Ends
  <2>8. QED
    BY <1>1, <2>1, <2>5, <2>6, <2>7, OtherQueues DEF FlowOf
<1>4. CASE RecordSuccess(q) \/ RecordFailure(q)
  <2>1. /\ Busy(q) /\ wpc[q] \in {"succeed", "fail"} /\ wpc[q] # "none"
        /\ wpc' = [wpc EXCEPT ![q] = "idle"]
        /\ job' = [job EXCEPT ![q] = None] /\ UNCHANGED <<queues, ch, sent>>
    BY <1>4 DEF RecordSuccess, RecordFailure, EndJob, Busy, JobStages
  <2>2. job[q] \in Requests
    BY <2>1 DEF Ownership, JobsBelong, TypeOK
  <2>3. InFlight(b) = <<job[q]>> \o ch[q]
    BY <1>1, <1>2, <2>1 DEF InFlight
  <2>4. InFlight(b)' = ch[q]
    BY <1>1, <1>2, <2>1 DEF InFlight, Busy, JobStages, TypeOK
  <2>5. Dropped(b)
    BY <2>1, <2>2, <2>3, <2>4 DEF Dropped
  <2>6. \A p \in Requests : AdminOf[p] # b => job'[p] = job[p] /\ (Busy(p)' <=> Busy(p))
    BY <2>1 DEF Busy, TypeOK
  <2>7. Ends(b)
    BY <1>2, <2>1 DEF Ends, TypeOK
  <2>8. QED
    BY <1>1, <2>1, <2>5, <2>6, <2>7, OtherQueues DEF FlowOf
<1>5. CASE StartJob(q) \/ MarkProcessing(q) \/ ProcessTransferReward(q)
  <2>1. UNCHANGED <<queues, ch, job, sent>> /\ \A p \in Requests : Busy(p)' <=> Busy(p)
    BY <1>5 DEF StartJob, MarkProcessing, ProcessTransferReward, ResolveBill, PostTx, Sign,
                SignReturns, SignTimesOut, Busy, JobStages, TypeOK
  <2>2. QED
    BY <2>1, QuietQueues
<1>6. QED
  BY <1>3, <1>4, <1>5 DEF Worker, ProcessOne

(* Only a restart empties the queues.                                      *)
LEMMA FlowStep ==
    ASSUME TypeOK, Ownership, [Next]_vars, ~Restart
    PROVE  Flow
<1>1. CASE \E r \in Requests : Handler(r) \/ Worker(r)
  BY <1>1, FlowHandler, FlowWorker
<1>2. CASE UNCHANGED <<queues, ch, wpc, job, sent>>
  BY <1>2, QuietQueues DEF Busy
<1>3. QED
  BY <1>1, <1>2 DEF Next, Idle, vars, DeadlineFires, NodeCommits, NodeRefuses, queueVars,
                    workerVars, auxVars

FlightsAreSeqs ==
    \A a \in Admins : InFlight(a) \in Seq(Requests) /\ sent[a] \in Seq(Requests)

(* The jobs in flight are a sequence of requests, also after a step.       *)
LEMMA FlightTypes ==
    /\ TypeOK /\ Ownership => FlightsAreSeqs
    /\ TypeOK' /\ Ownership' => FlightsAreSeqs'
<1>1. TypeOK /\ Ownership => FlightsAreSeqs
  <2> SUFFICES ASSUME TypeOK, Ownership, NEW a \in Admins
               PROVE  InFlight(a) \in Seq(Requests) /\ sent[a] \in Seq(Requests)
    BY DEF FlightsAreSeqs
  <2>1. sent[a] \in Seq(Requests) /\ (queues[a] # None => queues[a] \in Requests)
    BY DEF TypeOK
  <2>2. CASE queues[a] = None
    <3>1. InFlight(a) = <<>>
      BY <2>2, Holdings
    <3>2. QED
      BY <2>1, <3>1
  <2>3. CASE queues[a] # None
    BY <2>1, <2>3, Holdings
  <2>4. QED
    BY <2>2, <2>3
<1>2. QED
  BY <1>1, PTL

(* Every step keeps the order of the jobs in flight.                       *)
LEMMA InOrderInvariant == Spec => []InOrder
<1>1. Init => InOrder
  BY DEF Init, InOrder, InFlight, IsEndOf
<1>2. TypeOK /\ Ownership /\ TypeOK' /\ Ownership' /\ InOrder /\ [Next]_vars => InOrder'
  <2> SUFFICES ASSUME TypeOK, Ownership, TypeOK', Ownership', InOrder, [Next]_vars,
                      NEW a \in Admins
               PROVE  IsEndOf(InFlight(a), sent[a])'
    BY DEF InOrder
  <2>1. /\ InFlight(a) \in Seq(Requests) /\ sent[a] \in Seq(Requests)
        /\ InFlight(a)' \in Seq(Requests) /\ IsEndOf(InFlight(a), sent[a])
    BY FlightTypes DEF InOrder, FlightsAreSeqs
  <2>2. CASE Restart
    <3>1. queues'[a] = None /\ sent'[a] = <<>>
      BY <2>2 DEF Restart
    <3>2. InFlight(a)' = <<>>
      BY <3>1 DEF InFlight
    <3>3. IsEndOf(<<>>, <<>>)
      BY DEF IsEndOf
    <3>4. QED
      BY <3>1, <3>2, <3>3
  <2>3. CASE Kept(a)
    BY <2>1, <2>3 DEF Kept, IsEndOf
  <2>4. CASE \E r \in Requests : Sent(a, r)
    BY <2>1, <2>4, EndAppend DEF Sent
  <2>5. CASE Dropped(a)
    BY <2>1, <2>5, EndDrop DEF Dropped
  <2>6. QED
    BY <2>2, <2>3, <2>4, <2>5, FlowStep DEF Flow, FlowOf
<1>3. QED
  BY <1>1, <1>2, TypeCorrect, OwnershipInvariant, PTL DEF Spec

(* First in, first out, without loss or duplication: what waits in an      *)
(* admin's channel and in its worker's hands is the end of what the        *)
(* handlers sent since the server was started, in the order they sent it.  *)
THEOREM FirstInFirstOut == Spec => []InFlightIsEndOfSent
<1>1. TypeOK /\ Ownership /\ InOrder => InFlightIsEndOfSent
  <2> SUFFICES ASSUME TypeOK, Ownership, InOrder, NEW a \in Admins
               PROVE  /\ Len(InFlight(a)) <= Len(sent[a])
                      /\ InFlight(a) = SubSeq(sent[a],
                             Len(sent[a]) - Len(InFlight(a)) + 1, Len(sent[a]))
    BY DEF InFlightIsEndOfSent
  <2>1. InFlight(a) \in Seq(Requests) /\ sent[a] \in Seq(Requests)
    BY FlightTypes DEF FlightsAreSeqs
  <2>2. IsEndOf(InFlight(a), sent[a])
    BY DEF InOrder
  <2>3. QED
    BY <2>1, <2>2, EndIsSubSeq DEF IsEndOf
<1>2. QED
  BY <1>1, InOrderInvariant, TypeCorrect, OwnershipInvariant, PTL

(***************************************************************************)
(* How long an accepted job can take: the part of its settlement that does *)
(* not depend on fairness.                                                 *)
(***************************************************************************)

JobSteps == 8

(* The most steps a worker takes from a stage to the end of the job, one   *)
(* it has yet to receive included.                                         *)
StepsIn ==
    [s \in WorkerStages \ {"none"} |->
        IF s \in {"succeed", "fail"} THEN 1
        ELSE IF s = "signing" THEN 2 ELSE IF s = "sign" THEN 3
        ELSE IF s = "post" THEN 4 ELSE IF s = "resolve" THEN 5
        ELSE IF s = "mark" THEN 6 ELSE IF s = "spacing" THEN 7 ELSE JobSteps]

(* The most steps the worker of admin a takes to the end of its k-th job.  *)
StepsLeft(a, k) == JobSteps * (k - 1) + StepsIn[wpc[queues[a]]]

(* However long the queue has been in use, an accepted job is a bounded    *)
(* number of its worker's steps from its end.                              *)
WaitIsBounded ==
    \A a \in Admins : \A k \in DOMAIN InFlight(a) :
        StepsLeft(a, k) <= JobSteps * (BufferSize + 1)

(* Nothing but a restart puts a job back: it stays in line until its end,  *)
(* and each step of its worker brings it closer, whatever others do.       *)
JobsAdvance ==
    [][~Restart => \A a \in Admins : \A k \in DOMAIN InFlight(a) :
        \/ Ends(a) /\ k = 1
        \/ \E l \in DOMAIN InFlight(a)' :
              /\ InFlight(a)'[l] = InFlight(a)[k]
              /\ StepsLeft(a, l)' <= StepsLeft(a, k)
              /\ wpc'[queues[a]] # wpc[queues[a]] => StepsLeft(a, l)' < StepsLeft(a, k)]_vars

(* A worker goes through the stages of a job and back to the channel.      *)
LEMMA StagesFall ==
    ASSUME TypeOK, Ownership, [Next]_vars, ~Restart, NEW q \in Requests, wpc[q] # "none"
    PROVE  /\ wpc[q] \in WorkerStages \ {"none"} /\ wpc'[q] \in WorkerStages \ {"none"}
           /\ \/ wpc'[q] = wpc[q]
              \/ wpc[q] \in {"succeed", "fail"} /\ wpc'[q] = "idle"
              \/ StepsIn[wpc'[q]] < StepsIn[wpc[q]]
<1> USE DEF WorkerGoes, JobSteps, WorkerStages, JobStages
<1>1. wpc[q] \in WorkerStages \ {"none"}
  BY DEF TypeOK
<1>2. ASSUME NEW r \in Requests, Handler(r) PROVE wpc'[q] = wpc[q]
  <2>1. \/ wpc' = wpc
        \/ queues[AdminOf[r]] = None /\ wpc' = [wpc EXCEPT ![r] = "idle"]
    BY <1>2 DEF Handler, ValidateTransferReward, CreateTransferStatus, LookupQueue,
       CreateQueue, StartQueue, Enqueue, MarkQueueFull, workerVars
  <2>2. queues[AdminOf[r]] = None => wpc[r] = "none"
    BY DEF Ownership, WorkersAreOwned
  <2>3. QED
    BY <2>1, <2>2 DEF TypeOK
<1>3. ASSUME NEW p \in Requests, Worker(p), p # q PROVE wpc'[q] = wpc[q]
  BY <1>3 DEF Worker, ReceiveJob, StartJob, ProcessOne, MarkProcessing, TypeOK,
     ProcessTransferReward, ResolveBill, PostTx, Sign, SignReturns, SignTimesOut,
     RecordSuccess, RecordFailure
<1>4. ASSUME Worker(q)
      PROVE  \/ wpc[q] \in {"succeed", "fail"} /\ wpc'[q] = "idle"
             \/ wpc[q] = "idle" /\ wpc'[q] = "spacing"
             \/ wpc[q] = "spacing" /\ wpc'[q] = "mark"
             \/ wpc[q] = "mark" /\ wpc'[q] = "resolve"
             \/ wpc[q] = "resolve" /\ wpc'[q] \in {"post", "fail"}
             \/ wpc[q] = "post" /\ wpc'[q] \in {"sign", "fail"}
             \/ wpc[q] = "sign" /\ wpc'[q] \in {"signing", "fail"}
             \/ wpc[q] = "signing" /\ wpc'[q] \in {"succeed", "fail"}
  BY <1>4 DEF Worker, ReceiveJob, StartJob, ProcessOne, MarkProcessing, TypeOK,
     ProcessTransferReward, ResolveBill, PostTx, Sign, SignReturns, SignTimesOut,
     RecordSuccess, RecordFailure
<1>5. ASSUME Worker(q)
      PROVE  /\ wpc'[q] \in WorkerStages \ {"none"}
             /\ \/ wpc[q] \in {"succeed", "fail"} /\ wpc'[q] = "idle"
                \/ StepsIn[wpc'[q]] < StepsIn[wpc[q]]
  BY <1>1, <1>4, <1>5 DEF StepsIn
<1>6. CASE wpc'[q] = wpc[q]
  BY <1>1, <1>6
<1>7. QED
  BY <1>1, <1>2, <1>3, <1>5, <1>6
     DEF Next, Idle, vars, DeadlineFires, NodeCommits, NodeRefuses, workerVars

(* An admin's queue stays.                                                 *)
LEMMA QueuesStay ==
    ASSUME TypeOK, Ownership, [Next]_vars, ~Restart, NEW a \in Admins, queues[a] # None
    PROVE  /\ queues[a] \in Requests /\ queues'[a] = queues[a] /\ wpc[queues[a]] # "none"
           /\ InFlight(a) = Holding(queues[a])
<1>1. queues[a] \in Requests /\ wpc[queues[a]] # "none"
  BY DEF TypeOK, Ownership, QueuesAreServed
<1>2. ASSUME NEW r \in Requests, Handler(r) PROVE queues'[a] = queues[a]
  BY <1>2 DEF Handler, ValidateTransferReward, CreateTransferStatus, LookupQueue,
       CreateQueue, StartQueue, Enqueue, MarkQueueFull, queueVars, TypeOK
<1>3. ASSUME NEW p \in Requests, Worker(p) PROVE queues'[a] = queues[a]
  BY <1>3 DEF Worker, ReceiveJob, StartJob, ProcessOne, MarkProcessing,
     ProcessTransferReward, ResolveBill, PostTx, Sign, SignReturns, SignTimesOut,
     RecordSuccess, RecordFailure, queueVars
<1>4. QED
  BY <1>1, <1>2, <1>3, Holdings
     DEF Next, Idle, vars, DeadlineFires, NodeCommits, NodeRefuses, queueVars

(* Each stage has its number of steps.                                     *)
LEMMA StepsAreFew ==
    ASSUME NEW s \in WorkerStages \ {"none"}
    PROVE  /\ StepsIn[s] \in 1 .. JobSteps
           /\ s \in {"succeed", "fail"} => StepsIn[s] = 1
           /\ s = "idle" <=> StepsIn[s] = JobSteps
BY DEF StepsIn, JobSteps, WorkerStages, JobStages

(* A job in the channel or in the worker's hands has at most BufferSize    *)
(* jobs before it.                                                         *)
THEOREM BoundedWait == Spec => []WaitIsBounded
<1>1. TypeOK /\ Ownership => WaitIsBounded
  <2> SUFFICES ASSUME TypeOK, Ownership, NEW a \in Admins, NEW k \in DOMAIN InFlight(a)
               PROVE  StepsLeft(a, k) <= JobSteps * (BufferSize + 1)
    BY DEF WaitIsBounded
  <2>1. queues[a] # None
    BY Holdings
  <2>2. PICK q \in Requests : q = queues[a] /\ wpc[q] \in WorkerStages \ {"none"}
    BY <2>1 DEF TypeOK, Ownership, QueuesAreServed
  <2>3. InFlight(a) = Holding(q)
    BY <2>1, <2>2, Holdings
  <2>4. ch[q] \in Seq(Requests) /\ Len(ch[q]) <= BufferSize /\ Len(ch[q]) \in Nat
    BY DEF TypeOK, Channels
  <2>5. BufferSize \in Nat
    BY BufferAssumption
  <2>6. StepsIn[wpc[q]] \in 1 .. 8 /\ (wpc[q] # "idle" => StepsIn[wpc[q]] # 8)
    BY <2>2, StepsAreFew DEF JobSteps
  <2>7. CASE Busy(q)
    <3>1. job[q] \in Requests
      BY <2>7 DEF TypeOK, Ownership, JobsBelong
    <3>2. Len(Holding(q)) = Len(ch[q]) + 1 /\ Holding(q) \in Seq(Requests)
      BY <2>4, <2>7, <3>1 DEF Holding
    <3>3. k \in 1 .. BufferSize + 1
      BY <2>3, <2>4, <2>5, <3>2
    <3>4. wpc[q] # "idle"
      BY <2>7 DEF Busy, JobStages
    <3>5. QED
      BY <2>2, <2>5, <2>6, <3>3, <3>4 DEF StepsLeft, JobSteps
  <2>8. CASE ~Busy(q)
    <3>1. k \in 1 .. BufferSize
      BY <2>3, <2>4, <2>5, <2>8 DEF Holding
    <3>2. QED
      BY <2>2, <2>5, <2>6, <3>1 DEF StepsLeft, JobSteps
  <2>9. QED
    BY <2>7, <2>8
<1>2. QED
  BY <1>1, TypeCorrect, OwnershipInvariant, PTL

(* What a worker does brings each job of its admin closer to its end, and  *)
(* nobody overtakes a job or puts it back.                                 *)
THEOREM Advance == Spec => JobsAdvance
<1> DEFINE Closer(a, k) ==
        \/ Ends(a) /\ k = 1
        \/ \E l \in DOMAIN InFlight(a)' :
              /\ InFlight(a)'[l] = InFlight(a)[k]
              /\ StepsLeft(a, l)' <= StepsLeft(a, k)
              /\ wpc'[queues[a]] # wpc[queues[a]] => StepsLeft(a, l)' < StepsLeft(a, k)
<1>1. TypeOK /\ Ownership /\ TypeOK' /\ Ownership' /\ [Next]_vars =>
          (~Restart => \A a \in Admins : \A k \in DOMAIN InFlight(a) : Closer(a, k))
  <2> SUFFICES ASSUME TypeOK, Ownership, TypeOK', Ownership', [Next]_vars, ~Restart,
                      NEW a \in Admins, NEW k \in DOMAIN InFlight(a)
               PROVE  Closer(a, k)
    OBVIOUS
  <2>1. queues[a] # None
    BY Holdings
  <2>2. PICK q \in Requests : q = queues[a] /\ q = queues'[a] /\ wpc[q] # "none"
    BY <2>1, QueuesStay
  <2> DEFINE old == StepsIn[wpc[q]]
             new == StepsIn[wpc'[q]]
  <2>3. /\ old \in 1 .. 8 /\ new \in 1 .. 8
        /\ wpc[q] \in {"succeed", "fail"} => old = 1
        /\ wpc'[q] = wpc[q] \/ (Ends(a) /\ new = 8) \/ new < old
        /\ Ends(a) => old = 1 /\ new = 8
    BY <2>1, <2>2, StagesFall, StepsAreFew DEF JobSteps, Ends
  <2>4. /\ InFlight(a) \in Seq(Requests) /\ InFlight(a)' \in Seq(Requests)
        /\ k \in 1 .. Len(InFlight(a)) /\ k \in Nat \ {0}
    BY FlightTypes DEF FlightsAreSeqs
  <2>5. FlowOf(a)
    BY FlowStep DEF Flow
  <2>6. /\ StepsLeft(a, k) = 8 * (k - 1) + old
        /\ \A l : StepsLeft(a, l)' = 8 * (l - 1) + new
    BY <2>2 DEF StepsLeft, JobSteps
  <2>7. CASE ~Ends(a)
    <3>1. k \in DOMAIN InFlight(a)' /\ InFlight(a)'[k] = InFlight(a)[k]
      BY <2>4, <2>5, <2>7, AppendElements DEF FlowOf, Kept, Sent
    <3>2. wpc'[q] = wpc[q] => new = old
      OBVIOUS
    <3>3. new <= old /\ (wpc'[q] # wpc[q] => new < old)
      <4> HIDE DEF old, new
      <4> QED
        BY <2>3, <2>7, <3>2
    <3>4. StepsLeft(a, k) = 8 * (k - 1) + old /\ StepsLeft(a, k)' = 8 * (k - 1) + new
      BY <2>6
    <3>5. /\ StepsLeft(a, k)' <= StepsLeft(a, k)
          /\ wpc'[q] # wpc[q] => StepsLeft(a, k)' < StepsLeft(a, k)
      <4> HIDE DEF old, new
      <4> QED
        BY <2>3, <2>4, <3>3, <3>4
    <3>6. QED
      BY <2>2, <3>1, <3>5
  <2>8. CASE Ends(a) /\ k # 1
    <3>1. PICK x \in Requests : InFlight(a) = <<x>> \o InFlight(a)'
      BY <2>5, <2>8 DEF FlowOf, Dropped
    <3>2. k - 1 \in DOMAIN InFlight(a)' /\ InFlight(a)'[k - 1] = InFlight(a)[k]
      BY <2>4, <2>8, <3>1
    <3>3. StepsLeft(a, k - 1)' < StepsLeft(a, k)
          /\ StepsLeft(a, k - 1)' <= StepsLeft(a, k)
      BY <2>3, <2>4, <2>6, <2>8
    <3>4. QED
      BY <2>2, <3>2, <3>3
  <2>9. QED
    BY <2>7, <2>8
<1>2. QED
  BY <1>1, TypeCorrect, OwnershipInvariant, PTL DEF Spec, JobsAdvance

(***************************************************************************)
(* No row is left open.                                                    *)
(***************************************************************************)

(* Statements of jobs succeed and are applied: a job's context does not    *)
(* end before it, and its points fit the column.                           *)
JobsCanWrite ==
    /\ Faults \cap {"db", "deadline"} = {}
    /\ Points \subseteq 0 .. MaxColumn

(* The process keeps running, and the statements of jobs succeed.          *)
StatementsSucceed == JobsCanWrite /\ "crash" \notin Faults

(* The worker is through with a job only when the job's row is settled.    *)
LEMMA EndSettles ==
    ASSUME JobsCanWrite, TypeOK, Ownership, Lifecycle, NEW q \in Requests, ~expired[q],
           RecordSuccess(q) \/ RecordFailure(q)
    PROVE  /\ row'[job[q]].status \in Settled
           /\ \A x \in Requests : x # job[q] => row'[x] = row[x]
<1> USE DEF WorkerGoes
<1>1. PICK r \in Requests : r = job[q] /\ Busy(q)
  BY DEF RecordSuccess, RecordFailure, Busy, JobStages, Ownership, JobsBelong, TypeOK
<1>2. CASE RecordSuccess(q)
  <2>1. bill[q] \in Bills
    BY <1>1, <1>2 DEF RecordSuccess, Lifecycle, HeldJobs
  <2>2. bill[q].points <= MaxColumn
    <3>1. \A n \in Points : n <= MaxColumn
      BY DEF JobsCanWrite
    <3>2. bill[q].points \in Points
      BY <2>1 DEF Bills
    <3>3. QED
      BY <3>1, <3>2
  <2>3. row' = [row EXCEPT ![r] = SuccessRow(q)]
    BY <1>1, <1>2, <2>2 DEF RecordSuccess, JobWrites, JobsCanWrite
  <2>4. row'[r].status = "success" /\ \A x \in Requests : x # r => row'[x] = row[x]
    BY <2>3 DEF SuccessRow, TypeOK
  <2>5. QED
    BY <1>1, <2>4 DEF Settled
<1>3. CASE RecordFailure(q)
  <2>1. row' = [row EXCEPT ![r] = [row[r] EXCEPT !.status = "failed"]]
    BY <1>1, <1>3 DEF RecordFailure, JobWrites, FailedRow, JobsCanWrite
  <2>2. /\ row'[r] = [row[r] EXCEPT !.status = "failed"] /\ row[r] \in Rows
        /\ \A x \in Requests : x # r => row'[x] = row[x]
    BY <2>1 DEF TypeOK
  <2>3. row'[r].status = "failed"
    BY <2>2, StatusChanges
  <2>4. QED
    BY <1>1, <2>2, <2>3 DEF Settled
<1>4. QED
  BY <1>2, <1>3

(* Without the cause of the finding the comment of processOne holds: a job *)
(* that ends has recorded its outcome.                                     *)
THEOREM EndedSettled ==
    ASSUME JobsCanWrite
    PROVE  Spec => EndedJobIsSettled
<1> DEFINE NoneExpired == \A q \in Requests : ~expired[q]
           Step == \A q \in Requests :
                      wpc[q] \in JobStages /\ wpc'[q] = "idle"
                          => row'[job[q]].status \in Settled
<1>1. TypeOK /\ Ownership /\ Lifecycle /\ NoneExpired /\ [Next]_vars => Step
  <2> SUFFICES ASSUME TypeOK, Ownership, Lifecycle, NoneExpired, [Next]_vars,
                      NEW q \in Requests, wpc[q] \in JobStages, wpc'[q] = "idle"
               PROVE  row'[job[q]].status \in Settled
    OBVIOUS
  <2>1. ASSUME NEW r \in Requests, Handler(r) PROVE FALSE
    <3>1. \/ wpc' = wpc
          \/ queues[AdminOf[r]] = None /\ wpc' = [wpc EXCEPT ![r] = "idle"]
      BY <2>1 DEF Handler, ValidateTransferReward, CreateTransferStatus, LookupQueue,
         CreateQueue, StartQueue, Enqueue, MarkQueueFull, workerVars
    <3>2. queues[AdminOf[r]] = None => wpc[r] = "none"
      BY DEF Ownership, WorkersAreOwned
    <3>3. QED
      BY <3>1, <3>2 DEF TypeOK, JobStages
  <2>2. ASSUME NEW p \in Requests, Worker(p)
        PROVE  p = q /\ (RecordSuccess(q) \/ RecordFailure(q))
    BY <2>2 DEF Worker, ReceiveJob, StartJob, ProcessOne, MarkProcessing,
       ProcessTransferReward, ResolveBill, PostTx, Sign, SignReturns, SignTimesOut,
       RecordSuccess, RecordFailure, WorkerGoes, TypeOK, JobStages
  <2>3. ~UNCHANGED wpc /\ ~Restart
    BY DEF Restart, JobStages
  <2>4. RecordSuccess(q) \/ RecordFailure(q)
    BY <2>1, <2>2, <2>3
       DEF Next, Idle, vars, DeadlineFires, NodeCommits, NodeRefuses, workerVars
  <2>5. QED
    BY <2>4, EndSettles
<1>2. Init => NoneExpired
  BY DEF Init
<1>3. TypeOK /\ NoneExpired /\ [Next]_vars => NoneExpired'
  BY NeverExpires DEF JobsCanWrite
<1>4. QED
  BY <1>1, <1>2, <1>3, TypeCorrect, OwnershipInvariant, LifecycleInvariant, PTL
     DEF Spec, EndedJobIsSettled

Waits(r) == \E q \in Requests :
    (Busy(q) /\ job[q] = r) \/ \E i \in DOMAIN ch[q] : ch[q][i] = r

OpenIsOwned ==
    /\ \A q \in Requests : ~expired[q]
    /\ \A r \in Requests : row[r].status \in Open =>
          pc[r] \in HandlerRunning \/ Waits(r) \/ LeftOpenByClient(r)

(* A handler that ends has sent its job or settled its row.                *)
LEMMA OpenHandler ==
    ASSUME StatementsSucceed, TypeOK, Ownership, Lifecycle, OpenIsOwned,
           NEW r \in Requests, Handler(r)
    PROVE  OpenIsOwned'
<1> USE DEF HandlerGoes
<1>1. UNCHANGED <<expired, job>>
  BY DEF Handler, ValidateTransferReward, CreateTransferStatus, LookupQueue, CreateQueue,
         Enqueue, MarkQueueFull, workerVars
<1>2. \A q \in Requests : Busy(q) => wpc'[q] = wpc[q]
  <2>1. wpc' = wpc \/ (CreateQueue(r) /\ queues[AdminOf[r]] = None
                        /\ wpc' = [wpc EXCEPT ![r] = "idle"])
    BY DEF Handler, ValidateTransferReward, CreateTransferStatus, LookupQueue, CreateQueue,
           StartQueue, Enqueue, MarkQueueFull, workerVars
  <2>2. queues[AdminOf[r]] = None => ~Busy(r)
    BY DEF Ownership, WorkersAreOwned, Busy, JobStages
  <2>3. QED
    BY <2>1, <2>2 DEF TypeOK
<1>3. \A q \in Requests : \A i \in DOMAIN ch[q] :
          i \in DOMAIN ch'[q] /\ ch'[q][i] = ch[q][i]
  <2>1. \/ ch' = ch
        \/ own[r] \in Requests /\ ch' = [ch EXCEPT ![own[r]] = Append(ch[own[r]], r)]
    BY DEF Handler, ValidateTransferReward, CreateTransferStatus, LookupQueue, CreateQueue,
           StartQueue, Enqueue, MarkQueueFull, queueVars, TypeOK, Ownership, HandlersAgree
  <2>2. \A q \in Requests : ch[q] \in Seq(Requests)
    BY DEF TypeOK, Channels
  <2>3. CASE ch' = ch
    BY <2>3
  <2>4. ASSUME NEW q \in Requests, NEW i \in DOMAIN ch[q],
               own[r] \in Requests, ch' = [ch EXCEPT ![own[r]] = Append(ch[own[r]], r)]
        PROVE  i \in DOMAIN ch'[q] /\ ch'[q][i] = ch[q][i]
    <3>1. CASE q = own[r]
      <4>1. ch'[q] = Append(ch[q], r)
        BY <2>4, <3>1 DEF TypeOK
      <4>2. QED
        BY <2>2, <4>1, AppendElements
    <3>2. CASE q # own[r]
      BY <2>4, <3>2 DEF TypeOK
    <3>3. QED
      BY <3>1, <3>2
  <2>5. QED
    BY <2>1, <2>3, <2>4
<1>4. \A x \in Requests : Waits(x) => Waits(x)'
  BY <1>1, <1>2, <1>3 DEF Waits, Busy
<1>5. \A x \in Requests \ {r} : row'[x] = row[x] /\ pc'[x] = pc[x]
  BY DEF Handler, ValidateTransferReward, CreateTransferStatus, InsertRow, LookupQueue,
         CreateQueue, Enqueue, MarkQueueFull, TypeOK
<1>6. row'[r].status \in Open =>
          pc'[r] \in HandlerRunning \/ Waits(r)' \/ LeftOpenByClient(r)'
  <2>1. CASE ValidateTransferReward(r)
    BY <2>1 DEF ValidateTransferReward, TypeOK, Lifecycle, RowsOfHandlers, Open
  <2>2. CASE CreateTransferStatus(r)
    BY <2>2 DEF CreateTransferStatus, LeftOpenByClient, HandlerRunning, TypeOK
  <2>3. CASE LookupQueue(r) \/ CreateQueue(r)
    BY <2>3 DEF LookupQueue, CreateQueue, HandlerRunning, TypeOK
  <2>4. CASE Enqueue(r)
    <3>1. PICK q \in Requests : q = own[r]
      BY <2>4 DEF Enqueue, TypeOK, Ownership, HandlersAgree
    <3>2. CASE Len(ch[q]) < BufferSize
      <4>1. ch[q] \in Seq(Requests) /\ ch'[q] = Append(ch[q], r)
        BY <2>4, <3>1, <3>2 DEF Enqueue, TypeOK, Channels
      <4>2. Len(ch[q]) + 1 \in DOMAIN ch'[q] /\ ch'[q][Len(ch[q]) + 1] = r
        BY <4>1, AppendElements
      <4>3. QED
        BY <4>2 DEF Waits
    <3>3. CASE ~(Len(ch[q]) < BufferSize)
      BY <2>4, <3>1, <3>3 DEF Enqueue, HandlerRunning, TypeOK
    <3>4. QED
      BY <3>2, <3>3
  <2>5. CASE MarkQueueFull(r)
    <3>1. \/ row'[r] = [row[r] EXCEPT !.status = "failed"] /\ row[r] \in Rows
          \/ LeftOpenByClient(r)'
      BY <2>5 DEF MarkQueueFull, LeftOpenByClient, TypeOK
    <3>2. QED
      BY <3>1, StatusChanges DEF Open
  <2>6. QED
    BY <2>1, <2>2, <2>3, <2>4, <2>5 DEF Handler
<1>7. QED
  BY <1>1, <1>4, <1>5, <1>6 DEF OpenIsOwned, LeftOpenByClient

(* A worker that drops a job has settled its row.                          *)
LEMMA OpenWorker ==
    ASSUME StatementsSucceed, TypeOK, Ownership, Lifecycle, OpenIsOwned,
           NEW q \in Requests, Worker(q)
    PROVE  OpenIsOwned'
<1> USE DEF WorkerGoes, handlerVars, queueVars
<1>1. UNCHANGED pc /\ \A p \in Requests : ~expired'[p]
  BY DEF Worker, ReceiveJob, StartJob, ProcessOne, MarkProcessing, ProcessTransferReward,
         ResolveBill, PostTx, Sign, SignReturns, SignTimesOut, RecordSuccess,
         RecordFailure, EndJob, TypeOK, OpenIsOwned
<1>2. CASE ReceiveJob(q)
  <2>1. ch[q] \in Seq(Requests) /\ ch[q] # <<>> /\ ~Busy(q)
    BY <1>2 DEF ReceiveJob, TypeOK, Channels, Busy, JobStages
  <2>2. /\ job' = [job EXCEPT ![q] = Head(ch[q])] /\ ch' = [ch EXCEPT ![q] = Tail(ch[q])]
        /\ wpc' = [wpc EXCEPT ![q] = "spacing"] /\ UNCHANGED row
    BY <1>2 DEF ReceiveJob
  <2>3. ASSUME NEW x \in Requests, Waits(x) PROVE Waits(x)'
    <3>1. PICK p \in Requests :
              (Busy(p) /\ job[p] = x) \/ \E i \in DOMAIN ch[p] : ch[p][i] = x
      BY <2>3 DEF Waits
    <3>2. CASE p # q
      BY <2>2, <3>1, <3>2 DEF Waits, Busy, TypeOK
    <3>3. CASE p = q
      <4>1. PICK i \in DOMAIN ch[q] : ch[q][i] = x
        BY <2>1, <3>1, <3>3
      <4>2. CASE i = 1
        <5>1. Busy(q)' /\ job'[q] = x
          BY <2>1, <2>2, <4>1, <4>2 DEF Busy, TypeOK
        <5>2. QED
          BY <5>1 DEF Waits
      <4>3. CASE i # 1
        <5>1. i - 1 \in DOMAIN Tail(ch[q]) /\ Tail(ch[q])[i - 1] = x
          BY <2>1, <4>1, <4>3
        <5>2. ch'[q] = Tail(ch[q])
          BY <2>2 DEF TypeOK
        <5>3. QED
          BY <5>1, <5>2 DEF Waits
      <4>4. QED
        BY <4>2, <4>3
    <3>4. QED
      BY <3>2, <3>3
  <2>4. QED
    BY <1>1, <2>2, <2>3 DEF OpenIsOwned, LeftOpenByClient
<1>3. CASE StartJob(q) \/ MarkProcessing(q) \/ ProcessTransferReward(q)
  <2>1. UNCHANGED <<ch, job>> /\ \A p \in Requests : Busy(p)' <=> Busy(p)
    BY <1>3 DEF StartJob, MarkProcessing, ProcessTransferReward, ResolveBill, PostTx, Sign,
                SignReturns, SignTimesOut, Busy, JobStages, TypeOK
  <2>2. \A x \in Requests : Waits(x) => Waits(x)'
    BY <2>1 DEF Waits
  <2>3. \A x \in Requests : row'[x] = row[x] \/ (Busy(q) /\ x = job[q])
    BY <1>3 DEF StartJob, MarkProcessing, JobWrites, ProcessTransferReward, ResolveBill,
                PostTx, Sign, SignReturns, SignTimesOut, Busy, JobStages, TypeOK
  <2>4. Busy(q) => Waits(job[q])
    BY DEF Waits
  <2>5. QED
    BY <1>1, <2>2, <2>3, <2>4 DEF OpenIsOwned, LeftOpenByClient
<1>4. CASE RecordSuccess(q) \/ RecordFailure(q)
  <2>1. PICK r \in Requests : r = job[q] /\ Busy(q)
    BY <1>4 DEF RecordSuccess, RecordFailure, Busy, JobStages, Ownership, JobsBelong, TypeOK
  <2>2. /\ ~expired[q] /\ row[r] \in Rows /\ UNCHANGED ch
        /\ \A p \in Requests \ {q} : job'[p] = job[p] /\ wpc'[p] = wpc[p]
    BY <1>4 DEF OpenIsOwned, TypeOK, RecordSuccess, RecordFailure, EndJob
  <2>3. row'[r].status \notin Open /\ \A x \in Requests \ {r} : row'[x] = row[x]
    BY <1>4, <2>1, <2>2, EndSettles DEF StatementsSucceed, Settled, Open
  <2>4. \A x \in Requests \ {r} : Waits(x) => Waits(x)'
    BY <2>1, <2>2 DEF Waits, Busy
  <2>5. QED
    BY <1>1, <2>3, <2>4 DEF OpenIsOwned, LeftOpenByClient
<1>5. QED
  BY <1>2, <1>3, <1>4 DEF Worker, ProcessOne

(* While the server runs and the statements of jobs succeed, an open row   *)
(* has a handler, a channel or a worker that will settle it, or is of a    *)
(* request refused to a client that had gone.                              *)
THEOREM OpenHasOwner ==
    ASSUME StatementsSucceed
    PROVE  Spec => []OpenRowHasOwner
<1>1. Init => OpenIsOwned
  BY DEF Init, OpenIsOwned, Open
<1>2. TypeOK /\ Ownership /\ Lifecycle /\ OpenIsOwned /\ [Next]_vars => OpenIsOwned'
  <2> SUFFICES ASSUME TypeOK, Ownership, Lifecycle, OpenIsOwned, [Next]_vars
               PROVE  OpenIsOwned'
    OBVIOUS
  <2>1. CASE \E r \in Requests : Handler(r) \/ Worker(r)
    BY <2>1, OpenHandler, OpenWorker
  <2>2. CASE UNCHANGED <<row, pc, expired, job, ch, wpc>>
    BY <2>2 DEF OpenIsOwned, Waits, Busy, LeftOpenByClient
  <2>3. ~Restart /\ \A q \in Requests : ~DeadlineFires(q)
    BY DEF Restart, DeadlineFires, StatementsSucceed, JobsCanWrite
  <2>4. QED
    BY <2>1, <2>2, <2>3
       DEF Next, Idle, vars, NodeCommits, NodeRefuses, handlerVars, queueVars, workerVars
<1>3. TypeOK /\ Ownership /\ OpenIsOwned => OpenRowHasOwner
  <2> SUFFICES ASSUME TypeOK, Ownership, OpenIsOwned, NEW r \in Requests,
                      row[r].status \in Open, pc[r] \notin HandlerRunning,
                      ~LeftOpenByClient(r)
               PROVE  \E i \in DOMAIN InFlight(AdminOf[r]) : InFlight(AdminOf[r])[i] = r
    BY DEF OpenRowHasOwner, Open
  <2>1. PICK q \in Requests :
            (Busy(q) /\ job[q] = r) \/ \E i \in DOMAIN ch[q] : ch[q][i] = r
    BY DEF OpenIsOwned, Waits
  <2>2. AdminOf[r] = AdminOf[q] /\ wpc[q] # "none"
    BY <2>1 DEF Ownership, JobsBelong, Busy, JobStages
  <2>3. queues[AdminOf[r]] = q /\ q # None
    BY <2>2 DEF Ownership, WorkersAreOwned
  <2>4. InFlight(AdminOf[r]) = Holding(q)
    BY <2>3, Holdings
  <2>5. ch[q] \in Seq(Requests)
    BY DEF TypeOK, Channels
  <2>6. CASE Busy(q) /\ job[q] = r
    <3>1. Holding(q) = <<r>> \o ch[q]
      BY <2>6 DEF Holding
    <3>2. 1 \in DOMAIN (<<r>> \o ch[q]) /\ (<<r>> \o ch[q])[1] = r
      BY <2>5
    <3>3. QED
      BY <2>4, <3>1, <3>2
  <2>7. CASE \E i \in DOMAIN ch[q] : ch[q][i] = r
    <3>1. PICK i \in DOMAIN ch[q] : ch[q][i] = r
      BY <2>7
    <3>2. CASE Busy(q)
      <4>1. job[q] \in Requests
        BY <3>2 DEF Ownership, JobsBelong, TypeOK
      <4>2. i + 1 \in DOMAIN (<<job[q]>> \o ch[q]) /\ (<<job[q]>> \o ch[q])[i + 1] = r
        BY <2>5, <3>1, <4>1
      <4>3. QED
        BY <2>4, <3>2, <4>2 DEF Holding
    <3>3. CASE ~Busy(q)
      BY <2>4, <3>1, <3>3 DEF Holding
    <3>4. QED
      BY <3>2, <3>3
  <2>8. QED
    BY <2>1, <2>6, <2>7
<1>4. QED
  BY <1>1, <1>2, <1>3, TypeCorrect, OwnershipInvariant, LifecycleInvariant, PTL DEF Spec

(***************************************************************************)
(* The chain extends in the order of the sends.                            *)
(***************************************************************************)

(* The process keeps running and no call of the node is given up.          *)
CallsEnd == Faults \cap {"crash", "deadline", "timeout"} = {}

(* How many of the jobs sent to an admin's channel are done.               *)
Done(a) == Len(sent[a]) - Len(InFlight(a))

SentOnce ==
    \A a \in Admins : \A i \in DOMAIN sent[a] :
        /\ pc[sent[a][i]] = "accepted" /\ AdminOf[sent[a][i]] = a
        /\ \A j \in DOMAIN sent[a] : sent[a][i] = sent[a][j] => i = j

(* The node signs only what a worker waits for.                            *)
SignersHold ==
    \A r \in Requests : node[r].state = "signing" =>
        \E q \in Requests : wpc[q] = "signing" /\ job[q] = r

ChainIsSent ==
    \A a \in Admins : \A i \in DOMAIN chain[a] :
        \E k \in DOMAIN sent[a] : k <= Done(a) + 1 /\ sent[a][k] = chain[a][i].req

ChainIsOrdered ==
    \A a \in Admins : \A i, j \in DOMAIN chain[a] : \A k, l \in DOMAIN sent[a] :
        i < j /\ sent[a][k] = chain[a][i].req /\ sent[a][l] = chain[a][j].req => k < l

SendOrder == SentOnce /\ SignersHold /\ ChainIsSent /\ ChainIsOrdered

Basics == TypeOK /\ Ownership /\ Lifecycle /\ InOrder /\ FlightsAreSeqs

(* What was sent stays where it is, and jobs are only ever done.           *)
LEMMA SentGrows ==
    ASSUME FlightsAreSeqs, FlightsAreSeqs', Flow, NEW a \in Admins
    PROVE  /\ \A k \in DOMAIN sent[a] : k \in DOMAIN sent'[a] /\ sent'[a][k] = sent[a][k]
           /\ Done(a) \in Int /\ Done(a)' \in Int /\ Done(a) <= Done(a)'
           /\ \/ DOMAIN sent'[a] = DOMAIN sent[a]
              \/ \E r \in Requests :
                    /\ pc[r] = "send" /\ pc'[r] = "accepted" /\ AdminOf[r] = a
                    /\ DOMAIN sent'[a] = DOMAIN sent[a] \cup {Len(sent[a]) + 1}
                    /\ Len(sent[a]) + 1 \notin DOMAIN sent[a]
                    /\ sent'[a][Len(sent[a]) + 1] = r
<1>1. /\ InFlight(a) \in Seq(Requests) /\ InFlight(a)' \in Seq(Requests)
      /\ sent[a] \in Seq(Requests) /\ sent'[a] \in Seq(Requests)
  BY DEF FlightsAreSeqs
<1>2. Done(a) = Len(sent[a]) - Len(InFlight(a)) /\ Done(a)' = Len(sent'[a]) - Len(InFlight(a)')
  BY DEF Done
<1>3. CASE Kept(a)
  BY <1>1, <1>2, <1>3 DEF Kept
<1>4. CASE \E r \in Requests : Sent(a, r)
  <2>1. PICK r \in Requests : Sent(a, r)
    BY <1>4
  <2>2. Len(InFlight(a)') = Len(InFlight(a)) + 1 /\ Len(sent'[a]) = Len(sent[a]) + 1
    BY <1>1, <2>1 DEF Sent
  <2>3. /\ Len(sent[a]) \in Nat /\ DOMAIN sent[a] = 1 .. Len(sent[a])
        /\ DOMAIN sent'[a] = 1 .. Len(sent[a]) + 1
        /\ \A k \in 1 .. Len(sent[a]) : sent'[a][k] = sent[a][k]
        /\ sent'[a][Len(sent[a]) + 1] = r
    BY <1>1, <2>1, AppendElements DEF Sent
  <2>4. Done(a)' = Done(a) /\ Done(a) \in Int
    BY <1>1, <1>2, <2>2
  <2>5. /\ pc[r] = "send" /\ pc'[r] = "accepted" /\ AdminOf[r] = a
        /\ DOMAIN sent'[a] = DOMAIN sent[a] \cup {Len(sent[a]) + 1}
        /\ Len(sent[a]) + 1 \notin DOMAIN sent[a]
    BY <2>1, <2>3 DEF Sent
  <2>6. QED
    BY <2>3, <2>4, <2>5
<1>5. CASE Dropped(a)
  <2>1. Len(InFlight(a)) = Len(InFlight(a)') + 1 /\ sent'[a] = sent[a]
    BY <1>1, <1>5 DEF Dropped
  <2>2. QED
    BY <1>1, <1>2, <2>1
<1>6. QED
  BY <1>3, <1>4, <1>5 DEF Flow, FlowOf

(* A 202 is final.                                                         *)
LEMMA AcceptedStays ==
    ASSUME TypeOK, [Next]_vars, ~Restart, NEW r \in Requests, pc[r] = "accepted"
    PROVE  pc'[r] = "accepted"
<1>1. ASSUME NEW x \in Requests, Handler(x) PROVE pc'[r] = "accepted"
  BY <1>1 DEF Handler, HandlerGoes, ValidateTransferReward, CreateTransferStatus,
     LookupQueue, CreateQueue, Enqueue, MarkQueueFull, TypeOK
<1>2. ASSUME NEW q \in Requests, Worker(q) PROVE pc'[r] = "accepted"
  BY <1>2 DEF Worker, ReceiveJob, StartJob, ProcessOne, MarkProcessing,
     ProcessTransferReward, ResolveBill, PostTx, Sign, SignReturns, SignTimesOut,
     RecordSuccess, RecordFailure, handlerVars
<1>3. QED
  BY <1>1, <1>2 DEF Next, Idle, vars, DeadlineFires, NodeCommits, NodeRefuses, handlerVars

(* A worker that waits for Sign is there when the node is done.            *)
LEMMA SignersStep ==
    ASSUME CallsEnd, TypeOK, Ownership, \A q \in Requests : ~expired[q],
           SignersHold, [Next]_vars
    PROVE  SignersHold'
<1> USE DEF WorkerGoes
<1>1. ASSUME NEW r \in Requests, Handler(r) PROVE SignersHold'
  <2>1. UNCHANGED <<node, job>>
    BY <1>1 DEF Handler, ValidateTransferReward, CreateTransferStatus, LookupQueue,
       CreateQueue, Enqueue, MarkQueueFull, workerVars, nodeVars
  <2>2. \/ wpc' = wpc
        \/ queues[AdminOf[r]] = None /\ wpc' = [wpc EXCEPT ![r] = "idle"]
    BY <1>1 DEF Handler, ValidateTransferReward, CreateTransferStatus, LookupQueue,
       CreateQueue, StartQueue, Enqueue, MarkQueueFull, workerVars
  <2>3. queues[AdminOf[r]] = None => wpc[r] = "none"
    BY DEF Ownership, WorkersAreOwned
  <2>4. \A q \in Requests : wpc[q] = "signing" => wpc'[q] = "signing"
    BY <2>2, <2>3 DEF TypeOK
  <2>5. QED
    BY <2>1, <2>4 DEF SignersHold
<1>2. ASSUME NEW q \in Requests, Worker(q) PROVE SignersHold'
  <2>1. \A p \in Requests \ {q} : wpc'[p] = wpc[p] /\ job'[p] = job[p]
    BY <1>2 DEF Worker, ReceiveJob, StartJob, ProcessOne, MarkProcessing,
       ProcessTransferReward, ResolveBill, PostTx, Sign, SignReturns, SignTimesOut,
       RecordSuccess, RecordFailure, EndJob, TypeOK
  <2>2. CASE Sign(q)
    <3>1. PICK r \in Requests : r = job[q]
      BY <2>2 DEF Sign, Busy, JobStages, Ownership, JobsBelong, TypeOK
    <3>2. /\ wpc'[q] = "signing" /\ job'[q] = r /\ wpc[q] # "signing"
          /\ \A x \in Requests \ {r} : node'[x] = node[x]
      BY <2>2, <3>1 DEF Sign, TypeOK
    <3>3. QED
      BY <2>1, <3>1, <3>2 DEF SignersHold
  <2>3. CASE SignReturns(q)
    <3>1. /\ UNCHANGED <<node, job>> /\ node[job[q]].state # "signing"
      BY <2>3 DEF SignReturns, nodeVars
    <3>2. QED
      BY <2>1, <3>1 DEF SignersHold
  <2>4. CASE ~Sign(q) /\ ~SignReturns(q)
    <3>1. wpc[q] # "signing"
      BY <1>2, <2>4 DEF Worker, ReceiveJob, StartJob, ProcessOne, MarkProcessing,
         ProcessTransferReward, ResolveBill, PostTx, SignTimesOut, RecordSuccess,
         RecordFailure, CallsEnd
    <3>2. \A x \in Requests : node'[x].state = "signing" => node[x].state = "signing"
      <4>1. CASE UNCHANGED node
        BY <4>1
      <4>2. CASE NodePosts(q)
        BY <4>2 DEF NodePosts, TypeOK
      <4>3. QED
        BY <1>2, <2>4, <4>1, <4>2 DEF Worker, ReceiveJob, StartJob, ProcessOne,
           MarkProcessing, ProcessTransferReward, ResolveBill, PostTx, SignTimesOut,
           RecordSuccess, RecordFailure, nodeVars
    <3>3. QED
      BY <2>1, <3>1, <3>2 DEF SignersHold
  <2>5. QED
    BY <2>2, <2>3, <2>4
<1>3. ASSUME NEW r \in Requests, NodeCommits(r) \/ NodeRefuses(r) PROVE SignersHold'
  <2>1. /\ UNCHANGED <<wpc, job>> /\ node[r].state = "signing"
        /\ \A x \in Requests \ {r} : node'[x] = node[x]
    BY <1>3 DEF NodeCommits, NodeRefuses, workerVars, TypeOK
  <2>2. QED
    BY <2>1 DEF SignersHold
<1>4. CASE UNCHANGED <<node, wpc, job>>
  BY <1>4 DEF SignersHold
<1>5. QED
  BY <1>1, <1>2, <1>3, <1>4 DEF Next, Idle, vars, DeadlineFires, Restart, CallsEnd,
     workerVars, nodeVars

(* A commit adds the job in the worker's hands, which is the next of those *)
(* sent.                                                                   *)
LEMMA CommitInOrder ==
    ASSUME Basics, SendOrder, NEW r \in Requests, NodeCommits(r)
    PROVE  ChainIsSent' /\ ChainIsOrdered'
<1> USE DEF Basics
<1> DEFINE b == AdminOf[r]
           n == Done(b) + 1
<1>1. /\ node[r].state = "signing" /\ UNCHANGED <<sent, queues, ch, wpc, job>>
      /\ chain' = [chain EXCEPT ![b] = Append(chain[b], [req |-> r, bill |-> node[r].bill])]
  BY DEF NodeCommits, queueVars, workerVars, auxVars
<1>2. \A a \in Admins : InFlight(a)' = InFlight(a) /\ Done(a)' = Done(a)
  BY <1>1 DEF InFlight, Busy, Done
<1>3. PICK q \in Requests : wpc[q] = "signing" /\ job[q] = r
  BY <1>1 DEF SendOrder, SignersHold
<1>4. Busy(q) /\ AdminOf[q] = b /\ queues[b] = q /\ q # None /\ b \in Admins
  BY <1>3 DEF Busy, JobStages, Ownership, JobsBelong, WorkersAreOwned
<1>5. n \in DOMAIN sent[b] /\ sent[b][n] = r
  <2>1. InFlight(b) = <<r>> \o ch[q] /\ ch[q] \in Seq(Requests)
    BY <1>3, <1>4 DEF InFlight, TypeOK, Channels
  <2>2. /\ Len(InFlight(b)) \in Nat /\ Len(InFlight(b)) >= 1 /\ InFlight(b)[1] = r
        /\ Len(sent[b]) \in Nat /\ DOMAIN sent[b] = 1 .. Len(sent[b])
    BY <1>4, <2>1 DEF FlightsAreSeqs
  <2>3. IsEndOf(InFlight(b), sent[b])
    BY <1>4 DEF InOrder
  <2>4. QED
    BY <2>2, <2>3 DEF IsEndOf, Done
<1>6. \A i \in DOMAIN chain[b] : chain[b][i].req # r
  BY <1>1, <1>4 DEF Lifecycle, ChainIsNode
<1>7. /\ Len(chain[b]) \in Nat /\ DOMAIN chain[b] = 1 .. Len(chain[b])
      /\ DOMAIN chain'[b] = 1 .. Len(chain[b]) + 1
      /\ \A i \in DOMAIN chain[b] : chain'[b][i] = chain[b][i]
      /\ chain'[b][Len(chain[b]) + 1].req = r
  <2>1. chain[b] \in Seq(Entries) /\ chain \in [Admins -> Seq(Entries)]
    BY <1>4 DEF TypeOK
  <2>2. [req |-> r, bill |-> node[r].bill] \in Entries
    BY DEF Entries, TypeOK, Tickets
  <2>3. chain'[b] = Append(chain[b], [req |-> r, bill |-> node[r].bill])
    BY <1>1, <1>4, <2>1
  <2>4. QED
    BY <2>1, <2>2, <2>3, AppendElements
<1>8. \A a \in Admins \ {b} : chain'[a] = chain[a]
  BY <1>1 DEF TypeOK
<1>9. ChainIsSent'
  <2>1. ASSUME NEW a \in Admins, NEW i \in DOMAIN chain'[a]
        PROVE  \E k \in DOMAIN sent'[a] : k <= Done(a)' + 1 /\ sent'[a][k] = chain'[a][i].req
    <3>1. CASE a # b
      BY <1>1, <1>2, <1>8, <2>1, <3>1 DEF SendOrder, ChainIsSent
    <3>2. CASE a = b /\ i \in DOMAIN chain[b]
      BY <1>1, <1>2, <1>7, <2>1, <3>2 DEF SendOrder, ChainIsSent
    <3>3. CASE a = b /\ i = Len(chain[b]) + 1
      <4>1. n <= n
        BY <1>4 DEF Done, FlightsAreSeqs
      <4>2. QED
        BY <1>1, <1>2, <1>5, <1>7, <3>3, <4>1
    <3>4. QED
      BY <1>7, <2>1, <3>1, <3>2, <3>3
  <2>2. QED
    BY <2>1 DEF ChainIsSent
<1>10. ChainIsOrdered'
  <2>1. ASSUME NEW a \in Admins, NEW i \in DOMAIN chain'[a], NEW j \in DOMAIN chain'[a],
               NEW k \in DOMAIN sent[a], NEW l \in DOMAIN sent[a], i < j,
               sent[a][k] = chain'[a][i].req, sent[a][l] = chain'[a][j].req
        PROVE  k < l
    <3>1. CASE a # b
      BY <1>8, <2>1, <3>1 DEF SendOrder, ChainIsOrdered
    <3>2. CASE a = b /\ j \in DOMAIN chain[b]
      <4>1. i \in DOMAIN chain[b]
        BY <1>7, <2>1, <3>2
      <4>2. QED
        BY <1>7, <2>1, <3>2, <4>1 DEF SendOrder, ChainIsOrdered
    <3>3. CASE a = b /\ j = Len(chain[b]) + 1
      <4>1. i \in DOMAIN chain[b] /\ chain'[b][i] = chain[b][i]
        BY <1>7, <2>1, <3>3
      <4>2. sent[b][l] = r /\ l = n
        BY <1>5, <1>7, <2>1, <3>3 DEF SendOrder, SentOnce
      <4>3. PICK m \in DOMAIN sent[b] : m <= n /\ sent[b][m] = chain[b][i].req
        BY <1>4, <4>1 DEF SendOrder, ChainIsSent
      <4>4. m = k
        BY <1>4, <2>1, <3>3, <4>1, <4>3 DEF SendOrder, SentOnce
      <4>5. k # n
        BY <1>5, <1>6, <2>1, <3>3, <4>1
      <4>6. k \in Int /\ n \in Int
        BY <1>4, <3>3 DEF Done, FlightsAreSeqs
      <4>7. QED
        BY <4>2, <4>3, <4>4, <4>5, <4>6
    <3>4. QED
      BY <1>7, <2>1, <3>1, <3>2, <3>3
  <2>2. QED
    BY <1>1, <2>1 DEF ChainIsOrdered
<1>11. QED
  BY <1>9, <1>10

(* Every step keeps the order.                                             *)
LEMMA SendOrderStep ==
    ASSUME CallsEnd, Basics, Basics', \A q \in Requests : ~expired[q],
           SendOrder, [Next]_vars
    PROVE  SendOrder'
<1> USE DEF Basics
<1>1. Flow /\ ~Restart
  BY FlowStep DEF Restart, CallsEnd
<1>2. SignersHold'
  BY SignersStep DEF SendOrder
<1>3. SentOnce'
  <2>1. ASSUME NEW a \in Admins, NEW i \in DOMAIN sent'[a]
        PROVE  /\ pc'[sent'[a][i]] = "accepted" /\ AdminOf[sent'[a][i]] = a
               /\ \A j \in DOMAIN sent'[a] : sent'[a][i] = sent'[a][j] => i = j
    <3>1. ASSUME NEW k \in DOMAIN sent[a]
          PROVE  /\ k \in DOMAIN sent'[a] /\ sent'[a][k] = sent[a][k]
                 /\ pc[sent[a][k]] = "accepted" /\ pc'[sent[a][k]] = "accepted"
                 /\ AdminOf[sent[a][k]] = a
      <4>1. sent[a][k] \in Requests
        BY DEF FlightsAreSeqs
      <4>2. QED
        BY <1>1, <4>1, SentGrows, AcceptedStays DEF SendOrder, SentOnce
    <3>2. CASE DOMAIN sent'[a] = DOMAIN sent[a]
      BY <2>1, <3>1, <3>2 DEF SendOrder, SentOnce
    <3>3. CASE DOMAIN sent'[a] # DOMAIN sent[a]
      <4>1. PICK r \in Requests :
                /\ pc[r] = "send" /\ pc'[r] = "accepted" /\ AdminOf[r] = a
                /\ DOMAIN sent'[a] = DOMAIN sent[a] \cup {Len(sent[a]) + 1}
                /\ sent'[a][Len(sent[a]) + 1] = r
        BY <1>1, <3>3, SentGrows
      <4>2. QED
        BY <2>1, <3>1, <4>1 DEF SendOrder, SentOnce
    <3>4. QED
      BY <3>2, <3>3
  <2>2. QED
    BY <2>1 DEF SentOnce
<1>4. CASE UNCHANGED chain
  <2>1. ChainIsSent'
    <3>1. ASSUME NEW a \in Admins, NEW i \in DOMAIN chain[a]
          PROVE  \E k \in DOMAIN sent'[a] :
                     k <= Done(a)' + 1 /\ sent'[a][k] = chain[a][i].req
      <4>1. PICK k \in DOMAIN sent[a] : k <= Done(a) + 1 /\ sent[a][k] = chain[a][i].req
        BY DEF SendOrder, ChainIsSent
      <4>2. k \in Int
        BY DEF FlightsAreSeqs
      <4>3. k \in DOMAIN sent'[a] /\ sent'[a][k] = sent[a][k]
        BY <1>1, SentGrows
      <4>4. Done(a) \in Int /\ Done(a)' \in Int /\ Done(a) <= Done(a)'
        BY <1>1, SentGrows
      <4>5. QED
        BY <4>1, <4>2, <4>3, <4>4
    <3>2. QED
      BY <1>4, <3>1 DEF ChainIsSent
  <2>2. ChainIsOrdered'
    <3>1. ASSUME NEW a \in Admins, NEW i \in DOMAIN chain[a],
                 NEW k \in DOMAIN sent'[a], sent'[a][k] = chain[a][i].req
          PROVE  k \in DOMAIN sent[a] /\ sent[a][k] = chain[a][i].req
      <4>1. node[chain[a][i].req].state = "committed" /\ chain[a][i].req \in Requests
        <5>1. chain[a] \in Seq(Entries)
          BY DEF TypeOK
        <5>2. chain[a][i] \in Entries
          BY <5>1
        <5>3. chain[a][i].req \in Requests
          BY <5>2 DEF Entries
        <5>4. QED
          BY <5>3 DEF Lifecycle, ChainIsNode
      <4>2. pc[chain[a][i].req] = "accepted"
        BY <4>1 DEF Lifecycle, RowsOfHandlers
      <4>3. k \in DOMAIN sent[a]
        BY <1>1, <3>1, <4>2, SentGrows
      <4>4. QED
        BY <1>1, <3>1, <4>3, SentGrows
    <3>2. QED
      BY <1>4, <3>1 DEF SendOrder, ChainIsOrdered
  <2>3. QED
    BY <1>2, <1>3, <2>1, <2>2 DEF SendOrder
<1>5. CASE \E r \in Requests : NodeCommits(r)
  BY <1>2, <1>3, <1>5, CommitInOrder DEF SendOrder
<1>6. ASSUME NEW r \in Requests, Handler(r) PROVE UNCHANGED chain
  BY <1>6 DEF Handler, ValidateTransferReward, CreateTransferStatus, LookupQueue,
     CreateQueue, Enqueue, MarkQueueFull, nodeVars
<1>7. ASSUME NEW q \in Requests, Worker(q) PROVE UNCHANGED chain
  BY <1>7 DEF Worker, ReceiveJob, StartJob, ProcessOne, MarkProcessing,
     ProcessTransferReward, ResolveBill, PostTx, Sign, SignReturns, SignTimesOut,
     RecordSuccess, RecordFailure, nodeVars
<1>8. QED
  BY <1>1, <1>4, <1>5, <1>6, <1>7 DEF Next, Idle, vars, DeadlineFires, NodeRefuses, nodeVars

(* As long as the process runs and waits for the node, the contract's      *)
(* chain extends in the order in which the handlers sent the jobs.         *)
THEOREM ChainFollowsSends ==
    ASSUME CallsEnd
    PROVE  Spec => []ChainInSendOrder
<1> DEFINE NoneExpired == \A q \in Requests : ~expired[q]
<1>1. Init => NoneExpired /\ SendOrder
  BY DEF Init, SendOrder, SentOnce, SignersHold, ChainIsSent, ChainIsOrdered
<1>2. TypeOK /\ NoneExpired /\ [Next]_vars => NoneExpired'
  BY NeverExpires DEF CallsEnd
<1>3. TypeOK /\ Ownership /\ Lifecycle /\ InOrder => Basics
  BY FlightTypes DEF Basics
<1>4. Basics /\ Basics' /\ NoneExpired /\ SendOrder /\ [Next]_vars => SendOrder'
  BY SendOrderStep
<1>5. Basics /\ SendOrder => ChainInSendOrder
  <2> SUFFICES ASSUME Basics, SendOrder, NEW a \in Admins,
                      NEW i \in DOMAIN chain[a], NEW j \in DOMAIN chain[a], i < j
               PROVE  Position(chain[a][i].req) < Position(chain[a][j].req)
    BY DEF ChainInSendOrder
  <2>1. ASSUME NEW m \in DOMAIN chain[a]
        PROVE  /\ Position(chain[a][m].req) \in DOMAIN sent[a]
               /\ sent[a][Position(chain[a][m].req)] = chain[a][m].req
    <3>1. AdminOf[chain[a][m].req] = a
      BY DEF Basics, Lifecycle, ChainIsNode
    <3>2. \E k \in DOMAIN sent[a] : sent[a][k] = chain[a][m].req
      BY DEF SendOrder, ChainIsSent
    <3>3. QED
      BY <3>1, <3>2 DEF Position
  <2>2. QED
    BY <2>1 DEF SendOrder, ChainIsOrdered
<1>6. QED
  BY <1>1, <1>2, <1>3, <1>4, <1>5, InOrderInvariant, TypeCorrect, OwnershipInvariant,
     LifecycleInvariant, PTL DEF Spec
=============================================================================
