----------------------------- MODULE PayoutQueue -----------------------------
(***************************************************************************)
(* The asynchronous reward transfer: the HTTP handlers that insert a       *)
(* transfer_status row and offer a job to the admin's bounded channel, the *)
(* lazily created queue and worker goroutine of each admin, the worker's   *)
(* run of a job (processOne and ProcessTransferReward), and the admin's    *)
(* Rubix node as the code uses it (PostTx, then a blocking Sign).          *)
(*                                                                         *)
(* A request is one run of handleTransferReward (or its /v1 alias).  A     *)
(* queue object is named by the request whose handler created it, so that  *)
(* two handlers could create two queues for one admin if the code let      *)
(* them.  Time is left out: the spacing wait is a stage of the worker that *)
(* may last any time (PayoutSpacing adds the clock).                       *)
(*                                                                         *)
(* The contract hash and the points of a job are read from tables that     *)
(* other handlers change at any time, so a job may be billed with any      *)
(* member of Bills, or find nothing to bill.                               *)
(***************************************************************************)
EXTENDS Integers, Sequences

CONSTANTS
    Requests,       \* request_id values: one per POST
    Admins,         \* admin DIDs
    Registered,     \* the admins that are ever in the in-memory config map
    AdminOf,        \* the admin_did of each request
    BufferSize,     \* capacity of an admin's channel
    Contracts,      \* reward contract hashes
    Points,         \* sums of activity points a job may find
    MaxColumn,      \* largest value of the INTEGER column reward_points
    Faults,         \* the faults that may happen, see below
    MaxCrashes,     \* bound on restarts of the server
    None

(* "crash"     the server process stops and is started again               *)
(* "cancel"    the client goes away: the handler's request context ends    *)
(* "db"        a worker's SQL statement fails, applied or not              *)
(* "deadline"  the context of a job ends while the job runs                *)
(* "timeout"   a call of the node gets no answer within the HTTP timeout   *)
FaultKinds == {"crash", "cancel", "db", "deadline", "timeout"}

ASSUME NoneAssumption == None \notin Requests \cup Contracts
ASSUME AdminAssumption == AdminOf \in [Requests -> Admins]
ASSUME BufferAssumption == BufferSize \in Nat \ {0}
ASSUME PointsAssumption == Points \subseteq Nat /\ MaxColumn \in Nat
ASSUME FaultAssumption == Faults \subseteq FaultKinds /\ MaxCrashes \in Nat

Bills  == [contract : Contracts, points : Points \ {0}]
NoBill == [contract |-> None, points |-> 0]

VARIABLES
    row,      \* the transfer_status table: status, contract_hash and points
    pc,       \* stage of each request's handler, its answer when it is over
    own,      \* the queue object the handler got from getOrCreate
    queues,   \* Manager.queues: the queue object of each admin
    ch,       \* the channel of each queue object
    wpc,      \* stage of the worker goroutine of each queue object
    job,      \* the job in its hands
    bill,     \* contract and points of that job, once looked up
    expired,  \* the context of that job has ended
    node,     \* the node's view of a request: state and posted bill
    chain,    \* executions on the admin's reward contract, in commit order
    sent,     \* history: the jobs sent to the admin's channel since start
    crashes   \* number of restarts

handlerVars == <<pc, own>>
queueVars   == <<queues, ch>>
workerVars  == <<wpc, job, bill, expired>>
nodeVars    == <<node, chain>>
auxVars     == <<sent, crashes>>
vars == <<row, handlerVars, queueVars, workerVars, nodeVars, auxVars>>

HandlerRunning == {"insert", "lookup", "create", "send", "markfull"}
Refusals       == {"rejected", "error", "unavailable"}
HandlerStages  == {"new", "accepted", "lost"} \cup HandlerRunning \cup Refusals

JobStages    == {"mark", "resolve", "post", "sign", "signing", "succeed", "fail"}
WorkerStages == {"none", "idle", "spacing"} \cup JobStages

Statuses   == {"queued", "processing", "success", "failed"}
Settled    == {"success", "failed"}
NodeStates == {"none", "posted", "signing", "committed", "refused"}

Rows     == [status : Statuses \cup {"none"}, bill : Bills \cup {NoBill}]
Tickets  == [state : NodeStates, bill : Bills \cup {NoBill}]
Entries  == [req : Requests, bill : Bills \cup {NoBill}]
Channels == {s \in Seq(Requests) : Len(s) <= BufferSize}

TypeOK ==
    /\ row \in [Requests -> Rows]
    /\ pc \in [Requests -> HandlerStages]
    /\ own \in [Requests -> Requests \cup {None}]
    /\ queues \in [Admins -> Requests \cup {None}]
    /\ ch \in [Requests -> Channels]
    /\ wpc \in [Requests -> WorkerStages]
    /\ job \in [Requests -> Requests \cup {None}]
    /\ bill \in [Requests -> Bills \cup {NoBill}]
    /\ expired \in [Requests -> BOOLEAN]
    /\ node \in [Requests -> Tickets]
    /\ chain \in [Admins -> Seq(Entries)]
    /\ sent \in [Admins -> Seq(Requests)]
    /\ crashes \in 0 .. MaxCrashes

Init ==
    /\ row     = [r \in Requests |-> [status |-> "none", bill |-> NoBill]]
    /\ pc      = [r \in Requests |-> "new"]
    /\ own     = [r \in Requests |-> None]
    /\ queues  = [a \in Admins |-> None]
    /\ ch      = [q \in Requests |-> <<>>]
    /\ wpc     = [q \in Requests |-> "none"]
    /\ job     = [q \in Requests |-> None]
    /\ bill    = [q \in Requests |-> NoBill]
    /\ expired = [q \in Requests |-> FALSE]
    /\ node    = [r \in Requests |-> [state |-> "none", bill |-> NoBill]]
    /\ chain   = [a \in Admins |-> <<>>]
    /\ sent    = [a \in Admins |-> <<>>]
    /\ crashes = 0

(***************************************************************************)
(* The handler.                                                            *)
(***************************************************************************)

HandlerGoes(r, from, to) ==
    /\ pc[r] = from
    /\ pc' = [pc EXCEPT ![r] = to]

(* The admin must be in the config map when the handler looks.  The map    *)
(* may change (AdminRegistry) and the body may be malformed, so any        *)
(* request may be refused.                                                 *)
ValidateTransferReward(r) ==
    /\ \/ AdminOf[r] \in Registered /\ HandlerGoes(r, "new", "insert")
       \/ HandlerGoes(r, "new", "rejected")
    /\ UNCHANGED <<row, own, queueVars, workerVars, nodeVars, auxVars>>

InsertRow(r) ==
    row' = [row EXCEPT ![r] = [status |-> "queued", bill |-> NoBill]]

CreateTransferStatus(r) ==
    /\ \/ HandlerGoes(r, "insert", "lookup") /\ InsertRow(r)
       \/ /\ "cancel" \in Faults
          /\ HandlerGoes(r, "insert", "error")
          /\ InsertRow(r) \/ UNCHANGED row
    /\ UNCHANGED <<own, queueVars, workerVars, nodeVars, auxVars>>

(* getOrCreate under the read lock.                                        *)
LookupQueue(r) ==
    LET q == queues[AdminOf[r]] IN
    /\ IF q # None THEN HandlerGoes(r, "lookup", "send")
                   ELSE HandlerGoes(r, "lookup", "create")
    /\ own' = [own EXCEPT ![r] = q]
    /\ UNCHANGED <<row, queueVars, workerVars, nodeVars, auxVars>>

StartQueue(r) ==
    /\ own'    = [own EXCEPT ![r] = r]
    /\ queues' = [queues EXCEPT ![AdminOf[r]] = r]
    /\ wpc'    = [wpc EXCEPT ![r] = "idle"]
    /\ UNCHANGED ch

CreateQueueUnchecked(r) ==
    /\ HandlerGoes(r, "create", "send")
    /\ StartQueue(r)
    /\ UNCHANGED <<row, job, bill, expired, nodeVars, auxVars>>

(* getOrCreate under the write lock: look again, then create the queue and *)
(* start its worker.                                                       *)
CreateQueue(r) ==
    LET q == queues[AdminOf[r]] IN
    /\ HandlerGoes(r, "create", "send")
    /\ IF q # None
       THEN own' = [own EXCEPT ![r] = q] /\ UNCHANGED <<queues, ch, wpc>>
       ELSE StartQueue(r)
    /\ UNCHANGED <<row, job, bill, expired, nodeVars, auxVars>>

SendDropsWhenFull(r) ==
    LET q == own[r] IN
    /\ HandlerGoes(r, "send", "accepted")
    /\ ch' = IF Len(ch[q]) < BufferSize
             THEN [ch EXCEPT ![q] = Append(@, r)] ELSE ch
    /\ sent' = [sent EXCEPT ![AdminOf[r]] = Append(@, r)]
    /\ own' = [own EXCEPT ![r] = None]
    /\ UNCHANGED <<row, queues, workerVars, nodeVars, crashes>>

SendToFront(r) ==
    LET q == own[r] IN
    /\ pc[r] = "send"
    /\ IF Len(ch[q]) < BufferSize
       THEN /\ HandlerGoes(r, "send", "accepted")
            /\ ch'   = [ch EXCEPT ![q] = <<r>> \o @]
            /\ sent' = [sent EXCEPT ![AdminOf[r]] = Append(@, r)]
       ELSE /\ HandlerGoes(r, "send", "markfull")
            /\ UNCHANGED <<ch, sent>>
    /\ own' = [own EXCEPT ![r] = None]
    /\ UNCHANGED <<row, queues, workerVars, nodeVars, crashes>>

SendRefusesLate(r) ==
    LET q == own[r] IN
    /\ pc[r] = "send"
    /\ ch'   = [ch EXCEPT ![q] = Append(@, r)]
    /\ sent' = [sent EXCEPT ![AdminOf[r]] = Append(@, r)]
    /\ IF Len(ch[q]) < BufferSize THEN HandlerGoes(r, "send", "accepted")
                                  ELSE HandlerGoes(r, "send", "markfull")
    /\ own' = [own EXCEPT ![r] = None]
    /\ UNCHANGED <<row, queues, workerVars, nodeVars, crashes>>

SendWaitsForRoom(r) ==
    LET q == own[r] IN
    /\ pc[r] = "send" /\ Len(ch[q]) < BufferSize
    /\ HandlerGoes(r, "send", "accepted")
    /\ ch'   = [ch EXCEPT ![q] = Append(@, r)]
    /\ sent' = [sent EXCEPT ![AdminOf[r]] = Append(@, r)]
    /\ own'  = [own EXCEPT ![r] = None]
    /\ UNCHANGED <<row, queues, workerVars, nodeVars, crashes>>

(* Enqueue: the non-blocking send.  "accepted" is the 202 that follows.    *)
Enqueue(r) ==
    LET q == own[r] IN
    /\ pc[r] = "send"
    /\ IF Len(ch[q]) < BufferSize
       THEN /\ HandlerGoes(r, "send", "accepted")
            /\ ch'   = [ch EXCEPT ![q] = Append(@, r)]
            /\ sent' = [sent EXCEPT ![AdminOf[r]] = Append(@, r)]
       ELSE /\ HandlerGoes(r, "send", "markfull")
            /\ UNCHANGED <<ch, sent>>
    /\ own' = [own EXCEPT ![r] = None]
    /\ UNCHANGED <<row, queues, workerVars, nodeVars, crashes>>

(* ErrQueueFull: fail the row, ignoring an error, and answer 503.          *)
MarkQueueFull(r) ==
    /\ HandlerGoes(r, "markfull", "unavailable")
    /\ \/ row' = [row EXCEPT ![r].status = "failed"]
       \/ "cancel" \in Faults /\ UNCHANGED row
    /\ UNCHANGED <<own, queueVars, workerVars, nodeVars, auxVars>>

Handler(r) ==
    \/ ValidateTransferReward(r) \/ CreateTransferStatus(r) \/ LookupQueue(r)
    \/ CreateQueue(r) \/ Enqueue(r) \/ MarkQueueFull(r)

(***************************************************************************)
(* The worker of queue object q.                                           *)
(***************************************************************************)

WorkerGoes(q, from, to) ==
    /\ wpc[q] = from
    /\ wpc' = [wpc EXCEPT ![q] = to]

(* range q.ch: take the oldest job, then wait for the admin's spacing.     *)
ReceiveJob(q) ==
    /\ ch[q] # <<>>
    /\ WorkerGoes(q, "idle", "spacing")
    /\ job' = [job EXCEPT ![q] = Head(ch[q])]
    /\ ch'  = [ch EXCEPT ![q] = Tail(@)]
    /\ UNCHANGED <<row, handlerVars, queues, bill, expired, nodeVars, auxVars>>

(* waitForSpacing is over: processOne makes the job's context.             *)
StartJob(q) ==
    /\ WorkerGoes(q, "spacing", "mark")
    /\ UNCHANGED <<row, handlerVars, queueVars, job, bill, expired, nodeVars, auxVars>>

(* UpdateTransferStatus with the job's context: nothing is written once    *)
(* that context has ended.                                                 *)
JobWrites(q, newRow) ==
    \/ ~expired[q] /\ row' = [row EXCEPT ![job[q]] = newRow]
    \/ (expired[q] \/ "db" \in Faults) /\ UNCHANGED row

(* An error is only logged.                                                *)
MarkProcessing(q) ==
    /\ WorkerGoes(q, "mark", "resolve")
    /\ JobWrites(q, [row[job[q]] EXCEPT !.status = "processing"])
    /\ UNCHANGED <<handlerVars, queueVars, job, bill, expired, nodeVars, auxVars>>

(* GetAdminContract, SumRewardPointsForActivities, ClientFor.              *)
ResolveBill(q) ==
    /\ \/ /\ ~expired[q]
          /\ WorkerGoes(q, "resolve", "post")
          /\ \E b \in Bills : bill' = [bill EXCEPT ![q] = b]
       \/ WorkerGoes(q, "resolve", "fail") /\ UNCHANGED bill
    /\ UNCHANGED <<row, handlerVars, queueVars, job, expired, nodeVars, auxVars>>

NodePosts(q) ==
    node' = [node EXCEPT ![job[q]] = [state |-> "posted", bill |-> bill[q]]]

(* Only Sign executes: a posted request whose answer was lost stays there. *)
PostTx(q) ==
    /\ \/ ~expired[q] /\ WorkerGoes(q, "post", "sign") /\ NodePosts(q)
       \/ WorkerGoes(q, "post", "fail") /\ UNCHANGED node
       \/ /\ "timeout" \in Faults /\ ~expired[q]
          /\ WorkerGoes(q, "post", "fail") /\ NodePosts(q)
    /\ UNCHANGED <<row, handlerVars, queueVars, job, bill, expired, chain, auxVars>>

SignDoesNotWait(q) ==
    /\ WorkerGoes(q, "sign", "succeed")
    /\ node' = [node EXCEPT ![job[q]].state = "signing"]
    /\ UNCHANGED <<row, handlerVars, queueVars, job, bill, expired, chain, auxVars>>

Sign(q) ==
    /\ \/ /\ ~expired[q]
          /\ WorkerGoes(q, "sign", "signing")
          /\ node' = [node EXCEPT ![job[q]].state = "signing"]
       \/ expired[q] /\ WorkerGoes(q, "sign", "fail") /\ UNCHANGED node
    /\ UNCHANGED <<row, handlerVars, queueVars, job, bill, expired, chain, auxVars>>

SignNeedsTransactionID(q) ==
    /\ \/ WorkerGoes(q, "signing", "succeed") /\ node[job[q]].state = "committed"
       \/ WorkerGoes(q, "signing", "fail")
          /\ node[job[q]].state \in {"committed", "refused"}
    /\ UNCHANGED <<row, handlerVars, queueVars, job, bill, expired, nodeVars, auxVars>>

(* status=true is success even when no transaction id can be found in it;  *)
(* status=false is an APIError.                                            *)
SignReturns(q) ==
    /\ \/ WorkerGoes(q, "signing", "succeed") /\ node[job[q]].state = "committed"
       \/ WorkerGoes(q, "signing", "fail") /\ node[job[q]].state = "refused"
    /\ UNCHANGED <<row, handlerVars, queueVars, job, bill, expired, nodeVars, auxVars>>

(* The HTTP client or the job's context gives up; the node does not.       *)
SignTimesOut(q) ==
    /\ "timeout" \in Faults \/ expired[q]
    /\ WorkerGoes(q, "signing", "fail")
    /\ UNCHANGED <<row, handlerVars, queueVars, job, bill, expired, nodeVars, auxVars>>

(* processOne returns: its context is cancelled and its variables are gone.*)
EndJob(q) ==
    /\ job'     = [job EXCEPT ![q] = None]
    /\ bill'    = [bill EXCEPT ![q] = NoBill]
    /\ expired' = [expired EXCEPT ![q] = FALSE]

SuccessRow(q) == [status |-> "success", bill |-> bill[q]]

RecordSuccessOfNextBill(q) ==
    /\ WorkerGoes(q, "succeed", "idle")
    /\ \E b \in Bills : JobWrites(q, [status |-> "success", bill |-> b])
    /\ EndJob(q)
    /\ UNCHANGED <<handlerVars, queueVars, nodeVars, auxVars>>

(* The points do not fit the column: the statement fails and is logged.    *)
RecordSuccess(q) ==
    /\ WorkerGoes(q, "succeed", "idle")
    /\ IF bill[q].points <= MaxColumn THEN JobWrites(q, SuccessRow(q))
                                      ELSE UNCHANGED row
    /\ EndJob(q)
    /\ UNCHANGED <<handlerVars, queueVars, nodeVars, auxVars>>

FailedRow(q) == [row[job[q]] EXCEPT !.status = "failed"]

RecordFailureAndRetry(q) ==
    /\ WorkerGoes(q, "fail", "spacing")
    /\ JobWrites(q, FailedRow(q))
    /\ UNCHANGED <<handlerVars, queueVars, job, bill, expired, nodeVars, auxVars>>

RecordFailureNever(q) ==
    /\ WorkerGoes(q, "fail", "idle")
    /\ EndJob(q)
    /\ UNCHANGED <<row, handlerVars, queueVars, nodeVars, auxVars>>

RecordFailure(q) ==
    /\ WorkerGoes(q, "fail", "idle")
    /\ JobWrites(q, FailedRow(q))
    /\ EndJob(q)
    /\ UNCHANGED <<handlerVars, queueVars, nodeVars, auxVars>>

(* context.WithTimeout fires while the job runs.                           *)
DeadlineFires(q) ==
    /\ "deadline" \in Faults
    /\ wpc[q] \in JobStages /\ ~expired[q]
    /\ expired' = [expired EXCEPT ![q] = TRUE]
    /\ UNCHANGED <<row, handlerVars, queueVars, wpc, job, bill, nodeVars, auxVars>>

ProcessTransferReward(q) ==
    ResolveBill(q) \/ PostTx(q) \/ Sign(q) \/ SignReturns(q) \/ SignTimesOut(q)

ProcessOne(q) ==
    \/ MarkProcessing(q) \/ ProcessTransferReward(q)
    \/ RecordSuccess(q) \/ RecordFailure(q)

Worker(q) == ReceiveJob(q) \/ StartJob(q) \/ ProcessOne(q)

(***************************************************************************)
(* The admin's node, and the process.                                      *)
(***************************************************************************)

(* Quorum signing ends; nobody need be waiting for it any more.            *)
NodeCommits(r) ==
    /\ node[r].state = "signing"
    /\ node'  = [node EXCEPT ![r].state = "committed"]
    /\ chain' = [chain EXCEPT ![AdminOf[r]] =
                    Append(@, [req |-> r, bill |-> node[r].bill])]
    /\ UNCHANGED <<row, handlerVars, queueVars, workerVars, auxVars>>

NodeRefuses(r) ==
    /\ node[r].state = "signing"
    /\ node' = [node EXCEPT ![r].state = "refused"]
    /\ UNCHANGED <<row, handlerVars, queueVars, workerVars, chain, auxVars>>

(* A signal: the process sleeps five seconds, exits and is started again.  *)
(* Channels, workers and running handlers are gone; main re-enqueues no    *)
(* row.                                                                    *)
Restart ==
    /\ "crash" \in Faults /\ crashes < MaxCrashes
    /\ crashes' = crashes + 1
    /\ pc' = [r \in Requests |-> IF pc[r] \in HandlerRunning THEN "lost" ELSE pc[r]]
    /\ own'     = [r \in Requests |-> None]
    /\ queues'  = [a \in Admins |-> None]
    /\ ch'      = [q \in Requests |-> <<>>]
    /\ wpc'     = [q \in Requests |-> "none"]
    /\ job'     = [q \in Requests |-> None]
    /\ bill'    = [q \in Requests |-> NoBill]
    /\ expired' = [q \in Requests |-> FALSE]
    /\ sent'    = [a \in Admins |-> <<>>]
    /\ UNCHANGED <<row, nodeVars>>

(* Every POST is answered and every job done: the server idles.            *)
Idle ==
    /\ \A r \in Requests : pc[r] \notin HandlerRunning \cup {"new"}
    /\ \A q \in Requests : wpc[q] \in {"none", "idle"} /\ ch[q] = <<>>
    /\ UNCHANGED vars

Next ==
    \/ \E r \in Requests : Handler(r) \/ Worker(r) \/ DeadlineFires(r)
    \/ \E r \in Requests : NodeCommits(r) \/ NodeRefuses(r)
    \/ Restart
    \/ Idle

Spec == Init /\ [][Next]_vars

(* Clients need not call; a handler that runs is scheduled until it        *)
(* answers.                                                                *)
HandlerFairness == \A r \in Requests : WF_vars(pc[r] # "new" /\ Handler(r))

(* Nothing is assumed of the node: a worker that waits for it is fair only *)
(* because its client times out.                                           *)
WorkerFairness == \A q \in Requests : WF_vars(Worker(q))

FairSpec == Spec /\ HandlerFairness

(***************************************************************************)
(* Safety.                                                                 *)
(***************************************************************************)

Busy(q) == wpc[q] \in {"spacing"} \cup JobStages

(* The package comment's claim: jobs of one admin run serially.  However   *)
(* the first handlers of an admin interleave in getOrCreate, at most one   *)
(* worker ever holds a job of that admin.                                  *)
SerialPerAdmin ==
    \A p, q \in Requests :
        Busy(p) /\ Busy(q) /\ AdminOf[job[p]] = AdminOf[job[q]] => p = q

InFlight(a) ==
    IF queues[a] = None THEN <<>>
    ELSE LET q == queues[a]
         IN  (IF Busy(q) THEN <<job[q]>> ELSE <<>>) \o ch[q]

(* FIFO without loss or duplication: what a worker holds and what waits    *)
(* in the channel is, in order, the end of what the handlers were told was *)
(* enqueued; everything before it has been run.                            *)
InFlightIsEndOfSent ==
    \A a \in Admins :
        LET n == Len(InFlight(a)) IN
        /\ n <= Len(sent[a])
        /\ InFlight(a) = SubSeq(sent[a], Len(sent[a]) - n + 1, Len(sent[a]))

Executions(r) ==
    {i \in DOMAIN chain[AdminOf[r]] : chain[AdminOf[r]][i].req = r}

(* A row says success only of a transfer the node committed, with the      *)
(* contract and the points the chain shows.                                *)
SuccessIsOnChain ==
    \A r \in Requests :
        row[r].status = "success" =>
            \E i \in Executions(r) : chain[AdminOf[r]][i].bill = row[r].bill

(* One request is executed at most once, through restarts, timeouts and    *)
(* late commits.                                                           *)
AtMostOnce ==
    \A r \in Requests : \A i, j \in Executions(r) : i = j

(* 400, 500 and 503 are final: a refused request is in no channel, in no   *)
(* worker's hands and not on chain.                                        *)
RefusedNeverRuns ==
    \A r \in Requests :
        pc[r] \in Refusals =>
            /\ Executions(r) = {}
            /\ \A q \in Requests : job[q] # r /\ \A i \in DOMAIN ch[q] : ch[q][i] # r

(* A settled row is never touched again, neither by its handler nor by a   *)
(* worker nor after a restart.                                             *)
SettledRowsStay ==
    [][\A r \in Requests : row[r].status \in Settled => row'[r] = row[r]]_vars

(***************************************************************************)
(* Safety that faults of the surroundings take away.                       *)
(***************************************************************************)

(* processOne's comment: errors are recorded in the status row.  When the  *)
(* worker is through with a job, the row of that job is settled.           *)
EndedJobIsSettled ==
    [][\A q \in Requests :
        wpc[q] \in JobStages /\ wpc'[q] = "idle"
            => row'[job[q]].status \in Settled]_vars

(* A client that goes away takes the handler's statements with it: an      *)
(* INSERT that was applied is answered 500, or the UPDATE of a refused     *)
(* row is lost.                                                            *)
LeftOpenByClient(r) == "cancel" \in Faults /\ pc[r] \in {"error", "unavailable"}

(* An open row has someone who will settle it, its handler, the channel or *)
(* the worker, unless the request was refused to a client that had gone.   *)
OpenRowHasOwner ==
    \A r \in Requests :
        row[r].status \in {"queued", "processing"} =>
            \/ pc[r] \in HandlerRunning
            \/ \E i \in DOMAIN InFlight(AdminOf[r]) : InFlight(AdminOf[r])[i] = r
            \/ LeftOpenByClient(r)

(* A failed row was not executed: without timeouts the client and the node *)
(* agree on the outcome.                                                   *)
FailedIsNotOnChain ==
    \A r \in Requests : row[r].status = "failed" => Executions(r) = {}

Position(r) == CHOOSE i \in DOMAIN sent[AdminOf[r]] : sent[AdminOf[r]][i] = r

(* The contract's chain extends in the order in which the handlers enqueued*)
(* the jobs.                                                               *)
ChainInSendOrder ==
    \A a \in Admins : \A i, j \in DOMAIN chain[a] :
        i < j => Position(chain[a][i].req) < Position(chain[a][j].req)

(***************************************************************************)
(* Liveness.                                                               *)
(***************************************************************************)

(* Every enqueued job's row is settled if the workers are scheduled, even  *)
(* if the node never answers.                                              *)
AcceptedIsSettled ==
    WorkerFairness =>
        \A r \in Requests : pc[r] = "accepted" ~> row[r].status \in Settled

(* A POST is answered although no worker and no node takes a step: Enqueue *)
(* does not block on a full channel.                                       *)
PostIsAnswered ==
    \A r \in Requests : pc[r] \in HandlerRunning ~> pc[r] \notin HandlerRunning

(***************************************************************************)
(* The queue implements the ledger that clients see.                       *)
(***************************************************************************)

AnswerOf(r) == CASE pc[r] = "accepted" -> "accepted"
                 [] pc[r] \in Refusals -> "refused"
                 [] OTHER -> "pending"

Ledger == INSTANCE PayoutLedger WITH
    answer   <- [r \in Requests |-> AnswerOf(r)],
    status   <- [r \in Requests |-> row[r].status],
    reported <- [r \in Requests |-> row[r].bill],
    executed <- [r \in Requests |->
                    {chain[AdminOf[r]][i].bill : i \in Executions(r)}]

LedgerSpec == Ledger!Spec
=============================================================================
