------------------------- MODULE PayoutSpacing_proofs -------------------------
(***************************************************************************)
(* Proofs about PayoutSpacing, for all intervals, overrides and timeouts,  *)
(* on top of what is proved of the queue without a clock.                  *)
(***************************************************************************)
EXTENDS PayoutSpacing, PayoutQueue_proofs

USE NoneAssumption, AdminAssumption, IntervalAssumption, TimeAssumption

(* A step with a clock is a step of the queue or only lets time pass.      *)
LEMMA TimedStep == [TimedNext]_timedVars => [Next]_vars
BY DEF TimedNext, timedVars, Next, Worker, ProcessOne, ProcessTransferReward,
       TimedReceive, TimedStart, TimedCall, TimedGiveUp, Timeless, TimedEnd,
       TimedNode, TimedRestart, Tick

(* The clock restricts the queue and adds nothing to it: whatever is proved*)
(* of Spec, the refinement of PayoutLedger too, holds of TimedSpec.        *)
THEOREM Untimed == TimedSpec => Spec
<1>1. TimedInit => Init
  BY DEF TimedInit
<1>2. QED
  BY <1>1, TimedStep, PTL DEF TimedSpec, Spec

(* Types and the ownership of queue objects carry over.                    *)
LEMMA QueueInvariant == TimedSpec => [](TypeOK /\ Ownership)
<1>1. TimedInit => TypeOK /\ Ownership
  BY TypeInit, OwnershipInit DEF TimedInit
<1>2. TypeOK /\ Ownership /\ [TimedNext]_timedVars => TypeOK' /\ Ownership'
  BY TimedStep, TypeStep, OwnershipStep
<1>3. QED
  BY <1>1, <1>2, PTL DEF TimedSpec

(***************************************************************************)
(* What the steps do to the stages of workers.                             *)
(***************************************************************************)

(* A handler's step may start one worker, of an admin without a queue.     *)
LEMMA HandlerStarts ==
    ASSUME TypeOK, NEW r \in Requests, Handler(r)
    PROVE  \/ UNCHANGED <<wpc, queues>>
           \/ /\ queues[AdminOf[r]] = None
              /\ queues' = [queues EXCEPT ![AdminOf[r]] = r]
              /\ wpc' = [wpc EXCEPT ![r] = "idle"]
BY DEF Handler, ValidateTransferReward, CreateTransferStatus, LookupQueue, CreateQueue,
       StartQueue, Enqueue, MarkQueueFull, queueVars, workerVars

(* Steps inside a job leave the worker in a job.                           *)
LEMMA JobStays ==
    ASSUME NEW q \in Requests, TimedCall(q) \/ TimedGiveUp(q) \/ Timeless(q)
    PROVE  /\ wpc[q] \in JobStages
           /\ wpc' = wpc \/ \E s \in JobStages : wpc' = [wpc EXCEPT ![q] = s]
           /\ UNCHANGED <<queues, now, lastDone, wake, ended>>
BY DEF TimedCall, TimedGiveUp, Timeless, ResolveBill, Sign, SignTimesOut, DeadlineFires,
       MarkProcessing, PostTx, SignReturns, WorkerGoes, JobStages, queueVars, stamps

(* A job ends, its worker is idle and the time is noted.                   *)
LEMMA JobEnds ==
    ASSUME NEW q \in Requests, TimedEnd(q)
    PROVE  /\ wpc[q] \in JobStages /\ wpc' = [wpc EXCEPT ![q] = "idle"]
           /\ lastDone' = [lastDone EXCEPT ![q] = now]
           /\ ended' = [ended EXCEPT ![AdminOf[job[q]]] = now]
           /\ UNCHANGED <<queues, now, wake>>
BY DEF TimedEnd, RecordSuccess, RecordFailure, WorkerGoes, JobStages, queueVars

(***************************************************************************)
(* Types.                                                                  *)
(***************************************************************************)

Clocks ==
    /\ now \in 0 .. MaxTime
    /\ lastDone \in [Requests -> Time] /\ wake \in [Requests -> Time]
    /\ deadline \in [Requests -> Time] /\ callEnds \in [Requests -> Time]
    /\ ended \in [Admins -> Time] /\ nodeEnded \in [Admins -> Time]

(* What an admin's interval comes to.                                      *)
LEMMA Intervals ==
    ASSUME NEW a \in Admins
    PROVE  /\ IntervalFor(a) \in Nat /\ ConfiguredGap(a) \in Int
           /\ IntervalFor(a) >= ConfiguredGap(a)
           /\ IntervalFor(a) > 0 => IntervalFor(a) = ConfiguredGap(a)
BY DEF IntervalFor, ConfiguredGap, Setting

(* waitForSpacing sleeps for a time, and until the interval is over.       *)
LEMMA Sleeps ==
    ASSUME Clocks, NEW q \in Requests, lastDone[q] <= now
    PROVE  LET a == AdminOf[q] IN
           /\ Remaining(q) \in Nat
           /\ lastDone[q] # Never => now + Remaining(q) >= lastDone[q] + ConfiguredGap(a)
           /\ Remaining(q) > 0 =>
                 lastDone[q] # Never /\ now + Remaining(q) = lastDone[q] + ConfiguredGap(a)
<1>1. AdminOf[q] \in Admins /\ now \in Nat /\ lastDone[q] \in Int
  BY DEF Clocks, Time, Never
<1>2. IntervalFor(AdminOf[q]) \in Nat /\ ConfiguredGap(AdminOf[q]) \in Int
  BY <1>1, Intervals
<1>3. CASE \/ IntervalFor(AdminOf[q]) <= 0 \/ lastDone[q] = Never
           \/ IntervalFor(AdminOf[q]) - (now - lastDone[q]) <= 0
  <2>1. Remaining(q) = 0
    BY <1>3 DEF Remaining
  <2>2. IntervalFor(AdminOf[q]) >= ConfiguredGap(AdminOf[q])
    BY <1>1, Intervals
  <2>3. QED
    BY <1>1, <1>2, <1>3, <2>1, <2>2
<1>4. CASE ~ (\/ IntervalFor(AdminOf[q]) <= 0 \/ lastDone[q] = Never
              \/ IntervalFor(AdminOf[q]) - (now - lastDone[q]) <= 0)
  <2>1. Remaining(q) = IntervalFor(AdminOf[q]) - (now - lastDone[q])
    BY <1>4 DEF Remaining
  <2>2. IntervalFor(AdminOf[q]) = ConfiguredGap(AdminOf[q])
    BY <1>1, <1>2, <1>4, Intervals
  <2>3. QED
    BY <1>1, <1>2, <1>4, <2>1, <2>2
<1>5. QED
  BY <1>3, <1>4

(* Every time stamp is a time or Never.                                    *)
LEMMA ClocksStep ==
    ASSUME TypeOK, Clocks, [TimedNext]_timedVars,
           \A q \in Requests : lastDone[q] <= now
    PROVE  Clocks'
<1> USE DEF Clocks, Time, Never
<1>1. now \in Nat /\ now + HTTPTimeout \in Nat /\ now + ProcTimeout \in Nat
  BY DEF ProcTimeout
<1>2. ASSUME NEW q \in Requests, TimedReceive(q) PROVE Clocks'
  <2>1. now + Remaining(q) \in Nat
    BY <1>1, Sleeps
  <2>2. QED
    BY <1>2, <2>1 DEF TimedReceive
<1>3. ASSUME NEW q \in Requests, TimedStart(q) PROVE Clocks'
  BY <1>1, <1>3 DEF TimedStart
<1>4. ASSUME NEW q \in Requests, TimedCall(q) PROVE Clocks'
  BY <1>1, <1>4 DEF TimedCall
<1>5. ASSUME NEW q \in Requests, TimedGiveUp(q) \/ Timeless(q) PROVE Clocks'
  BY <1>5 DEF TimedGiveUp, Timeless, stamps
<1>6. ASSUME NEW q \in Requests, TimedEnd(q) PROVE Clocks'
  BY <1>1, <1>6 DEF TimedEnd
<1>7. ASSUME NEW r \in Requests, TimedNode(r) PROVE Clocks'
  BY <1>1, <1>7 DEF TimedNode
<1>8. CASE TimedRestart
  BY <1>8 DEF TimedRestart
<1>9. CASE Tick
  BY <1>9 DEF Tick, stamps
<1>10. QED
  BY <1>2, <1>3, <1>4, <1>5, <1>6, <1>7, <1>8, <1>9 DEF TimedNext, timedVars, stamps

(***************************************************************************)
(* What time stamps mean.                                                  *)
(***************************************************************************)

(* A worker's lastDone is the end of its admin's last job.                 *)
LastDoneIsEnd ==
    /\ \A q \in Requests :
          lastDone[q] = IF wpc[q] = "none" THEN Never ELSE ended[AdminOf[q]]
    /\ \A a \in Admins : ended[a] <= now /\ (queues[a] = None => ended[a] = Never)

(* A sleeping worker wakes when the interval after that end is over.       *)
SleepIsForInterval ==
    \A q \in Requests : wpc[q] = "spacing" =>
        LET end == ended[AdminOf[q]]
            gap == ConfiguredGap(AdminOf[q])
        IN  /\ end # Never => wake[q] >= end + gap
            /\ wake[q] > now => end # Never /\ wake[q] = end + gap

Spacing == TypeOK /\ Ownership /\ Clocks /\ LastDoneIsEnd /\ SleepIsForInterval

(* The server starts with no job done and nobody asleep.                   *)
LEMMA SpacingInit == TimedInit => Spacing
<1> SUFFICES ASSUME TimedInit PROVE Spacing
  OBVIOUS
<1>1. TypeOK /\ Ownership
  BY TypeInit, OwnershipInit DEF TimedInit
<1>2. QED
  BY <1>1 DEF TimedInit, Init, Spacing, Clocks, Time, Never, LastDoneIsEnd, SleepIsForInterval

(* No job has ended in the future.                                         *)
LEMMA Past ==
    ASSUME Spacing
    PROVE  \A q \in Requests : lastDone[q] <= now
<1> SUFFICES ASSUME NEW q \in Requests PROVE lastDone[q] <= now
  OBVIOUS
<1>1. lastDone[q] = Never \/ lastDone[q] = ended[AdminOf[q]]
  BY DEF Spacing, LastDoneIsEnd
<1>2. Never <= now
  BY DEF Spacing, Clocks, Never
<1>3. ended[AdminOf[q]] <= now
  BY DEF Spacing, LastDoneIsEnd
<1>4. QED
  BY <1>1, <1>2, <1>3

(* A handler may start a worker, which has no last job.                    *)
LEMMA SpacingHandler ==
    ASSUME Spacing, NEW r \in Requests, Handler(r), UNCHANGED <<now, stamps>>
    PROVE  LastDoneIsEnd' /\ SleepIsForInterval'
<1> USE DEF Spacing, LastDoneIsEnd, SleepIsForInterval, stamps
<1>1. CASE UNCHANGED <<wpc, queues>>
  BY <1>1 DEF ConfiguredGap
<1>2. CASE /\ queues[AdminOf[r]] = None
           /\ queues' = [queues EXCEPT ![AdminOf[r]] = r]
           /\ wpc' = [wpc EXCEPT ![r] = "idle"]
  <2>1. wpc[r] = "none"
    BY <1>2 DEF Ownership, WorkersAreOwned
  <2>2. lastDone[r] = Never /\ ended[AdminOf[r]] = Never
    BY <1>2, <2>1
  <2>3. wpc'[r] = "idle" /\ \A q \in Requests : q # r => wpc'[q] = wpc[q]
    BY <1>2 DEF TypeOK
  <2>4. \A a \in Admins : queues'[a] = None => queues[a] = None
    BY <1>2 DEF TypeOK
  <2>5. LastDoneIsEnd'
    BY <2>2, <2>3, <2>4
  <2>6. SleepIsForInterval'
    BY <2>3 DEF ConfiguredGap
  <2>7. QED
    BY <2>5, <2>6
<1>3. QED
  BY <1>1, <1>2, HandlerStarts

(* The step between jobs.                                                  *)
LEMMA SpacingReceive ==
    ASSUME Spacing, NEW q \in Requests, TimedReceive(q)
    PROVE  LastDoneIsEnd' /\ SleepIsForInterval'
<1> USE DEF Spacing
<1>1. /\ wpc[q] = "idle" /\ wpc' = [wpc EXCEPT ![q] = "spacing"]
      /\ UNCHANGED <<queues, now, lastDone, ended>>
      /\ wake' = [wake EXCEPT ![q] = now + Remaining(q)]
  BY DEF TimedReceive, ReceiveJob, WorkerGoes
<1>2. LastDoneIsEnd'
  BY <1>1 DEF TypeOK, LastDoneIsEnd
<1>3. lastDone[q] = ended[AdminOf[q]]
  BY <1>1 DEF LastDoneIsEnd
<1>4. wake'[q] = now + Remaining(q) /\ now \in Nat /\ Remaining(q) \in Nat
  BY <1>1, Sleeps, Past DEF Clocks
<1>5. /\ ended[AdminOf[q]] # Never =>
             now + Remaining(q) >= ended[AdminOf[q]] + ConfiguredGap(AdminOf[q])
      /\ Remaining(q) > 0 =>
             /\ ended[AdminOf[q]] # Never
             /\ now + Remaining(q) = ended[AdminOf[q]] + ConfiguredGap(AdminOf[q])
  BY <1>3, Sleeps, Past
<1>6. ASSUME NEW p \in Requests, wpc'[p] = "spacing"
      PROVE  LET end == ended[AdminOf[p]]
                 gap == ConfiguredGap(AdminOf[p])
             IN  /\ end # Never => wake'[p] >= end + gap
                 /\ wake'[p] > now => end # Never /\ wake'[p] = end + gap
  <2>1. CASE p = q
    BY <1>4, <1>5, <2>1
  <2>2. CASE p # q
    BY <1>1, <1>6, <2>2 DEF TypeOK, Clocks, SleepIsForInterval
  <2>3. QED
    BY <2>1, <2>2
<1>7. SleepIsForInterval'
  BY <1>1, <1>6 DEF SleepIsForInterval, ConfiguredGap
<1>8. QED
  BY <1>2, <1>7

(* A job ends: no other worker of the admin sleeps.                        *)
LEMMA SpacingEnd ==
    ASSUME Spacing, NEW q \in Requests, TimedEnd(q)
    PROVE  LastDoneIsEnd' /\ SleepIsForInterval'
<1> USE DEF Spacing
<1>1. /\ wpc[q] \in JobStages /\ wpc' = [wpc EXCEPT ![q] = "idle"]
      /\ lastDone' = [lastDone EXCEPT ![q] = now]
      /\ ended' = [ended EXCEPT ![AdminOf[job[q]]] = now]
      /\ UNCHANGED <<queues, now, wake>>
  BY JobEnds
<1>2. AdminOf[job[q]] = AdminOf[q] /\ queues[AdminOf[q]] = q
  BY <1>1 DEF Ownership, JobsBelong, WorkersAreOwned, Busy, JobStages
<1>3. ASSUME NEW p \in Requests, p # q, wpc[p] # "none" PROVE AdminOf[p] # AdminOf[q]
  BY <1>2, <1>3 DEF Ownership, WorkersAreOwned
<1>4. /\ wpc'[q] = "idle" /\ lastDone'[q] = now /\ ended'[AdminOf[q]] = now
      /\ \A p \in Requests : p # q => wpc'[p] = wpc[p] /\ lastDone'[p] = lastDone[p]
      /\ \A a \in Admins : a # AdminOf[q] => ended'[a] = ended[a]
  BY <1>1, <1>2 DEF TypeOK, Clocks
<1>5. LastDoneIsEnd'
  <2>1. now <= now
    BY DEF Clocks
  <2>2. queues[AdminOf[q]] # None
    BY <1>2
  <2>3. QED
    BY <1>1, <1>3, <1>4, <2>1, <2>2 DEF LastDoneIsEnd
<1>6. SleepIsForInterval'
  BY <1>1, <1>3, <1>4 DEF SleepIsForInterval, ConfiguredGap
<1>7. QED
  BY <1>5, <1>6

(* Every step keeps Spacing.                                               *)
LEMMA SpacingStep == Spacing /\ [TimedNext]_timedVars => Spacing'
<1> SUFFICES ASSUME Spacing, [TimedNext]_timedVars PROVE Spacing'
  OBVIOUS
<1>1. TypeOK' /\ Ownership'
  BY TimedStep, TypeStep, OwnershipStep DEF Spacing
<1>2. Clocks'
  BY ClocksStep, Past DEF Spacing
<1>3. SUFFICES LastDoneIsEnd' /\ SleepIsForInterval'
  BY <1>1, <1>2 DEF Spacing
<1>4. ASSUME NEW q \in Requests, TimedStart(q)
      PROVE  LastDoneIsEnd' /\ SleepIsForInterval'
  <2>1. /\ wpc[q] = "spacing" /\ wpc' = [wpc EXCEPT ![q] = "mark"]
        /\ UNCHANGED <<queues, now, lastDone, wake, ended>>
    BY <1>4 DEF TimedStart, StartJob, WorkerGoes, queueVars
  <2>2. QED
    BY <2>1 DEF Spacing, TypeOK, LastDoneIsEnd, SleepIsForInterval, ConfiguredGap
<1>5. ASSUME NEW q \in Requests, TimedCall(q) \/ TimedGiveUp(q) \/ Timeless(q)
      PROVE  LastDoneIsEnd' /\ SleepIsForInterval'
  <2>1. UNCHANGED <<queues, now, lastDone, wake, ended>>
    BY <1>5, JobStays
  <2>2. \A p \in Requests : /\ wpc'[p] = "none" <=> wpc[p] = "none"
                            /\ wpc'[p] = "spacing" => wpc[p] = "spacing"
    BY <1>5, JobStays DEF Spacing, TypeOK, JobStages
  <2>3. QED
    BY <2>1, <2>2 DEF Spacing, LastDoneIsEnd, SleepIsForInterval, ConfiguredGap
<1>6. ASSUME NEW r \in Requests, TimedNode(r)
      PROVE  LastDoneIsEnd' /\ SleepIsForInterval'
  BY <1>6 DEF TimedNode, NodeCommits, NodeRefuses, queueVars, workerVars, Spacing,
              LastDoneIsEnd, SleepIsForInterval, ConfiguredGap
<1>7. CASE TimedRestart
  <2>1. /\ \A q \in Requests : wpc'[q] = "none" /\ lastDone'[q] = Never
        /\ \A a \in Admins : ended'[a] = Never
        /\ now' = now
    BY <1>7 DEF TimedRestart, Restart
  <2>2. Never <= now
    BY DEF Spacing, Clocks, Never
  <2>3. QED
    BY <2>1, <2>2 DEF LastDoneIsEnd, SleepIsForInterval
<1>8. CASE Tick
  <2>1. now \in Nat /\ now' = now + 1 /\ \A a \in Admins : ended[a] \in Int
    BY <1>8 DEF Tick, Spacing, Clocks, Time, Never
  <2>2. UNCHANGED <<wpc, queues, lastDone, wake, ended>>
    BY <1>8 DEF Tick, vars, queueVars, workerVars, stamps
  <2>3. \A q \in Requests : wake[q] \in Int
    BY DEF Spacing, Clocks, Time, Never
  <2>4. LastDoneIsEnd'
    BY <2>1, <2>2 DEF Spacing, LastDoneIsEnd
  <2>5. SleepIsForInterval'
    BY <2>1, <2>2, <2>3 DEF Spacing, SleepIsForInterval, ConfiguredGap
  <2>6. QED
    BY <2>4, <2>5
<1>9. CASE UNCHANGED timedVars
  BY <1>9 DEF timedVars, vars, queueVars, workerVars, stamps, Spacing, LastDoneIsEnd,
              SleepIsForInterval, ConfiguredGap
<1>10. QED
  BY <1>4, <1>5, <1>6, <1>7, <1>8, <1>9, SpacingHandler, SpacingReceive, SpacingEnd
     DEF TimedNext

(* Spacing holds in every run.                                             *)
LEMMA SpacingInvariant == TimedSpec => []Spacing
BY SpacingInit, SpacingStep, PTL DEF TimedSpec

(***************************************************************************)
(* The theorems.                                                           *)
(***************************************************************************)

(* Clocks and time stamps keep their types.                                *)
THEOREM TimedTypes == TimedSpec => []TimedTypeOK
<1>1. Spacing => TimedTypeOK
  BY DEF Spacing, Clocks, TimedTypeOK
<1>2. QED
  BY <1>1, SpacingInvariant, PTL

(* A worker sleeps only until the interval after its own admin's last job  *)
(* is over.                                                                *)
THEOREM OwnWait == TimedSpec => []WaitIsForOwnLastJob
<1>1. Spacing => WaitIsForOwnLastJob
  BY DEF Spacing, Ownership, JobsBelong, Busy, SleepIsForInterval, WaitIsForOwnLastJob
<1>2. QED
  BY <1>1, SpacingInvariant, PTL

(* Between the end of an admin's job and the start of the next lies the    *)
(* admin's interval, for any intervals, timeouts and faults.               *)
THEOREM Spaced == TimedSpec => JobsAreSpaced
<1> DEFINE Step ==
        \A q \in Requests : wpc[q] = "spacing" /\ wpc'[q] = "mark" =>
            LET a == AdminOf[job[q]]
            IN  ended[a] = Never \/ now - ended[a] >= ConfiguredGap(a)
<1>1. Spacing /\ [TimedNext]_timedVars => Step
  <2> SUFFICES ASSUME Spacing, [TimedNext]_timedVars, NEW q \in Requests,
                      wpc[q] = "spacing", wpc'[q] = "mark"
               PROVE  LET a == AdminOf[job[q]]
                      IN  ended[a] = Never \/ now - ended[a] >= ConfiguredGap(a)
    OBVIOUS
  <2>1. ASSUME NEW r \in Requests, Handler(r) PROVE FALSE
    BY <2>1, HandlerStarts DEF Spacing, TypeOK
  <2>2. ASSUME NEW p \in Requests,
               TimedReceive(p) \/ TimedCall(p) \/ TimedGiveUp(p) \/ Timeless(p) \/ TimedEnd(p)
        PROVE  FALSE
    <3>1. \/ wpc' = wpc
          \/ wpc[p] # "spacing" /\ \E s : wpc' = [wpc EXCEPT ![p] = s]
      BY <2>2, JobStays, JobEnds DEF TimedReceive, ReceiveJob, WorkerGoes, JobStages
    <3>2. QED
      BY <3>1 DEF Spacing, TypeOK
  <2>3. ~TimedRestart
    BY DEF TimedRestart, Restart
  <2>4. ~Tick /\ ~UNCHANGED timedVars
    BY DEF Tick, timedVars, vars, workerVars
  <2>5. ASSUME NEW r \in Requests, TimedNode(r) PROVE FALSE
    BY <2>5 DEF TimedNode, NodeCommits, NodeRefuses, workerVars
  <2>6. PICK p \in Requests : TimedStart(p)
    BY <2>1, <2>2, <2>3, <2>4, <2>5 DEF TimedNext
  <2>7. p = q /\ now >= wake[q]
    BY <2>6 DEF TimedStart, StartJob, WorkerGoes, Spacing, TypeOK
  <2>8. AdminOf[job[q]] = AdminOf[q] /\ AdminOf[q] \in Admins
    BY DEF Spacing, Ownership, JobsBelong, Busy
  <2>9. ended[AdminOf[q]] # Never => wake[q] >= ended[AdminOf[q]] + ConfiguredGap(AdminOf[q])
    BY DEF Spacing, SleepIsForInterval
  <2>10. /\ now \in Int /\ wake[q] \in Int /\ ended[AdminOf[q]] \in Int
         /\ ConfiguredGap(AdminOf[q]) \in Int
    BY <2>8, Intervals DEF Spacing, Clocks, Time, Never
  <2>11. QED
    BY <2>7, <2>8, <2>9, <2>10
<1>2. QED
  BY <1>1, SpacingInvariant, PTL DEF TimedSpec, JobsAreSpaced

(***************************************************************************)
(* What the spacing is for, when the process keeps running and calls of    *)
(* the node end by themselves.                                             *)
(***************************************************************************)

BeforeSign == {"mark", "resolve", "post", "sign"}

(* The node was done before the job was, and is not asked again before the *)
(* interval is over.                                                       *)
NodeKeepsPace ==
    /\ \A a \in Admins : nodeEnded[a] <= now /\ (queues[a] = None => nodeEnded[a] = Never)
    /\ \A q \in Requests :
          LET a == AdminOf[q]
          IN  /\ wpc[q] \in {"idle", "spacing"} => nodeEnded[a] <= ended[a]
              /\ wpc[q] \in BeforeSign =>
                    nodeEnded[a] = Never \/ now - nodeEnded[a] >= ConfiguredGap(a)

Pace == Spacing /\ (\A q \in Requests : ~expired[q]) /\ SignersHold /\ NodeKeepsPace

(* No worker has begun, no node has signed.                                *)
LEMMA PaceInit == TimedInit => Pace
<1> SUFFICES ASSUME TimedInit PROVE Pace
  OBVIOUS
<1>1. Spacing
  BY SpacingInit
<1>2. (\A q \in Requests : ~expired[q]) /\ SignersHold
  BY DEF TimedInit, Init, SignersHold
<1>3. NodeKeepsPace
  BY DEF TimedInit, Init, NodeKeepsPace, Never, BeforeSign
<1>4. QED
  BY <1>1, <1>2, <1>3 DEF Pace

(* A job's stages before Sign follow each other, from the start of the job.*)
LEMMA StagesBeforeSign ==
    ASSUME TypeOK, NEW q \in Requests, TimedCall(q) \/ TimedGiveUp(q) \/ Timeless(q)
    PROVE  /\ \A p \in Requests : p # q => wpc'[p] = wpc[p]
           /\ wpc'[q] \in BeforeSign => wpc[q] \in BeforeSign
           /\ wpc'[q] \notin {"idle", "spacing"}
           /\ UNCHANGED <<queues, now, ended, nodeEnded>>
<1>1. CASE TimedCall(q)
  BY <1>1 DEF TimedCall, ResolveBill, Sign, WorkerGoes, TypeOK, BeforeSign, queueVars
<1>2. CASE TimedGiveUp(q)
  BY <1>2 DEF TimedGiveUp, SignTimesOut, DeadlineFires, WorkerGoes, TypeOK, BeforeSign,
              JobStages, queueVars, stamps
<1>3. CASE Timeless(q)
  BY <1>3 DEF Timeless, MarkProcessing, PostTx, SignReturns, WorkerGoes, TypeOK, BeforeSign,
              queueVars, stamps
<1>4. QED
  BY <1>1, <1>2, <1>3

(* The admin's only worker waits while the node signs, so what is said of  *)
(* workers between jobs or before Sign does not speak of this admin.       *)
LEMMA PaceNode ==
    ASSUME Pace, NEW r \in Requests, TimedNode(r)
    PROVE  NodeKeepsPace'
<1> USE DEF Pace, Spacing
<1> DEFINE a == AdminOf[r]
<1>1. /\ node[r].state = "signing" /\ UNCHANGED <<wpc, job, queues, now, ended>>
      /\ nodeEnded' = [nodeEnded EXCEPT ![a] = now]
  BY DEF TimedNode, NodeCommits, NodeRefuses, queueVars, workerVars
<1>2. PICK q \in Requests : wpc[q] = "signing" /\ job[q] = r
  BY <1>1 DEF SignersHold
<1>3. a \in Admins /\ AdminOf[q] = a /\ queues[a] = q /\ q # None
  BY <1>2 DEF Busy, JobStages, Ownership, JobsBelong, WorkersAreOwned
<1>4. \A p \in Requests : p # q /\ wpc[p] # "none" => AdminOf[p] # a
  BY <1>3 DEF Ownership, WorkersAreOwned
<1>5. nodeEnded'[a] = now /\ now <= now /\ \A b \in Admins : b # a => nodeEnded'[b] = nodeEnded[b]
  BY <1>1, <1>3 DEF Clocks
<1>6. QED
  BY <1>1, <1>2, <1>3, <1>4, <1>5 DEF NodeKeepsPace, BeforeSign, ConfiguredGap

(* A job starts when the interval after the last one, and so after the     *)
(* node's last execution, is over.                                         *)
LEMMA PaceStart ==
    ASSUME Pace, NEW q \in Requests, TimedStart(q)
    PROVE  NodeKeepsPace'
<1> USE DEF Pace, Spacing
<1> DEFINE a == AdminOf[q]
<1>1. /\ wpc[q] = "spacing" /\ wpc' = [wpc EXCEPT ![q] = "mark"] /\ now >= wake[q]
      /\ UNCHANGED <<queues, now, ended, nodeEnded>>
  BY DEF TimedStart, StartJob, WorkerGoes, queueVars
<1>2. /\ a \in Admins /\ now \in Int /\ wake[q] \in Int /\ ConfiguredGap(a) \in Int
      /\ ended[a] \in Time /\ nodeEnded[a] \in Time
  BY Intervals DEF Clocks, Time, Never
<1>3. nodeEnded[a] <= ended[a] /\ (ended[a] # Never => wake[q] >= ended[a] + ConfiguredGap(a))
  BY <1>1 DEF NodeKeepsPace, SleepIsForInterval
<1>4. nodeEnded[a] = Never \/ now - nodeEnded[a] >= ConfiguredGap(a)
  BY <1>1, <1>2, <1>3 DEF Time, Never
<1>5. wpc'[q] = "mark" /\ \A p \in Requests : p # q => wpc'[p] = wpc[p]
  BY <1>1 DEF TypeOK
<1>6. QED
  BY <1>1, <1>4, <1>5 DEF NodeKeepsPace, ConfiguredGap, BeforeSign

(* A job ends, after whatever the node has done.                           *)
LEMMA PaceEnd ==
    ASSUME Pace, NEW q \in Requests, TimedEnd(q)
    PROVE  NodeKeepsPace'
<1> USE DEF Pace, Spacing
<1> DEFINE a == AdminOf[q]
<1>1. /\ wpc[q] \in JobStages /\ wpc' = [wpc EXCEPT ![q] = "idle"]
      /\ ended' = [ended EXCEPT ![AdminOf[job[q]]] = now]
      /\ UNCHANGED <<queues, now, nodeEnded>>
  BY JobEnds DEF TimedEnd
<1>2. AdminOf[job[q]] = a /\ a \in Admins
  BY <1>1 DEF Ownership, JobsBelong, Busy
<1>3. \A p \in Requests : p # q /\ wpc[p] # "none" => AdminOf[p] # a
  BY <1>1 DEF Ownership, WorkersAreOwned, JobStages
<1>4. /\ ended'[a] = now /\ \A b \in Admins : b # a => ended'[b] = ended[b]
      /\ wpc'[q] = "idle" /\ \A p \in Requests : p # q => wpc'[p] = wpc[p]
  BY <1>1, <1>2 DEF TypeOK, Clocks
<1>5. QED
  BY <1>1, <1>2, <1>3, <1>4 DEF NodeKeepsPace, ConfiguredGap, BeforeSign

(* Every step keeps Pace.                                                  *)
LEMMA PaceStep ==
    ASSUME CallsEnd, Pace, [TimedNext]_timedVars
    PROVE  Pace'
<1> USE DEF Pace
<1>1. Spacing'
  BY SpacingStep
<1>2. [Next]_vars
  BY TimedStep
<1>3. \A q \in Requests : ~expired'[q]
  BY <1>2, NeverExpires DEF Spacing, CallsEnd
<1>4. SignersHold'
  BY <1>2, SignersStep DEF Spacing
<1>5. NodeKeepsPace'
  <2>1. ASSUME NEW r \in Requests, Handler(r), UNCHANGED <<now, stamps>> PROVE NodeKeepsPace'
    <3>1. UNCHANGED <<now, ended, nodeEnded>>
      BY <2>1 DEF stamps
    <3>2. CASE UNCHANGED <<wpc, queues>>
      BY <3>1, <3>2 DEF NodeKeepsPace, ConfiguredGap
    <3>3. CASE /\ queues[AdminOf[r]] = None
               /\ queues' = [queues EXCEPT ![AdminOf[r]] = r]
               /\ wpc' = [wpc EXCEPT ![r] = "idle"]
      <4>1. nodeEnded[AdminOf[r]] <= ended[AdminOf[r]]
        BY <3>3 DEF NodeKeepsPace, Spacing, Clocks, Time, Never
      <4>2. /\ wpc'[r] = "idle" /\ \A q \in Requests : q # r => wpc'[q] = wpc[q]
            /\ \A a \in Admins : queues'[a] = None => queues[a] = None
        BY <3>3 DEF Spacing, TypeOK
      <4>3. QED
        BY <3>1, <4>1, <4>2 DEF NodeKeepsPace, ConfiguredGap, BeforeSign
    <3>4. QED
      BY <2>1, <3>2, <3>3, HandlerStarts DEF Spacing
  <2>2. ASSUME NEW q \in Requests, TimedReceive(q) PROVE NodeKeepsPace'
    BY <2>2 DEF TimedReceive, ReceiveJob, WorkerGoes, Spacing, TypeOK, NodeKeepsPace,
                ConfiguredGap, BeforeSign
  <2>3. ASSUME NEW q \in Requests, TimedCall(q) \/ TimedGiveUp(q) \/ Timeless(q)
        PROVE  NodeKeepsPace'
    BY <2>3, StagesBeforeSign DEF Spacing, NodeKeepsPace, ConfiguredGap
  <2>4. ~TimedRestart
    BY DEF TimedRestart, Restart, CallsEnd
  <2>5. CASE Tick
    <3>1. UNCHANGED <<wpc, queues, ended, nodeEnded>> /\ now' = now + 1 /\ now \in Int
      BY <2>5 DEF Tick, vars, queueVars, workerVars, stamps, Spacing, Clocks
    <3>2. \A a \in Admins : nodeEnded[a] \in Int /\ ConfiguredGap(a) \in Int
      BY Intervals DEF Spacing, Clocks, Time, Never
    <3>3. QED
      BY <3>1, <3>2 DEF NodeKeepsPace, ConfiguredGap
  <2>6. CASE UNCHANGED timedVars
    BY <2>6 DEF timedVars, vars, queueVars, workerVars, stamps, NodeKeepsPace, ConfiguredGap
  <2>7. QED
    BY <2>1, <2>2, <2>3, <2>4, <2>5, <2>6, PaceNode, PaceStart, PaceEnd DEF TimedNext
<1>6. QED
  BY <1>1, <1>3, <1>4, <1>5

(* The node's view: when the process keeps running and no call is given    *)
(* up, an execution starts only after the one before is over and its       *)
(* interval has passed.                                                    *)
THEOREM NodeIsSpaced ==
    ASSUME CallsEnd
    PROVE  TimedSpec => ExecutionsAreSpaced
<1> DEFINE Step ==
        \A q \in Requests : wpc[q] = "sign" /\ wpc'[q] = "signing" =>
            LET a == AdminOf[job[q]]
            IN  /\ \A r \in Requests : AdminOf[r] = a => node[r].state # "signing"
                /\ nodeEnded[a] = Never \/ now - nodeEnded[a] >= ConfiguredGap(a)
<1>1. Pace => Step
  <2> SUFFICES ASSUME Pace, NEW q \in Requests, wpc[q] = "sign"
               PROVE  LET a == AdminOf[job[q]]
                      IN  /\ \A r \in Requests : AdminOf[r] = a => node[r].state # "signing"
                          /\ nodeEnded[a] = Never \/ now - nodeEnded[a] >= ConfiguredGap(a)
    OBVIOUS
  <2> USE DEF Pace, Spacing
  <2>1. AdminOf[job[q]] = AdminOf[q] /\ queues[AdminOf[q]] = q
    BY DEF Ownership, JobsBelong, WorkersAreOwned, Busy, JobStages
  <2>2. ASSUME NEW r \in Requests, AdminOf[r] = AdminOf[q], node[r].state = "signing"
        PROVE  FALSE
    <3>1. PICK p \in Requests : wpc[p] = "signing" /\ job[p] = r
      BY <2>2 DEF SignersHold
    <3>2. AdminOf[p] = AdminOf[r] /\ queues[AdminOf[p]] = p
      BY <3>1 DEF Ownership, JobsBelong, WorkersAreOwned, Busy, JobStages
    <3>3. QED
      BY <2>1, <2>2, <3>1, <3>2
  <2>3. QED
    BY <2>1, <2>2 DEF NodeKeepsPace, BeforeSign
<1>2. TimedInit => Pace
  BY PaceInit
<1>3. Pace /\ [TimedNext]_timedVars => Pace'
  BY PaceStep
<1>4. QED
  BY <1>1, <1>2, <1>3, PTL DEF TimedSpec, ExecutionsAreSpaced
=============================================================================
