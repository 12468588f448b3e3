---------------------------- MODULE PayoutSpacing ----------------------------
(***************************************************************************)
(* PayoutQueue with a clock: the minimum interval between the end of one   *)
(* job and the start of the next for the same admin, its per-admin         *)
(* overrides, the HTTP timeout of a call of the node and the deadline of a *)
(* job, twice that timeout.                                                *)
(*                                                                         *)
(* Every step is a step of PayoutQueue with a condition on the clock added *)
(* and the worker's time stamps updated, so whatever PayoutQueue may not   *)
(* do, this module may not do either.                                      *)
(***************************************************************************)
EXTENDS PayoutQueue

CONSTANTS
    MinInterval,    \* PAYOUT_MIN_INTERVAL_MS, may be configured negative
    AdminInterval,  \* PAYOUT_MIN_INTERVAL_OVERRIDES: some admins' intervals
    HTTPTimeout,    \* RUBIX_HTTP_TIMEOUT_SECONDS
    MaxTime         \* bound on the clock

ASSUME IntervalAssumption ==
    /\ MinInterval \in Int
    /\ DOMAIN AdminInterval \subseteq Admins
    /\ \A a \in DOMAIN AdminInterval : AdminInterval[a] \in Nat
ASSUME TimeAssumption == HTTPTimeout \in Nat \ {0} /\ MaxTime \in Nat

VARIABLES
    now,        \* the clock
    lastDone,   \* adminQueue.lastDone of each queue object, Never if zero
    wake,       \* when the worker's sleep is over
    deadline,   \* when the context of the worker's job ends
    callEnds,   \* when the HTTP client gives up the worker's call
    ended,      \* history: when the admin's last job ended since start
    nodeEnded   \* history: when the admin's node last ended a signing

stamps == <<lastDone, wake, deadline, callEnds, ended, nodeEnded>>
timedVars == <<vars, now, stamps>>

Never == -1
Time  == Nat \cup {Never}

TimedTypeOK ==
    /\ TypeOK
    /\ now \in 0 .. MaxTime
    /\ lastDone \in [Requests -> Time]
    /\ wake \in [Requests -> Time]
    /\ deadline \in [Requests -> Time]
    /\ callEnds \in [Requests -> Time]
    /\ ended \in [Admins -> Time]
    /\ nodeEnded \in [Admins -> Time]

TimedInit ==
    /\ Init
    /\ now = 0
    /\ lastDone  = [q \in Requests |-> Never]
    /\ wake      = [q \in Requests |-> Never]
    /\ deadline  = [q \in Requests |-> Never]
    /\ callEnds  = [q \in Requests |-> Never]
    /\ ended     = [a \in Admins |-> Never]
    /\ nodeEnded = [a \in Admins |-> Never]

(* SetMinInterval and SetAdminMinInterval: negative means disabled.        *)
Setting(d) == IF d < 0 THEN 0 ELSE d

DefaultIntervalFor(a) == Setting(MinInterval)

IntervalFor(a) ==
    IF a \in DOMAIN AdminInterval THEN Setting(AdminInterval[a])
                                  ELSE Setting(MinInterval)

ProcTimeout == 2 * HTTPTimeout

RemainingFromNow(q) == IntervalFor(AdminOf[q])

RemainingAfterAnyJob(q) ==
    LET interval == IntervalFor(AdminOf[q])
        last     == CHOOSE t \in {lastDone[p] : p \in Requests} :
                        \A p \in Requests : lastDone[p] <= t
        left     == interval - (now - last)
    IN  IF interval <= 0 \/ last = Never \/ left <= 0 THEN 0 ELSE left

(* How long waitForSpacing sleeps.                                         *)
Remaining(q) ==
    LET interval == IntervalFor(AdminOf[q])
        left     == interval - (now - lastDone[q])
    IN  IF interval <= 0 \/ lastDone[q] = Never \/ left <= 0 THEN 0 ELSE left

TimedReceive(q) ==
    /\ ReceiveJob(q)
    /\ wake' = [wake EXCEPT ![q] = now + Remaining(q)]
    /\ UNCHANGED <<now, lastDone, deadline, callEnds, ended, nodeEnded>>

TimedStart(q) ==
    /\ StartJob(q)
    /\ now >= wake[q]
    /\ deadline' = [deadline EXCEPT ![q] = now + ProcTimeout]
    /\ UNCHANGED <<now, lastDone, wake, callEnds, ended, nodeEnded>>

(* The steps after which the worker waits for the node.                    *)
TimedCall(q) ==
    /\ ResolveBill(q) \/ Sign(q)
    /\ callEnds' = [callEnds EXCEPT ![q] = now + HTTPTimeout]
    /\ UNCHANGED <<now, lastDone, wake, deadline, ended, nodeEnded>>

TimedGiveUp(q) ==
    /\ \/ SignTimesOut(q) /\ (now >= callEnds[q] \/ expired[q])
       \/ DeadlineFires(q) /\ now >= deadline[q]
    /\ UNCHANGED <<now, stamps>>

Timeless(q) ==
    /\ MarkProcessing(q) \/ PostTx(q) \/ SignReturns(q)
    /\ UNCHANGED <<now, stamps>>

TimedEndForgets(q) ==
    /\ RecordSuccess(q) \/ RecordFailure(q)
    /\ lastDone' = [lastDone EXCEPT ![q] = IF wpc[q] = "fail" THEN @ ELSE now]
    /\ ended'    = [ended EXCEPT ![AdminOf[job[q]]] = now]
    /\ UNCHANGED <<now, wake, deadline, callEnds, nodeEnded>>

TimedEnd(q) ==
    /\ RecordSuccess(q) \/ RecordFailure(q)
    /\ lastDone' = [lastDone EXCEPT ![q] = now]
    /\ ended'    = [ended EXCEPT ![AdminOf[job[q]]] = now]
    /\ UNCHANGED <<now, wake, deadline, callEnds, nodeEnded>>

TimedNode(r) ==
    /\ NodeCommits(r) \/ NodeRefuses(r)
    /\ nodeEnded' = [nodeEnded EXCEPT ![AdminOf[r]] = now]
    /\ UNCHANGED <<now, lastDone, wake, deadline, callEnds, ended>>

(* lastDone lives in memory: a restarted server has no previous job.       *)
TimedRestart ==
    /\ Restart
    /\ lastDone' = [q \in Requests |-> Never]
    /\ wake'     = [q \in Requests |-> Never]
    /\ deadline' = [q \in Requests |-> Never]
    /\ callEnds' = [q \in Requests |-> Never]
    /\ ended'    = [a \in Admins |-> Never]
    /\ UNCHANGED <<now, nodeEnded>>

(* The timers: a call ends at its timeout, a context at its deadline, and  *)
(* what runs with an ended context returns at once.                        *)
NoTimerIsDue ==
    \A q \in Requests :
        /\ wpc[q] \in {"post", "signing"} => now < callEnds[q]
        /\ wpc[q] \in JobStages => now < deadline[q] /\ ~expired[q]

Tick ==
    /\ now < MaxTime /\ NoTimerIsDue
    /\ now' = now + 1
    /\ UNCHANGED <<vars, stamps>>

TimedNext ==
    \/ \E r \in Requests : Handler(r) /\ UNCHANGED <<now, stamps>>
    \/ \E q \in Requests :
          \/ TimedReceive(q) \/ TimedStart(q) \/ TimedCall(q) \/ TimedGiveUp(q)
          \/ Timeless(q) \/ TimedEnd(q) \/ TimedNode(q)
    \/ TimedRestart
    \/ Tick

TimedSpec == TimedInit /\ [][TimedNext]_timedVars

(***************************************************************************)
(* Properties.                                                             *)
(***************************************************************************)

(* What the operator configured for an admin; a negative one asks nothing. *)
ConfiguredGap(a) ==
    IF a \in DOMAIN AdminInterval THEN AdminInterval[a] ELSE MinInterval

(* Between the end of an admin's job, whatever its outcome, and the start  *)
(* of the admin's next one lies at least the admin's interval.  (A restart *)
(* forgets the previous job.)                                              *)
JobsAreSpaced ==
    [][\A q \in Requests :
        wpc[q] = "spacing" /\ wpc'[q] = "mark" =>
            LET a == AdminOf[job[q]]
            IN  ended[a] = Never \/ now - ended[a] >= ConfiguredGap(a)]_timedVars

(* The wait is no longer than the spacing asks for: it ends with the       *)
(* interval after the admin's own last job, no matter what others do.      *)
WaitIsForOwnLastJob ==
    \A q \in Requests :
        wpc[q] = "spacing" /\ wake[q] > now =>
            LET a == AdminOf[job[q]]
            IN  ended[a] # Never /\ wake[q] = ended[a] + ConfiguredGap(a)

(* The node's view, which the spacing is there for: when an execution of a *)
(* contract starts, the one before it is over and its interval has passed. *)
ExecutionsAreSpaced ==
    [][\A q \in Requests :
        wpc[q] = "sign" /\ wpc'[q] = "signing" =>
            LET a == AdminOf[job[q]]
            IN  /\ \A r \in Requests : AdminOf[r] = a => node[r].state # "signing"
                /\ nodeEnded[a] = Never \/ now - nodeEnded[a] >= ConfiguredGap(a)]_timedVars
=============================================================================
