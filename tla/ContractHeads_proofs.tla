------------------------ MODULE ContractHeads_proofs ------------------------
(***************************************************************************)
(* Proofs about ContractHeads, for any contracts, nodes and limits.        *)
(***************************************************************************)
EXTENDS ContractHeads, FiniteSetTheorems, TLAPS

Active == {c \in Listed : stage[c] \in Fetching}

(* A token in the channel for each goroutine past the semaphore.           *)
TokensAreHeld == sem = Cardinality(Active)

(* A goroutine that is done has filled its place with what it saw.         *)
DoneIsShown ==
    /\ \A c \in Listed : Start[c] <= length[c]
    /\ \A c \in Listed : stage[c] = "done" =>
          shown[c] = Failed \/ shown[c] \in Start[c] .. length[c]
    /\ listing = "200" => \A c \in Listed : stage[c] = "done"

(* A goroutine that is to fetch has a node, and the node's client.         *)
ClientsAreShared ==
    /\ \A c \in Listed : stage[c] = "create" => NodeOf[c] \in Nodes
    /\ \A c \in Listed : client[c] # Nobody =>
          NodeOf[c] \in Nodes /\ client[c] = clients[NodeOf[c]]

Report == HeadsTypeOK /\ TokensAreHeld /\ DoneIsShown /\ ClientsAreShared

(* Counting the fetches makes sense.                                       *)
LEMMA ActiveIsFinite == IsFiniteSet(Active) /\ Cardinality(Active) \in Nat
<1>1. IsFiniteSet(Active)
  BY ListedAssumption, FS_Subset DEF Active
<1>2. QED
  BY <1>1, FS_CardinalityType

(* Before the request nothing is shown.                                    *)
LEMMA ReportInit == HeadsInit => Report
<1> SUFFICES ASSUME HeadsInit PROVE Report
  OBVIOUS
<1>1. HeadsTypeOK
  BY LimitsAssumption DEF HeadsInit, HeadsTypeOK
<1>2. Active = {}
  BY DEF HeadsInit, Active, Fetching
<1>3. TokensAreHeld
  BY <1>2, FS_EmptySet DEF TokensAreHeld, HeadsInit
<1>4. DoneIsShown /\ ClientsAreShared
  BY LimitsAssumption DEF HeadsInit, DoneIsShown, ClientsAreShared
<1>5. QED
  BY <1>1, <1>3, <1>4 DEF Report

(* What a goroutine's move does to the set of those past the semaphore.    *)
LEMMA MovesActive ==
    ASSUME HeadsTypeOK, NEW c \in Listed, NEW from, NEW to, Moves(c, from, to),
           to \in {"queued", "done"} \cup Fetching
    PROVE  /\ stage' \in [Listed -> {"queued", "done"} \cup Fetching]
           /\ from \in Fetching /\ to \in Fetching => Active' = Active
           /\ from \in Fetching /\ to = "done" =>
                 Active' = Active \ {c} /\ Cardinality(Active') = Cardinality(Active) - 1
           /\ from = "queued" /\ to \in Fetching =>
                 Active' = Active \cup {c} /\ Cardinality(Active') = Cardinality(Active) + 1
<1>1. /\ stage' = [stage EXCEPT ![c] = to] /\ stage[c] = from
      /\ stage' \in [Listed -> {"queued", "done"} \cup Fetching]
      /\ stage'[c] = to /\ \A d \in Listed : d # c => stage'[d] = stage[d]
  BY DEF Moves, HeadsTypeOK
<1>2. from \in Fetching /\ to \in Fetching => Active' = Active
  BY <1>1 DEF Active
<1>3. ASSUME from \in Fetching, to = "done"
      PROVE  Active' = Active \ {c} /\ Cardinality(Active') = Cardinality(Active) - 1
  <2>1. Active' = Active \ {c} /\ c \in Active
    BY <1>1, <1>3 DEF Active, Fetching
  <2>2. QED
    BY <2>1, ActiveIsFinite, FS_RemoveElement
<1>4. ASSUME from = "queued", to \in Fetching
      PROVE  Active' = Active \cup {c} /\ Cardinality(Active') = Cardinality(Active) + 1
  <2>1. Active' = Active \cup {c} /\ c \notin Active
    BY <1>1, <1>4 DEF Active, Fetching
  <2>2. QED
    BY <2>1, ActiveIsFinite, FS_AddElement
<1>5. QED
  BY <1>1, <1>2, <1>3, <1>4

(* A goroutine that finishes leaves its place filled.                      *)
LEMMA FinishStep ==
    ASSUME Report, NEW c \in Listed, NEW from \in Fetching, NEW what,
           what = Failed \/ what = length[c],
           Finish(c, from, what), UNCHANGED <<listing, clients, client, since, length, clock>>
    PROVE  Report'
<1>1. Moves(c, from, "done") /\ listing = "fetching"
  BY DEF Finish, Moves
<1>2. /\ stage' \in [Listed -> {"queued", "done"} \cup Fetching]
      /\ Cardinality(Active') = Cardinality(Active) - 1
      /\ Active' = Active \ {c}
  BY <1>1, MovesActive DEF Report
<1>3. IsFiniteSet(Active') /\ Cardinality(Active') \in Nat
  <2>1. IsFiniteSet(Active')
    BY <1>2, ActiveIsFinite, FS_Subset
  <2>2. QED
    BY <2>1, FS_CardinalityType
<1>4. sem' = Cardinality(Active') /\ sem' \in 0 .. Parallel
  BY <1>2, <1>3, ActiveIsFinite, LimitsAssumption
     DEF Finish, Report, TokensAreHeld, HeadsTypeOK
<1>5. shown' \in [Listed -> Nat \cup {Nothing, Failed}]
  BY DEF Finish, Report, HeadsTypeOK
<1>6. HeadsTypeOK'
  BY <1>2, <1>4, <1>5 DEF Report, HeadsTypeOK
<1>7. DoneIsShown'
  <2>1. /\ shown'[c] = what /\ length' = length /\ listing' = "fetching"
        /\ \A d \in Listed : d # c => shown'[d] = shown[d] /\ stage'[d] = stage[d]
    BY <1>1 DEF Finish, Moves, Report, HeadsTypeOK
  <2>2. Start[c] <= length[c] /\ Start[c] \in Nat /\ length[c] \in Nat
    BY LimitsAssumption DEF Report, DoneIsShown, HeadsTypeOK
  <2>3. QED
    BY <2>1, <2>2 DEF Report, DoneIsShown
<1>8. ClientsAreShared'
  BY <1>1 DEF Moves, Report, HeadsTypeOK, ClientsAreShared
<1>9. QED
  BY <1>4, <1>6, <1>7, <1>8 DEF Report, TokensAreHeld

(* A goroutine that gets its client: the pool's entry, or the one it adds. *)
LEMMA UseStep ==
    ASSUME Report, NEW c \in Listed, NEW from \in {"lookup", "create"}, NEW k \in Listed,
           Moves(c, from, "fetch"), Use(c, k), NodeOf[c] \in Nodes,
           \/ clients' = clients /\ clients[NodeOf[c]] = k
           \/ clients[NodeOf[c]] = Nobody /\ clients' = [clients EXCEPT ![NodeOf[c]] = k],
           UNCHANGED <<listing, sem, shown, length, clock>>
    PROVE  Report'
<1>1. stage' \in [Listed -> {"queued", "done"} \cup Fetching] /\ Active' = Active
  BY MovesActive DEF Report, Fetching
<1>2. /\ client' \in [Listed -> Listed \cup {Nobody}]
      /\ client'[c] = k /\ \A d \in Listed : d # c => client'[d] = client[d]
      /\ since' \in [Listed -> 0 .. HandlerTimeout + 1]
  BY DEF Use, Report, HeadsTypeOK
<1>3. clients' \in [Nodes -> Listed \cup {Nobody}] /\ clients'[NodeOf[c]] = k
      /\ \A n \in Nodes : clients[n] # Nobody => clients'[n] = clients[n]
  BY DEF Report, HeadsTypeOK
<1>4. HeadsTypeOK'
  BY <1>1, <1>2, <1>3 DEF Report, HeadsTypeOK
<1>5. TokensAreHeld'
  BY <1>1 DEF Report, TokensAreHeld
<1>6. DoneIsShown'
  BY DEF Report, DoneIsShown, Moves, HeadsTypeOK
<1>7. ClientsAreShared'
  BY <1>2, <1>3 DEF Report, ClientsAreShared, Moves, HeadsTypeOK
<1>8. QED
  BY <1>4, <1>5, <1>6, <1>7 DEF Report

(* A goroutine's step keeps Report.                                        *)
LEMMA GoroutineStep ==
    ASSUME Report, NEW c \in Listed, Goroutine(c)
    PROVE  Report'
<1>1. NodeOf[c] \in Nodes \cup {Nobody} /\ Nobody \notin Nodes /\ Nobody \notin Listed
  BY ListedAssumption, NobodyAssumption
<1>2. CASE Acquire(c)
  <2>1. Moves(c, "queued", "lookup") /\ "lookup" \in Fetching
    BY <1>2 DEF Acquire, Fetching
  <2>2. stage' \in [Listed -> {"queued", "done"} \cup Fetching]
        /\ Cardinality(Active') = Cardinality(Active) + 1
    BY <2>1, MovesActive DEF Report
  <2>3. sem' = Cardinality(Active') /\ sem' \in 0 .. Parallel
    BY <1>2, <2>2, LimitsAssumption DEF Acquire, Report, TokensAreHeld, HeadsTypeOK
  <2>4. HeadsTypeOK'
    BY <1>2, <2>2, <2>3 DEF Acquire, Report, HeadsTypeOK
  <2>5. DoneIsShown' /\ ClientsAreShared'
    BY <1>2, <2>1 DEF Acquire, Moves, Report, HeadsTypeOK, DoneIsShown, ClientsAreShared
  <2>6. QED
    BY <2>3, <2>4, <2>5 DEF Report, TokensAreHeld
<1>3. CASE FindClient(c)
  <2>1. CASE NodeOf[c] = Nobody
    <3>1. Finish(c, "lookup", Failed) /\ "lookup" \in Fetching
          /\ UNCHANGED <<listing, clients, client, since, length, clock>>
      BY <1>3, <2>1 DEF FindClient, Fetching
    <3>2. QED
      BY <3>1, FinishStep
  <2>2. CASE NodeOf[c] # Nobody /\ clients[NodeOf[c]] # Nobody
    <3>1. clients[NodeOf[c]] \in Listed /\ NodeOf[c] \in Nodes
      BY <1>1, <2>2 DEF Report, HeadsTypeOK
    <3>2. QED
      BY <1>3, <2>2, <3>1, UseStep DEF FindClient
  <2>3. CASE NodeOf[c] # Nobody /\ clients[NodeOf[c]] = Nobody
    <3>1. Moves(c, "lookup", "create") /\ UNCHANGED <<client, since, sem, shown>>
          /\ UNCHANGED <<listing, clients, length, clock>>
      BY <1>3, <2>3 DEF FindClient
    <3>2. stage' \in [Listed -> {"queued", "done"} \cup Fetching] /\ Active' = Active
      BY <3>1, MovesActive DEF Report, Fetching
    <3>3. HeadsTypeOK' /\ TokensAreHeld'
      BY <3>1, <3>2 DEF Report, HeadsTypeOK, TokensAreHeld
    <3>4. DoneIsShown'
      BY <3>1 DEF Report, DoneIsShown, Moves, HeadsTypeOK
    <3>5. ClientsAreShared'
      BY <1>1, <2>3, <3>1 DEF Report, ClientsAreShared, Moves, HeadsTypeOK
    <3>6. QED
      BY <3>3, <3>4, <3>5 DEF Report
  <2>4. QED
    BY <2>1, <2>2, <2>3
<1>4. CASE CreateClient(c)
  <2>1. NodeOf[c] \in Nodes
    BY <1>4 DEF CreateClient, Moves, Report, ClientsAreShared
  <2>2. clients[NodeOf[c]] # Nobody => clients[NodeOf[c]] \in Listed
    BY <2>1 DEF Report, HeadsTypeOK
  <2>3. QED
    BY <1>4, <2>1, <2>2, UseStep DEF CreateClient
<1>5. CASE FetchAnswers(c)
  BY <1>5, FinishStep DEF FetchAnswers, Fetching
<1>6. CASE FetchTimesOut(c)
  BY <1>6, FinishStep DEF FetchTimesOut, Fetching
<1>7. QED
  BY <1>2, <1>3, <1>4, <1>5, <1>6 DEF Goroutine

(* The clock, the request and the answer keep Report.                      *)
LEMMA OthersStep ==
    ASSUME Report,
           \/ ListAdminContracts \/ Answer \/ Tick \/ HeadsIdle \/ UNCHANGED headsVars
           \/ \E c \in Listed : Extend(c)
    PROVE  Report'
<1>1. CASE ListAdminContracts \/ Answer
  BY <1>1 DEF ListAdminContracts, Answer, Report, HeadsTypeOK, TokensAreHeld, Active,
              DoneIsShown, ClientsAreShared
<1>2. CASE Tick
  <2>1. clock' \in 0 .. HandlerTimeout + 1
    BY <1>2, LimitsAssumption DEF Tick, Report, HeadsTypeOK
  <2>2. QED
    BY <1>2, <2>1 DEF Tick, Report, HeadsTypeOK, TokensAreHeld, Active, DoneIsShown,
                      ClientsAreShared
<1>3. CASE HeadsIdle \/ UNCHANGED headsVars
  BY <1>3 DEF HeadsIdle, headsVars, Report, HeadsTypeOK, TokensAreHeld, Active, DoneIsShown,
              ClientsAreShared
<1>4. ASSUME NEW c \in Listed, Extend(c) PROVE Report'
  <2>1. /\ length' \in [Listed -> Nat]
        /\ \A d \in Listed : length[d] \in Nat /\ length[d] <= length'[d]
    BY <1>4 DEF Extend, Report, HeadsTypeOK
  <2>2. HeadsTypeOK' /\ TokensAreHeld' /\ ClientsAreShared'
    BY <1>4, <2>1 DEF Extend, Report, HeadsTypeOK, TokensAreHeld, Active, ClientsAreShared
  <2>3. DoneIsShown'
    BY <1>4, <2>1, LimitsAssumption DEF Extend, Report, HeadsTypeOK, DoneIsShown
  <2>4. QED
    BY <2>2, <2>3 DEF Report
<1>5. QED
  BY <1>1, <1>2, <1>3, <1>4

(* Report holds in every run.                                              *)
LEMMA ReportInvariant == HeadsSpec => []Report
<1>1. Report /\ [HeadsNext]_headsVars => Report'
  BY GoroutineStep, OthersStep DEF HeadsNext
<1>2. QED
  BY <1>1, ReportInit, PTL DEF HeadsSpec

(* The answer, the semaphore and the pool keep their types: tokens are     *)
(* never released twice or taken beyond the channel's capacity.            *)
THEOREM TypeCorrect == HeadsSpec => []HeadsTypeOK
BY ReportInvariant, PTL DEF Report

(* A node has one client, however the goroutines race for it.              *)
THEOREM OneClient == HeadsSpec => []OneClientPerNode
<1>1. Report => OneClientPerNode
  BY DEF Report, ClientsAreShared, OneClientPerNode
<1>2. QED
  BY <1>1, ReportInvariant, PTL

(* Never more than debugNodeParallel goroutines are past the semaphore.    *)
THEOREM Bounded == HeadsSpec => []FetchesAreBounded
<1>1. Report => FetchesAreBounded
  BY DEF Report, HeadsTypeOK, TokensAreHeld, Active, FetchesAreBounded
<1>2. QED
  BY <1>1, ReportInvariant, PTL

(* The answer says of every contract what its own goroutine saw.           *)
THEOREM Complete == HeadsSpec => []AnswerIsComplete
<1>1. Report => AnswerIsComplete
  BY DEF Report, DoneIsShown, AnswerIsComplete
<1>2. QED
  BY <1>1, ReportInvariant, PTL

(***************************************************************************)
(* Time.  Hung nodes are waited for in batches: whoever waits at a time    *)
(* began at the same time, so batches end together and each takes one      *)
(* NodeTimeout.  The last may be cut short by the request's own timeout.   *)
(***************************************************************************)

HungSet == {c \in Listed : NodeOf[c] \in Hung}

TimedOut(c) == stage[c] = "fetch" /\ since[c] + NodeTimeout <= clock

(* Contracts of hung nodes that have had their timeout.                    *)
Overdue == {c \in HungSet : stage[c] = "done" \/ TimedOut(c)}

(* After b batches, while the next one runs or is being filled: it fills   *)
(* without time passing, then all wait; the b batches before it were full, *)
(* or there is nothing to wait for any more.                               *)
InBatch(b) ==
    LET s == b * NodeTimeout IN
    /\ s <= clock /\ clock < s + NodeTimeout
    /\ \A c \in Listed : stage[c] = "fetch" =>
          since[c] = s \/ (clock = s /\ since[c] + NodeTimeout = s)
    /\ clock > s => \A c \in Listed : Stuck(c)
    /\ \/ b * Parallel <= Cardinality(Overdue)
       \/ \A c \in Listed : stage[c] = "done" \/ TimedOut(c)

BatchesInStep == clock < HandlerTimeout => \E b \in Nat : InBatch(b)

(* A contract of a node that is not hung waits for full batches only, and  *)
(* its own fetch takes no time.                                            *)
OthersWaitForBatches ==
    \A c \in Listed \ HungSet :
        /\ stage[c] # "done" => clock <= (HungContracts \div Parallel) * NodeTimeout
        /\ stage[c] = "fetch" => since[c] = clock

(* Time that has passed, whether or not the request still runs.            *)
ClockIsBounded ==
    /\ clock <= HandlerTimeout
    /\ clock <= ((HungContracts + Parallel - 1) \div Parallel) * NodeTimeout

HealthyNotFailed ==
    (HungContracts \div Parallel) * NodeTimeout < HandlerTimeout =>
        \A c \in Listed : NodeOf[c] \in Nodes \ (Hung \cup Down) => shown[c] # Failed

Waiting == BatchesInStep /\ ClockIsBounded /\ OthersWaitForBatches /\ HealthyNotFailed

(* Multiplying keeps an order.                                             *)
LEMMA Scaling ==
    ASSUME NEW a \in Nat, NEW b \in Nat, NEW n \in Nat, a <= b
    PROVE  a * n \in Nat /\ a * n <= b * n /\ (a + 1) * n = a * n + n
<1>1. PICK d \in Nat : b = a + d
  <2>1. b - a \in Nat /\ b = a + (b - a)
    OBVIOUS
  <2>2. QED
    BY <2>1
<1>2. b * n = a * n + d * n
  BY <1>1
<1>3. a * n \in Nat /\ d * n \in Nat
  OBVIOUS
<1>4. QED
  BY <1>2, <1>3

(* As many batches as fit are at most the quotient.                        *)
LEMMA Quotient ==
    ASSUME NEW m \in Nat, NEW b \in Nat, NEW p \in Nat \ {0}, b * p <= m
    PROVE  m \div p \in Nat /\ b <= m \div p
<1>1. m \div p \in Nat /\ m < (m \div p) * p + p
  OBVIOUS
<1>2. ASSUME m \div p < b PROVE FALSE
  <2>1. m \div p + 1 <= b
    BY <1>1, <1>2
  <2>2. (m \div p + 1) * p <= b * p
    BY <1>1, <2>1, Scaling
  <2>3. (m \div p + 1) * p = (m \div p) * p + p
    BY <1>1, Scaling
  <2>4. QED
    BY <1>1, <2>2, <2>3
<1>3. QED
  BY <1>1, <1>2

(* Counting the hung contracts makes sense.                                *)
LEMMA HungIsFinite ==
    /\ IsFiniteSet(HungSet) /\ HungContracts = Cardinality(HungSet) /\ HungContracts \in Nat
    /\ \A S : S \subseteq HungSet =>
          IsFiniteSet(S) /\ Cardinality(S) \in Nat /\ Cardinality(S) <= HungContracts
<1>1. IsFiniteSet(HungSet) /\ HungContracts = Cardinality(HungSet)
  BY ListedAssumption, FS_Subset DEF HungSet, HungContracts
<1>2. QED
  BY <1>1, FS_Subset, FS_CardinalityType

(* What a step of a goroutine does to its stage and to time stamps.        *)
LEMMA GoroutineMoves ==
    ASSUME Report, NEW c \in Listed, Goroutine(c)
    PROVE  /\ listing = "fetching" /\ UNCHANGED <<listing, clock>>
           /\ \A d \in Listed : d # c => stage'[d] = stage[d] /\ since'[d] = since[d]
           /\ \/ /\ stage[c] = "queued" /\ sem < Parallel /\ stage'[c] = "lookup"
                 /\ UNCHANGED <<since, shown>>
              \/ /\ stage[c] = "lookup" /\ stage'[c] = "create" /\ UNCHANGED <<since, shown>>
              \/ /\ stage[c] \in {"lookup", "create"} /\ stage'[c] = "fetch"
                 /\ since'[c] = clock /\ UNCHANGED shown
              \/ /\ stage[c] = "lookup" /\ NodeOf[c] = Nobody
                 /\ stage'[c] = "done" /\ shown' = [shown EXCEPT ![c] = Failed]
              \/ /\ stage[c] = "fetch" /\ NodeOf[c] \notin Hung /\ clock < Deadline(c)
                 /\ stage'[c] = "done"
                 /\ shown' = [shown EXCEPT ![c] = IF NodeOf[c] \in Down THEN Failed ELSE length[c]]
              \/ /\ stage[c] = "fetch" /\ clock >= Deadline(c)
                 /\ stage'[c] = "done" /\ shown' = [shown EXCEPT ![c] = Failed]
<1> USE DEF Report, HeadsTypeOK, Moves
<1>1. CASE Acquire(c)
  BY <1>1 DEF Acquire
<1>2. CASE FindClient(c)
  BY <1>2 DEF FindClient, Finish, Use
<1>3. CASE CreateClient(c)
  BY <1>3 DEF CreateClient, Use
<1>4. CASE FetchAnswers(c)
  BY <1>4 DEF FetchAnswers, Finish
<1>5. CASE FetchTimesOut(c)
  BY <1>5 DEF FetchTimesOut, Finish
<1>6. QED
  BY <1>1, <1>2, <1>3, <1>4, <1>5 DEF Goroutine

(* Deadlines are times, and the request's own bounds them all.             *)
LEMMA Deadlines ==
    ASSUME Report, NEW c \in Listed
    PROVE  /\ since[c] \in Nat /\ clock \in Nat /\ NodeTimeout \in Nat \ {0}
           /\ HandlerTimeout \in Nat /\ Parallel \in Nat \ {0}
           /\ Deadline(c) <= HandlerTimeout /\ Deadline(c) <= since[c] + NodeTimeout
           /\ Deadline(c) = HandlerTimeout \/ Deadline(c) = since[c] + NodeTimeout
BY LimitsAssumption DEF Report, HeadsTypeOK, Deadline

(* Time passes before the request's timeout only, and while somebody waits *)
(* for a hung node.                                                        *)
LEMMA TickWaits ==
    ASSUME Report, Tick
    PROVE  /\ clock < HandlerTimeout
           /\ \E c \in HungSet : stage[c] = "fetch" /\ clock < Deadline(c)
           /\ \A c \in Active : c \in HungSet /\ stage[c] = "fetch" /\ clock < Deadline(c)
           /\ \A c \in Listed : stage[c] \in {"queued", "done"} \/ c \in Active
           /\ (\E c \in Listed : stage[c] = "queued") => sem = Parallel
<1>1. \A c \in Active : c \in HungSet /\ stage[c] = "fetch" /\ clock < Deadline(c)
  BY DEF Tick, Active, Fetching, Stuck, HungSet
<1>2. \A c \in Listed : stage[c] \in {"queued", "done"} \/ c \in Active
  BY DEF Report, HeadsTypeOK, Active
<1>3. (\E c \in Listed : stage[c] = "queued") => sem = Parallel
  BY DEF Tick, Stuck
<1>4. Active # {}
  <2>1. CASE \E c \in Listed : stage[c] = "queued"
    <3>1. Cardinality(Active) # 0
      BY <1>3, <2>1, LimitsAssumption DEF Report, TokensAreHeld
    <3>2. QED
      BY <3>1, FS_EmptySet
  <2>2. CASE ~ \E c \in Listed : stage[c] = "queued"
    BY <1>2, <2>2 DEF Tick
  <2>3. QED
    BY <2>1, <2>2
<1>5. \E c \in HungSet : stage[c] = "fetch" /\ clock < Deadline(c)
  BY <1>1, <1>4
<1>6. clock < HandlerTimeout
  <2>1. PICK c \in Listed : clock < Deadline(c)
    BY <1>5 DEF HungSet
  <2>2. QED
    BY <2>1, Deadlines DEF Deadline
<1>7. QED
  BY <1>1, <1>2, <1>3, <1>5, <1>6

(* A batch goes on whatever a goroutine does.                              *)
LEMMA BatchGoroutine ==
    ASSUME Report, NEW b \in Nat, InBatch(b), clock < HandlerTimeout,
           NEW c \in Listed, Goroutine(c)
    PROVE  InBatch(b)'
<1> DEFINE s == b * NodeTimeout
<1>1. s \in Nat /\ clock \in Nat /\ NodeTimeout \in Nat \ {0} /\ Parallel \in Nat \ {0}
  BY Deadlines
<1>2. /\ \A d \in Listed : since[d] \in Nat
      /\ Deadline(c) >= since[c] + NodeTimeout \/ Deadline(c) > clock
  BY Deadlines
<1>3. clock = s
  <2>1. ASSUME Stuck(c) PROVE FALSE
    BY <2>1, GoroutineMoves, Deadlines DEF Stuck, Deadline
  <2>2. QED
    BY <1>1, <2>1 DEF InBatch
<1>4. clock' = clock
  BY GoroutineMoves
<1>5. \A d \in Listed : stage'[d] = "fetch" =>
          since'[d] = s \/ (clock' = s /\ since'[d] + NodeTimeout = s)
  BY <1>3, <1>4, GoroutineMoves DEF InBatch
<1>6. \A d \in Listed : TimedOut(d) \/ stage[d] = "done" =>
                        TimedOut(d)' \/ stage'[d] = "done"
  BY <1>2, <1>4, GoroutineMoves DEF TimedOut
<1>7. b * Parallel <= Cardinality(Overdue) => b * Parallel <= Cardinality(Overdue')
  <2>1. Overdue \subseteq Overdue' /\ Overdue' \subseteq HungSet
    BY <1>6 DEF Overdue, HungSet
  <2>2. Cardinality(Overdue) <= Cardinality(Overdue') /\ Cardinality(Overdue) \in Nat
        /\ Cardinality(Overdue') \in Nat
    BY <2>1, HungIsFinite, FS_Subset
  <2>3. b * Parallel \in Nat
    BY <1>1
  <2>4. QED
    BY <2>2, <2>3
<1>8. QED
  BY <1>1, <1>3, <1>4, <1>5, <1>6, <1>7 DEF InBatch

(* While time passes, the batches before were full of hung contracts, and  *)
(* so is the one that runs as long as anybody is queued.                   *)
LEMMA TickCounts ==
    ASSUME Report, NEW b \in Nat, InBatch(b), Tick
    PROVE  /\ Overdue \cap Active = {} /\ Overdue \cup Active \subseteq HungSet
           /\ \A c \in Active : since[c] = b * NodeTimeout
           /\ b * Parallel + 1 <= HungContracts
           /\ (\E c \in Listed : stage[c] = "queued") =>
                 /\ (b + 1) * Parallel <= Cardinality(Overdue \cup Active)
                 /\ (b + 1) * Parallel <= HungContracts
<1>1. /\ NodeTimeout \in Nat \ {0} /\ Parallel \in Nat \ {0} /\ clock \in Nat
      /\ b * Parallel \in Nat /\ b * NodeTimeout \in Nat
  BY LimitsAssumption DEF Report, HeadsTypeOK
<1>2. \A c \in Active : ~TimedOut(c) /\ stage[c] = "fetch" /\ c \in HungSet /\ c \in Listed
  BY TickWaits, Deadlines DEF TimedOut, Active
<1>3. Overdue \cap Active = {} /\ Overdue \cup Active \subseteq HungSet
  BY <1>2 DEF Overdue
<1>4. \A c \in Active : since[c] = b * NodeTimeout
  BY <1>1, <1>2 DEF InBatch, TimedOut
<1>5. PICK c \in Active : TRUE
  BY TickWaits DEF Active, Fetching, HungSet
<1>6. b * Parallel <= Cardinality(Overdue)
  BY <1>2, <1>5 DEF InBatch, TimedOut
<1>7. IsFiniteSet(Overdue) /\ Cardinality(Overdue) \in Nat
  BY <1>3, HungIsFinite
<1>8. Cardinality(Overdue \cup Active) = Cardinality(Overdue) + Cardinality(Active)
  <2>1. Cardinality(Overdue \cup Active) =
          Cardinality(Overdue) + Cardinality(Active) - Cardinality(Overdue \cap Active)
    BY <1>7, ActiveIsFinite, FS_Union
  <2>2. Cardinality(Overdue \cap Active) = 0
    BY <1>3, FS_EmptySet
  <2>3. QED
    BY <1>7, <2>1, <2>2, ActiveIsFinite
<1>9. Cardinality(Active) \in Nat \ {0}
  BY <1>5, ActiveIsFinite, FS_EmptySet
<1>10. Cardinality(Overdue \cup Active) <= HungContracts /\ HungContracts \in Nat
  BY <1>3, HungIsFinite
<1>11. b * Parallel + 1 <= HungContracts
  BY <1>1, <1>6, <1>7, <1>8, <1>9, <1>10
<1>12. ASSUME \E d \in Listed : stage[d] = "queued"
       PROVE  /\ (b + 1) * Parallel <= Cardinality(Overdue \cup Active)
              /\ (b + 1) * Parallel <= HungContracts
  <2>1. Cardinality(Active) = Parallel
    BY <1>12, TickWaits DEF Report, TokensAreHeld
  <2>2. (b + 1) * Parallel = b * Parallel + Parallel
    BY <1>1, Scaling
  <2>3. QED
    BY <1>1, <1>6, <1>7, <1>8, <1>10, <2>1, <2>2
<1>13. QED
  BY <1>3, <1>4, <1>11, <1>12

(* A tick lets the batch go on, or ends it for everybody in it.            *)
LEMMA BatchTick ==
    ASSUME Report, NEW b \in Nat, InBatch(b), Tick, clock' < HandlerTimeout
    PROVE  InBatch(b)' \/ InBatch(b + 1)'
<1> DEFINE s == b * NodeTimeout
           t == (b + 1) * NodeTimeout
<1>1. /\ NodeTimeout \in Nat \ {0} /\ Parallel \in Nat \ {0} /\ HandlerTimeout \in Nat
      /\ clock \in Nat /\ s \in Nat /\ t = s + NodeTimeout
      /\ s <= clock /\ clock < t /\ clock' = clock + 1
  BY LimitsAssumption, Scaling DEF Report, HeadsTypeOK, InBatch, Tick
<1>2. UNCHANGED <<stage, since, sem>> /\ \A c \in Listed : Stuck(c)
  BY DEF Tick
<1>3. \A c \in Listed : stage[c] = "fetch" => c \in Active /\ since[c] = s
  BY TickCounts DEF Active, Fetching
<1>4. Overdue \cup Active \subseteq HungSet
  BY TickCounts
<1>5. CASE clock' < t
  <2>1. \A c \in Listed : Stuck(c)'
    <3> SUFFICES ASSUME NEW c \in Listed PROVE Stuck(c)'
      OBVIOUS
    <3>1. CASE stage[c] = "fetch"
      <4>1. Deadline(c)' > clock'
        BY <1>1, <1>2, <1>3, <1>5, <3>1 DEF Deadline
      <4>2. QED
        BY <1>2, <3>1, <4>1 DEF Stuck
    <3>2. CASE stage[c] # "fetch"
      BY <1>2, <3>2 DEF Stuck
    <3>3. QED
      BY <3>1, <3>2
  <2>2. \A c \in Listed : TimedOut(c)' <=> TimedOut(c)
    BY <1>1, <1>2, <1>3, <1>5 DEF TimedOut
  <2>3. Overdue' = Overdue
    BY <1>2, <2>2 DEF Overdue, HungSet
  <2>4. InBatch(b)'
    BY <1>1, <1>2, <1>3, <1>5, <2>1, <2>2, <2>3 DEF InBatch
  <2>5. QED
    BY <2>4
<1>6. CASE clock' = t
  <2>1. \A c \in Listed : stage[c] = "fetch" => TimedOut(c)'
    BY <1>1, <1>2, <1>3, <1>6 DEF TimedOut
  <2>2. \A c \in Listed : stage'[c] = "fetch" => clock' = t /\ since'[c] + NodeTimeout = t
    BY <1>1, <1>2, <1>3, <1>6
  <2>3. CASE \E c \in Listed : stage[c] = "queued"
    <3>1. Overdue \cup Active \subseteq Overdue' /\ Overdue' \subseteq HungSet
      BY <1>2, <1>4, <2>1, TickWaits DEF Overdue, HungSet, TimedOut, Active
    <3>2. /\ Cardinality(Overdue \cup Active) <= Cardinality(Overdue')
          /\ Cardinality(Overdue \cup Active) \in Nat /\ Cardinality(Overdue') \in Nat
      BY <1>4, <3>1, HungIsFinite, FS_Subset
    <3>3. (b + 1) * Parallel \in Nat /\ (b + 1) * Parallel <= Cardinality(Overdue \cup Active)
      BY <1>1, <2>3, TickCounts
    <3>4. (b + 1) * Parallel <= Cardinality(Overdue')
      BY <3>2, <3>3
    <3>5. QED
      BY <1>1, <1>6, <2>2, <3>4 DEF InBatch
  <2>4. CASE ~ \E c \in Listed : stage[c] = "queued"
    <3>1. \A c \in Listed : stage'[c] = "done" \/ TimedOut(c)'
      BY <1>2, <2>1, <2>4, TickWaits DEF Active
    <3>2. QED
      BY <1>1, <1>6, <2>2, <3>1 DEF InBatch
  <2>5. QED
    BY <2>3, <2>4
<1>7. QED
  BY <1>1, <1>5, <1>6

(* Batches of the divisions in the properties.                             *)
LEMMA Bounds ==
    ASSUME Report, NEW b \in Nat, InBatch(b), Tick
    PROVE  /\ clock' = clock + 1 /\ clock' \in Nat
           /\ clock' <= ((HungContracts + Parallel - 1) \div Parallel) * NodeTimeout
           /\ (\E c \in Listed : stage[c] = "queued") =>
                 clock' <= (HungContracts \div Parallel) * NodeTimeout
<1>1. /\ NodeTimeout \in Nat \ {0} /\ Parallel \in Nat \ {0} /\ HungContracts \in Nat
      /\ clock \in Nat /\ clock' = clock + 1 /\ b * NodeTimeout \in Nat
      /\ clock < b * NodeTimeout + NodeTimeout
  BY LimitsAssumption, HungIsFinite DEF Report, HeadsTypeOK, InBatch, Tick
<1>2. ASSUME NEW m \in Nat, (b + 1) * Parallel <= m
      PROVE  clock' <= (m \div Parallel) * NodeTimeout
  <2>1. m \div Parallel \in Nat /\ b + 1 <= m \div Parallel
    BY <1>1, <1>2, Quotient
  <2>2. (b + 1) * NodeTimeout <= (m \div Parallel) * NodeTimeout
    BY <1>1, <2>1, Scaling
  <2>3. (b + 1) * NodeTimeout = b * NodeTimeout + NodeTimeout
    BY <1>1, Scaling
  <2>4. (m \div Parallel) * NodeTimeout \in Nat
    BY <1>1, <2>1
  <2>5. QED
    BY <1>1, <2>2, <2>3, <2>4
<1>3. clock' <= ((HungContracts + Parallel - 1) \div Parallel) * NodeTimeout
  <2>1. (b + 1) * Parallel = b * Parallel + Parallel /\ b * Parallel \in Nat
    BY <1>1, Scaling
  <2>2. b * Parallel + 1 <= HungContracts
    BY TickCounts
  <2>3. /\ HungContracts + Parallel - 1 \in Nat
        /\ (b + 1) * Parallel <= HungContracts + Parallel - 1
    BY <1>1, <2>1, <2>2
  <2>4. QED
    BY <1>2, <2>3
<1>4. ASSUME \E c \in Listed : stage[c] = "queued"
      PROVE  clock' <= (HungContracts \div Parallel) * NodeTimeout
  BY <1>1, <1>2, <1>4, TickCounts
<1>5. QED
  BY <1>1, <1>3, <1>4

(* The products and quotients the properties speak of are numbers.         *)
LEMMA QuotientIsNat ==
    ASSUME NEW m \in Nat
    PROVE  m \div Parallel \in Nat /\ (m \div Parallel) * NodeTimeout \in Nat
<1>1. Parallel \in Nat \ {0} /\ NodeTimeout \in Nat /\ 0 * Parallel = 0
  BY LimitsAssumption
<1>2. m \div Parallel \in Nat
  BY <1>1, Quotient
<1>3. QED
  BY <1>1, <1>2

(* When the request comes nobody has waited.                               *)
LEMMA WaitingInit == HeadsInit => Waiting
<1> SUFFICES ASSUME HeadsInit PROVE Waiting
  OBVIOUS
<1>1. NodeTimeout \in Nat \ {0} /\ Parallel \in Nat \ {0} /\ HandlerTimeout \in Nat
  BY LimitsAssumption
<1>2. 0 * NodeTimeout = 0 /\ 0 * Parallel = 0
  BY <1>1
<1>3. Overdue \subseteq HungSet
  BY DEF Overdue
<1>4. Cardinality(Overdue) \in Nat
  BY <1>3, HungIsFinite
<1>5. InBatch(0)
  BY <1>1, <1>2, <1>4 DEF InBatch, HeadsInit
<1>6. /\ (HungContracts \div Parallel) * NodeTimeout \in Nat
      /\ ((HungContracts + Parallel - 1) \div Parallel) * NodeTimeout \in Nat
  <2>1. HungContracts \in Nat /\ HungContracts + Parallel - 1 \in Nat
    BY <1>1, HungIsFinite
  <2>2. QED
    BY <2>1, QuotientIsNat
<1>7. QED
  BY <1>1, <1>5, <1>6
     DEF HeadsInit, Waiting, BatchesInStep, ClockIsBounded, OthersWaitForBatches,
         HealthyNotFailed, Nothing, Failed, HungSet

(* A goroutine takes no time and fails on the timeouts only.               *)
LEMMA WaitingGoroutine ==
    ASSUME Report, Waiting, NEW c \in Listed, Goroutine(c)
    PROVE  Waiting'
<1> USE DEF Waiting
<1>1. /\ HandlerTimeout \in Nat /\ clock \in Nat /\ NodeTimeout \in Nat \ {0}
      /\ clock' = clock /\ listing' = listing /\ HungSet' = HungSet
      /\ Hung \subseteq Nodes /\ Down \subseteq Nodes \ Hung /\ Nobody \notin Nodes
  BY GoroutineMoves, LimitsAssumption, HungAssumption, NobodyAssumption
     DEF Report, HeadsTypeOK, HungSet
<1>2. BatchesInStep'
  BY <1>1, BatchGoroutine DEF BatchesInStep
<1>3. ClockIsBounded'
  BY <1>1 DEF ClockIsBounded
<1>4. OthersWaitForBatches'
  BY <1>1, GoroutineMoves DEF OthersWaitForBatches
<1>5. HealthyNotFailed'
  <2> SUFFICES ASSUME (HungContracts \div Parallel) * NodeTimeout < HandlerTimeout,
                      NEW d \in Listed, NodeOf[d] \in Nodes \ (Hung \cup Down)
               PROVE  shown'[d] # Failed
    BY DEF HealthyNotFailed
  <2>1. shown[d] # Failed /\ d \in Listed \ HungSet
    BY DEF HealthyNotFailed, HungSet
  <2>2. CASE d # c
    BY <2>1, <2>2, GoroutineMoves DEF Report, HeadsTypeOK
  <2>3. CASE d = c
    <3>1. stage[c] = "fetch" => clock < Deadline(c)
      <4> SUFFICES ASSUME stage[c] = "fetch" PROVE clock < Deadline(c)
        OBVIOUS
      <4>1. since[c] = clock /\ clock <= (HungContracts \div Parallel) * NodeTimeout
        BY <2>1, <2>3 DEF OthersWaitForBatches
      <4>2. (HungContracts \div Parallel) * NodeTimeout \in Nat
        BY HungIsFinite, QuotientIsNat
      <4>3. clock < HandlerTimeout /\ clock < since[c] + NodeTimeout
        BY <1>1, <4>1, <4>2
      <4>4. QED
        BY <4>3, Deadlines
    <3>2. length[c] # Failed /\ shown \in [Listed -> Nat \cup {Nothing, Failed}]
      BY DEF Report, HeadsTypeOK, Failed
    <3>3. Deadline(c) \in Nat
      BY <1>1, Deadlines DEF Deadline
    <3>4. QED
      BY <1>1, <2>1, <2>3, <3>1, <3>2, <3>3, GoroutineMoves
  <2>4. QED
    BY <2>2, <2>3
<1>6. QED
  BY <1>2, <1>3, <1>4, <1>5

(* Time passes in batches.                                                 *)
LEMMA WaitingTick ==
    ASSUME Report, Waiting, Tick
    PROVE  Waiting'
<1> USE DEF Waiting
<1>1. /\ clock \in Nat /\ HandlerTimeout \in Nat
      /\ clock' = clock + 1 /\ clock < HandlerTimeout
      /\ UNCHANGED <<listing, stage, since, shown>>
  BY TickWaits, LimitsAssumption DEF Tick, Report, HeadsTypeOK
<1>2. PICK b \in Nat : InBatch(b)
  BY <1>1 DEF BatchesInStep
<1>3. BatchesInStep'
  BY <1>2, BatchTick DEF BatchesInStep
<1>4. ClockIsBounded'
  BY <1>1, <1>2, Bounds DEF ClockIsBounded
<1>5. OthersWaitForBatches'
  <2> SUFFICES ASSUME NEW c \in Listed \ HungSet
               PROVE  /\ stage[c] # "done" =>
                            clock' <= (HungContracts \div Parallel) * NodeTimeout
                      /\ stage[c] # "fetch"
    BY <1>1 DEF OthersWaitForBatches, HungSet
  <2>1. stage[c] \in {"queued", "done"}
    BY TickWaits
  <2>2. QED
    BY <1>2, <2>1, Bounds
<1>6. HealthyNotFailed'
  BY <1>1 DEF HealthyNotFailed
<1>7. QED
  BY <1>3, <1>4, <1>5, <1>6

(* What is said of waiting holds in every run.                             *)
LEMMA WaitingInvariant == HeadsSpec => [](Report /\ Waiting)
<1>1. HeadsInit => Report /\ Waiting
  BY ReportInit, WaitingInit
<1>2. Report /\ Waiting /\ [HeadsNext]_headsVars => Report' /\ Waiting'
  <2> SUFFICES ASSUME Report, Waiting, [HeadsNext]_headsVars PROVE Report' /\ Waiting'
    OBVIOUS
  <2>1. Report'
    BY GoroutineStep, OthersStep DEF HeadsNext
  <2>2. ASSUME UNCHANGED <<stage, since, shown, clock, sem>>
        PROVE  Waiting'
    <3>1. \A c \in Listed : (TimedOut(c)' <=> TimedOut(c)) /\ (Stuck(c)' <=> Stuck(c))
      BY <2>2 DEF TimedOut, Stuck, Deadline
    <3>2. Overdue' = Overdue
      BY <2>2, <3>1 DEF Overdue, HungSet
    <3>3. BatchesInStep'
      BY <2>2, <3>1, <3>2 DEF Waiting, BatchesInStep, InBatch
    <3>4. ClockIsBounded'
      BY <2>2 DEF Waiting, ClockIsBounded
    <3>5. OthersWaitForBatches' /\ HealthyNotFailed'
      BY <2>2 DEF Waiting, OthersWaitForBatches, HealthyNotFailed, HungSet
    <3>6. QED
      BY <3>3, <3>4, <3>5 DEF Waiting
  <2>3. QED
    BY <2>1, <2>2, WaitingGoroutine, WaitingTick
       DEF HeadsNext, headsVars, ListAdminContracts, Answer, HeadsIdle, Extend
<1>3. QED
  BY <1>1, <1>2, PTL DEF HeadsSpec

(* Hung nodes hold back a request by a timeout for each batch of their     *)
(* contracts, and never beyond the request's own timeout.                  *)
THEOREM NotPinned == HeadsSpec => []HungNodesDoNotPin
<1>1. Waiting => HungNodesDoNotPin
  BY DEF Waiting, ClockIsBounded, HungNodesDoNotPin
<1>2. QED
  BY <1>1, WaitingInvariant, PTL

(* Contracts of nodes that answer are shown with their chain unless the    *)
(* full batches of hung ones take all the time of the request.             *)
THEOREM Healthy == HeadsSpec => []HealthyAreShown
<1>1. Waiting => HealthyAreShown
  BY DEF Waiting, HealthyNotFailed, HealthyAreShown
<1>2. QED
  BY <1>1, WaitingInvariant, PTL
=============================================================================
