-------------------------- MODULE ForkCheck_proofs --------------------------
(***************************************************************************)
(* Proofs about ForkCheck, for any payouts, contracts, forks and repairs.  *)
(***************************************************************************)
EXTENDS ForkCheck, SequenceTheorems, TLAPS

(* Rows whose payout reached a chain.                                     *)
OnChain == {"success", "mismatch"}

(* What is known of a row: its job's result may not be recorded yet.       *)
Outcome(i) ==
    IF job # Nil /\ job.row = i /\ job.result # Nil THEN job.result ELSE rows[i]

(* A row names a block the owner has, and a mismatch at the owner's head   *)
(* is of a fork that is still there.                                       *)
RowsAreBehindHeads ==
    \A i \in DOMAIN rows : Outcome(i).status \in OnChain =>
        /\ Outcome(i).at \in Block
        /\ Outcome(i).at.block <= head[Outcome(i).at.contract]
        /\ Outcome(i).status = "mismatch"
           /\ Outcome(i).at.block = head[Outcome(i).at.contract]
           => Outcome(i).at.contract \in ahead

(* Rows the report refers to, and what is still true of them.              *)
ReportIsOfRows ==
    /\ check \in Steps => report.head = Nil /\ ~report.forked
    /\ report.seen = 0 => report.quorum = Nil
    /\ report.seen # 0 =>
          /\ report.seen \in DOMAIN rows /\ rows[report.seen].status = "mismatch"
          /\ report.quorum # Nil =>
                /\ report.expected = rows[report.seen].at
                /\ report.quorum = NextBlock(rows[report.seen].at)

(***************************************************************************)
(* Types.                                                                  *)
(***************************************************************************)

(* The first state is well-typed.                                          *)
LEMMA TypeInit == ForkInit => ForkTypeOK
<1> SUFFICES ASSUME ForkInit PROVE ForkTypeOK
  OBVIOUS
<1>1. report \in Report
  BY RowsAssumption DEF ForkInit, Report, NoReport
<1>2. rows \in Seq(Row) /\ Len(rows) <= MaxRows
  BY RowsAssumption DEF ForkInit
<1>3. job = Nil /\ check \in Steps \cup Answers
  BY DEF ForkInit, Steps
<1>4. /\ registered \in Contracts \cup {Nil}
      /\ deployed \subseteq Contracts /\ (registered # Nil => registered \in deployed)
      /\ head \in [Contracts -> 0 .. MaxBlocks] /\ ahead \subseteq Contracts
  BY ContractsAssumption, RowsAssumption DEF ForkInit
<1>5. QED
  BY <1>1, <1>2, <1>3, <1>4 DEF ForkTypeOK

(* The payouts' steps keep the types.                                      *)
LEMMA TypePayouts ==
    ASSUME ForkTypeOK,
           InsertRow \/ EndJob \/ RecordOutcome \/ \E i \in DOMAIN rows : StartJob(i)
    PROVE  ForkTypeOK'
<1> USE RowsAssumption
<1>1. CASE InsertRow
  <2>1. OpenRow \in Row
    BY DEF OpenRow, Row
  <2>2. /\ rows' \in Seq(Row) /\ Len(rows') = Len(rows) + 1
        /\ \A i \in DOMAIN rows : i \in DOMAIN rows' /\ rows'[i] = rows[i]
    BY <1>1, <2>1 DEF InsertRow, ForkTypeOK
  <2>3. Len(rows') <= MaxRows
    BY <1>1, <2>2 DEF InsertRow, ForkTypeOK
  <2>4. QED
    BY <1>1, <2>2, <2>3 DEF InsertRow, ForkTypeOK
<1>2. ASSUME NEW i \in DOMAIN rows, StartJob(i) PROVE ForkTypeOK'
  <2>1. i \in 1 .. MaxRows
    BY DEF ForkTypeOK
  <2>2. job' \in Job
    BY <1>2, <2>1 DEF StartJob, Job, ForkTypeOK
  <2>3. job'.row = i
    BY <1>2 DEF StartJob
  <2>4. QED
    BY <1>2, <2>2, <2>3 DEF StartJob, ForkTypeOK
<1>3. CASE EndJob
  <2> DEFINE c == job.contract
  <2>1. job \in Job /\ c \in Contracts \cup {Nil} /\ job.row \in DOMAIN rows
    BY <1>3 DEF EndJob, ForkTypeOK, Job
  <2>2. head' \in [Contracts -> 0 .. MaxBlocks]
    BY <1>3, <2>1 DEF EndJob, ForkTypeOK
  <2>3. PICK r : job' = [job EXCEPT !.result = r] /\ r \in Row
    <3>1. OtherRow \in Row
      BY DEF OtherRow, Row
    <3>2. ASSUME c \in Contracts
          PROVE  /\ Success([contract |-> c, block |-> head[c] + 1]) \in Row
                 /\ Mismatch([contract |-> c, block |-> head[c]]) \in Row
      BY <3>2 DEF Success, Mismatch, Row, Block, ForkTypeOK
    <3>3. c \in ahead => c \in Contracts
      BY DEF ForkTypeOK
    <3>4. QED
      BY <1>3, <2>1, <3>1, <3>2, <3>3 DEF EndJob
  <2>4. job' \in Job /\ job'.row = job.row
    BY <2>1, <2>3 DEF Job
  <2>5. QED
    BY <1>3, <2>1, <2>2, <2>4 DEF EndJob, ForkTypeOK
<1>4. CASE RecordOutcome
  <2>1. job.row \in DOMAIN rows /\ job.result \in Row /\ OtherRow \in Row
    BY <1>4 DEF RecordOutcome, ForkTypeOK, Job, OtherRow, Row
  <2>2. rows' \in Seq(Row) /\ Len(rows') = Len(rows)
    BY <1>4, <2>1 DEF RecordOutcome, ForkTypeOK
  <2>3. QED
    BY <1>4, <2>2 DEF RecordOutcome, ForkTypeOK
<1>5. QED
  BY <1>1, <1>2, <1>3, <1>4

(* The nodes, the operator and deployments keep the types.                 *)
LEMMA TypeNodes ==
    ASSUME ForkTypeOK, NEW c \in Contracts, Grow(c) \/ Fork(c) \/ Repair(c) \/ Deploy(c)
    PROVE  ForkTypeOK'
<1> USE RowsAssumption
<1>1. CASE Grow(c) \/ Repair(c)
  <2>1. head' \in [Contracts -> 0 .. MaxBlocks] /\ ahead' \subseteq Contracts
    BY <1>1 DEF Grow, Repair, ForkTypeOK
  <2>2. QED
    BY <1>1, <2>1 DEF Grow, Repair, ForkTypeOK
<1>2. CASE Fork(c) \/ Deploy(c)
  BY <1>2 DEF Fork, Deploy, ForkTypeOK
<1>3. QED
  BY <1>1, <1>2

(* What LatestMismatch fills in has the fields' types.                     *)
LEMMA SeenTypes ==
    ASSUME NEW r \in Report, NEW i \in 0 .. MaxRows, NEW q \in Block \cup {Nil},
           NEW e \in Block \cup {Nil}, NEW c \in Contracts \cup {Nil}
    PROVE  [r EXCEPT !.seen = i, !.quorum = q, !.expected = e, !.contract = c] \in Report
<1> DEFINE r1 == [r EXCEPT !.seen = i]
           r2 == [r1 EXCEPT !.quorum = q]
           r3 == [r2 EXCEPT !.expected = e]
<1>1. r1 \in Report
  BY DEF Report
<1> HIDE DEF r1
<1>2. r2 \in Report
  BY <1>1 DEF Report
<1> HIDE DEF r2
<1>3. r3 \in Report
  BY <1>2 DEF Report
<1> HIDE DEF r3
<1>4. [r3 EXCEPT !.contract = c] \in Report
  BY <1>3 DEF Report
<1>5. QED
  BY <1>4 DEF r1, r2, r3

(* The handler's steps keep the types.                                     *)
LEMMA TypeHandler ==
    ASSUME ForkTypeOK, Handler,
           \A i \in DOMAIN rows : rows[i].status = "mismatch" => rows[i].at \in Block
    PROVE  ForkTypeOK'
<1> USE RowsAssumption
<1>1. UNCHANGED world /\ check' \in Steps \cup Answers
  BY DEF Handler, QueryFails, ListContracts, LatestSuccess, LatestMismatch, FirstMismatch,
         FillOwnerHead, Goes, Steps, Answers
<1>2. DOMAIN rows \subseteq 1 .. MaxRows
  BY DEF ForkTypeOK
<1>3. CASE QueryFails \/ ListContracts
  BY <1>1, <1>3 DEF QueryFails, ListContracts, ForkTypeOK, Report, world
<1>4. CASE LatestSuccess
  BY <1>1, <1>2, <1>4 DEF LatestSuccess, ForkTypeOK, Report, world
<1>5. CASE LatestMismatch
  <2>1. CASE UNCHANGED report
    BY <1>1, <2>1 DEF ForkTypeOK, world
  <2>2. ASSUME NEW i \in DOMAIN rows, NEW shape \in Shapes, rows[i].status = "mismatch",
               report' = [report EXCEPT
                   !.seen = i, !.quorum = ParseMismatch(rows[i].at, shape).quorum,
                   !.expected = ParseMismatch(rows[i].at, shape).expected,
                   !.contract = IF ParseMismatch(rows[i].at, shape).contract = Nil THEN @
                                ELSE ParseMismatch(rows[i].at, shape).contract]
        PROVE  ForkTypeOK'
    <3>1. i \in 0 .. MaxRows
      BY <1>2
    <3>2. /\ ParseMismatch(rows[i].at, shape).quorum \in Block \cup {Nil}
          /\ ParseMismatch(rows[i].at, shape).expected \in Block \cup {Nil}
          /\ ParseMismatch(rows[i].at, shape).contract \in Contracts \cup {Nil}
      BY <2>2 DEF ParseMismatch, NextBlock, Block
    <3> DEFINE info == ParseMismatch(rows[i].at, shape)
               c    == IF info.contract = Nil THEN report.contract ELSE info.contract
    <3> HIDE DEF info
    <3>3. report' \in Report
      <4>1. report' = [report EXCEPT !.seen = i, !.quorum = info.quorum,
                                     !.expected = info.expected, !.contract = c]
        BY <2>2 DEF ForkTypeOK, Report, info
      <4>2. c \in Contracts \cup {Nil}
        BY <3>2 DEF ForkTypeOK, Report, info
      <4>3. info.quorum \in Block \cup {Nil} /\ info.expected \in Block \cup {Nil}
        BY <3>2 DEF info
      <4> HIDE DEF c
      <4>4. report \in Report
        BY DEF ForkTypeOK
      <4>5. QED
        BY <3>1, <4>1, <4>2, <4>3, <4>4, SeenTypes, Zenon
    <3>4. QED
      BY <1>1, <3>3 DEF ForkTypeOK, world
  <2>3. QED
    BY <1>5, <2>1, <2>2 DEF LatestMismatch, IsNewest, With
<1>6. CASE FirstMismatch
  <2>1. \E i \in 0 .. MaxRows : report' = [report EXCEPT !.first = i]
    BY <1>2, <1>6 DEF FirstMismatch, ForkTypeOK, Report
  <2>2. report' \in Report
    BY <2>1 DEF ForkTypeOK, Report
  <2>3. QED
    BY <1>1, <2>2 DEF ForkTypeOK, world
<1>7. CASE FillOwnerHead
  <2>1. CASE UNCHANGED report
    BY <1>1, <2>1 DEF ForkTypeOK, world
  <2>2. CASE ~ UNCHANGED report
    <3> DEFINE owner == [contract |-> report.contract, block |-> head[report.contract]]
               f     == report.quorum \notin {Nil, owner}
               e     == report.quorum # Nil
    <3>1. \/ report.contract # Nil /\ report' = [report EXCEPT !.head = owner, !.forked = f]
          \/ report' = [report EXCEPT !.head = Nil, !.forked = e]
      BY <1>7, <2>2 DEF FillOwnerHead
    <3>2. f \in BOOLEAN /\ e \in BOOLEAN
      OBVIOUS
    <3>3. report.contract # Nil => owner \in Block
      BY DEF ForkTypeOK, Report, Block
    <3> HIDE DEF owner, f, e
    <3>4. report' \in Report
      BY <3>1, <3>2, <3>3 DEF ForkTypeOK, Report
    <3>5. QED
      BY <1>1, <3>4 DEF ForkTypeOK, world
  <2>3. QED
    BY <2>1, <2>2
<1>8. QED
  BY <1>3, <1>4, <1>5, <1>6, <1>7 DEF Handler

(***************************************************************************)
(* What a step does to the rows and their outcomes.                        *)
(***************************************************************************)

(* Rows are never reordered, and a row that has left "open" stays as it is.*)
RowsGrow ==
    \A i \in DOMAIN rows :
        i \in DOMAIN rows' /\ (rows[i].status # "open" => rows'[i] = rows[i])

(* A step of anything but the node's answer adds no outcome.               *)
Keeps ==
    \A i \in DOMAIN rows' : Outcome(i)'.status \in OnChain =>
        i \in DOMAIN rows /\ Outcome(i)' = Outcome(i)

(* Rows are added and settled, never removed or changed once settled.      *)
LEMMA StepGrows ==
    ASSUME ForkTypeOK, [ForkNext]_forkVars
    PROVE  RowsGrow
<1>1. CASE UNCHANGED rows
  BY <1>1 DEF RowsGrow
<1>2. CASE InsertRow
  BY <1>2 DEF InsertRow, RowsGrow, ForkTypeOK
<1>3. CASE RecordOutcome
  <2>1. rows[job.row].status = "open"
    BY <1>3 DEF RecordOutcome, ForkTypeOK, OpenRow
  <2>2. PICK r : rows' = [rows EXCEPT ![job.row] = r]
    BY <1>3 DEF RecordOutcome
  <2>3. QED
    BY <2>1, <2>2 DEF RowsGrow, ForkTypeOK
<1>4. UNCHANGED rows \/ InsertRow \/ RecordOutcome
  BY DEF ForkNext, Handler, World, ForkIdle, QueryFails, ListContracts, LatestSuccess, LatestMismatch,
         FirstMismatch, FillOwnerHead, StartJob, EndJob, Grow, Fork, Repair, Deploy, forkVars, world
<1>5. QED
  BY <1>1, <1>2, <1>3, <1>4

(* A new row has no outcome yet.                                           *)
LEMMA InsertKeeps ==
    ASSUME ForkTypeOK, InsertRow
    PROVE  Keeps
<1>1. /\ DOMAIN rows' = 1 .. Len(rows) + 1 /\ DOMAIN rows = 1 .. Len(rows)
      /\ rows'[Len(rows) + 1] = OpenRow /\ Len(rows) \in Nat
      /\ \A i \in DOMAIN rows : rows'[i] = rows[i]
  BY DEF InsertRow, ForkTypeOK
<1>2. job' = job /\ (job # Nil => job.row \in DOMAIN rows)
  BY DEF InsertRow, ForkTypeOK
<1>3. QED
  BY <1>1, <1>2 DEF Keeps, Outcome, OpenRow, OnChain

(* Nor has a job that starts.                                              *)
LEMMA StartKeeps ==
    ASSUME ForkTypeOK, NEW i \in DOMAIN rows, StartJob(i)
    PROVE  Keeps
BY DEF StartJob, Keeps, Outcome

(* Recording writes the outcome the job had, or loses it.                  *)
LEMMA RecordKeeps ==
    ASSUME ForkTypeOK, RecordOutcome
    PROVE  Keeps
<1>1. PICK r \in {job.result, OtherRow} : rows' = [rows EXCEPT ![job.row] = r]
  BY DEF RecordOutcome
<1>2. \A i \in DOMAIN rows' : i \in DOMAIN rows /\ Outcome(i)' = rows'[i]
  BY <1>1 DEF RecordOutcome, Outcome, ForkTypeOK
<1>3. \A i \in DOMAIN rows : i # job.row => rows'[i] = rows[i] /\ Outcome(i) = rows[i]
  BY <1>1 DEF Outcome, ForkTypeOK
<1>4. Outcome(job.row) = job.result /\ rows'[job.row] = r
  BY <1>1 DEF RecordOutcome, Outcome, ForkTypeOK
<1>5. OtherRow.status \notin OnChain
  BY DEF OtherRow, OnChain
<1>6. QED
  BY <1>1, <1>2, <1>3, <1>4, <1>5 DEF Keeps

(***************************************************************************)
(* The payouts.                                                            *)
(***************************************************************************)

(* Before the first payout there is no row and no report.                  *)
LEMMA PayoutsInit == ForkInit => RowsAreBehindHeads /\ ReportIsOfRows
BY DEF ForkInit, RowsAreBehindHeads, ReportIsOfRows, NoReport

(* Heads only grow, and the owner catches up only by growing.              *)
HeadsGrow ==
    /\ \A c \in Contracts : head'[c] >= head[c]
    /\ \A c \in Contracts : c \in ahead /\ c \notin ahead' => head'[c] > head[c]

(* A step that adds no outcome and shortens no chain.                      *)
LEMMA KeepsPayouts ==
    ASSUME ForkTypeOK, ForkTypeOK', RowsAreBehindHeads, Keeps, HeadsGrow
    PROVE  RowsAreBehindHeads'
<1> SUFFICES ASSUME NEW i \in DOMAIN rows', Outcome(i)'.status \in OnChain
             PROVE  /\ Outcome(i)'.at \in Block
                    /\ Outcome(i)'.at.block <= head'[Outcome(i)'.at.contract]
                    /\ Outcome(i)'.status = "mismatch"
                       /\ Outcome(i)'.at.block = head'[Outcome(i)'.at.contract]
                       => Outcome(i)'.at.contract \in ahead'
  BY DEF RowsAreBehindHeads
<1> DEFINE o == Outcome(i)
<1>1. i \in DOMAIN rows /\ Outcome(i)' = o /\ o.status \in OnChain
  BY DEF Keeps
<1>2. /\ o.at \in Block
      /\ o.at.block <= head[o.at.contract]
      /\ o.status = "mismatch" /\ o.at.block = head[o.at.contract] => o.at.contract \in ahead
  BY <1>1 DEF RowsAreBehindHeads
<1> HIDE DEF o
<1>3. /\ o.at.contract \in Contracts /\ o.at.block \in Nat
      /\ head[o.at.contract] \in Nat /\ head'[o.at.contract] \in Nat
  BY <1>2 DEF Block, ForkTypeOK
<1>4. /\ o.at.block <= head'[o.at.contract]
      /\ o.status = "mismatch" /\ o.at.block = head'[o.at.contract] => o.at.contract \in ahead'
  BY <1>2, <1>3 DEF HeadsGrow
<1>5. QED
  BY <1>1, <1>2, <1>4

(* The node's answer adds the outcome of one row, at or after the head.    *)
LEMMA EndJobPayouts ==
    ASSUME ForkTypeOK, ForkTypeOK', RowsAreBehindHeads, EndJob
    PROVE  RowsAreBehindHeads'
<1>0. PICK k \in DOMAIN rows, c \in Contracts \cup {Nil} :
          k = job.row /\ c = job.contract
  BY DEF EndJob, ForkTypeOK, Job
<1>1. /\ job # Nil /\ job \in Job /\ rows[k] = OpenRow
      /\ job.result = Nil /\ rows' = rows /\ ahead' = ahead
  BY <1>0 DEF EndJob, ForkTypeOK, Job
<1>2. PICK r : job' = [job EXCEPT !.result = r]
               /\ \/ /\ c # Nil /\ c \notin ahead
                     /\ head' = [head EXCEPT ![c] = @ + 1]
                     /\ r = Success([contract |-> c, block |-> head[c] + 1])
                  \/ /\ c \in ahead /\ head' = head
                     /\ r = Mismatch([contract |-> c, block |-> head[c]])
                  \/ r = OtherRow /\ head' = head
  BY <1>0 DEF EndJob
<1>3. job'.row = k /\ job'.result = r
  BY <1>0, <1>1, <1>2 DEF Job
<1>4. \A i \in DOMAIN rows : Outcome(i) = rows[i] /\ (i # k => Outcome(i)' = rows[i])
  BY <1>1, <1>3 DEF Outcome
<1>5. Outcome(k)' \in {r, OpenRow}
  BY <1>1, <1>3 DEF Outcome
<1>6. OpenRow.status \notin OnChain /\ OtherRow.status \notin OnChain
  BY DEF OpenRow, OtherRow, OnChain
<1>7. ASSUME Outcome(k)'.status \in OnChain
      PROVE  /\ Outcome(k)' = r /\ c \in Contracts /\ r.at \in Block /\ r.at.contract = c
             /\ \/ r.status = "success" /\ head'[c] = head[c] + 1 /\ r.at.block = head[c] + 1
                \/ r.status = "mismatch" /\ head'[c] = head[c] /\ r.at.block = head[c] /\ c \in ahead
  <2>1. Outcome(k)' = r /\ r # OtherRow
    BY <1>5, <1>6, <1>7
  <2>2. c \in Contracts
    BY <1>1, <1>2, <2>1 DEF ForkTypeOK
  <2>3. head[c] \in Nat /\ [head EXCEPT ![c] = @ + 1][c] = head[c] + 1
    BY <2>2 DEF ForkTypeOK
  <2>4. QED
    BY <1>2, <2>1, <2>2, <2>3 DEF Success, Mismatch, Block
<1>8. ASSUME NEW d \in Contracts
      PROVE  head[d] \in Nat /\ head'[d] \in Nat /\ head'[d] >= head[d]
             /\ (d \in ahead => head'[d] = head[d])
  <2>1. head[d] \in Nat /\ head'[d] \in Nat
    BY DEF ForkTypeOK
  <2>2. head'[d] = head[d] \/ (d = c /\ c \notin ahead /\ head'[d] = head[d] + 1)
    BY <1>2 DEF ForkTypeOK
  <2>3. QED
    BY <2>1, <2>2
<1> SUFFICES ASSUME NEW i \in DOMAIN rows, Outcome(i)'.status \in OnChain
             PROVE  /\ Outcome(i)'.at \in Block
                    /\ Outcome(i)'.at.block <= head'[Outcome(i)'.at.contract]
                    /\ Outcome(i)'.status = "mismatch"
                       /\ Outcome(i)'.at.block = head'[Outcome(i)'.at.contract]
                       => Outcome(i)'.at.contract \in ahead'
  BY <1>1 DEF RowsAreBehindHeads
<1>9. CASE i = k
  BY <1>1, <1>7, <1>8, <1>9
<1>10. CASE i # k
  <2> DEFINE o == rows[i]
  <2>1. Outcome(i)' = o /\ Outcome(i) = o /\ o.status \in OnChain
    BY <1>4, <1>10
  <2>2. /\ o.at \in Block
        /\ o.at.block <= head[o.at.contract]
        /\ o.status = "mismatch" /\ o.at.block = head[o.at.contract] => o.at.contract \in ahead
    BY <2>1 DEF RowsAreBehindHeads
  <2> HIDE DEF o
  <2>3. o.at.contract \in Contracts /\ o.at.block \in Nat
    BY <2>2 DEF Block
  <2>4. /\ o.at.block <= head'[o.at.contract]
        /\ o.status = "mismatch" /\ o.at.block = head'[o.at.contract] => o.at.contract \in ahead'
    BY <1>1, <1>8, <2>2, <2>3
  <2>5. QED
    BY <2>1, <2>2, <2>4
<1>11. QED
  BY <1>9, <1>10

(* Every step keeps what is known of rows and heads.                       *)
LEMMA PayoutsStep ==
    ASSUME ForkTypeOK, ForkTypeOK', RowsAreBehindHeads, [ForkNext]_forkVars
    PROVE  RowsAreBehindHeads'
<1>1. CASE InsertRow \/ RecordOutcome \/ \E i \in DOMAIN rows : StartJob(i)
  <2>1. Keeps
    BY <1>1, InsertKeeps, RecordKeeps, StartKeeps
  <2>2. HeadsGrow
    BY <1>1 DEF InsertRow, RecordOutcome, StartJob, HeadsGrow, ForkTypeOK
  <2>3. QED
    BY <2>1, <2>2, KeepsPayouts
<1>2. CASE UNCHANGED <<rows, job>> /\ HeadsGrow
  <2>1. Keeps
    BY <1>2 DEF Keeps, Outcome
  <2>2. QED
    BY <1>2, <2>1, KeepsPayouts
<1>3. ASSUME NEW c \in Contracts, Grow(c) \/ Fork(c) \/ Repair(c) \/ Deploy(c)
      PROVE  UNCHANGED <<rows, job>> /\ HeadsGrow
  BY <1>3 DEF Grow, Fork, Repair, Deploy, HeadsGrow, ForkTypeOK
<1>4. ASSUME Handler \/ ForkIdle \/ UNCHANGED forkVars
      PROVE  UNCHANGED <<rows, job>> /\ HeadsGrow
  <2>1. UNCHANGED world
    BY <1>4 DEF Handler, QueryFails, ListContracts, LatestSuccess, LatestMismatch, FirstMismatch,
                FillOwnerHead, ForkIdle, forkVars
  <2>2. QED
    BY <2>1 DEF world, HeadsGrow, ForkTypeOK
<1>5. QED
  BY <1>1, <1>2, <1>3, <1>4, EndJobPayouts DEF ForkNext, World

(***************************************************************************)
(* The report.                                                             *)
(***************************************************************************)

(* A step of the others leaves the mismatch of the report as it is.        *)
LEMMA OthersKeepReport ==
    ASSUME ForkTypeOK, ReportIsOfRows, RowsGrow, UNCHANGED <<check, report>>
    PROVE  ReportIsOfRows'
<1>1. report.seen # 0 =>
          report.seen \in DOMAIN rows' /\ rows'[report.seen] = rows[report.seen]
  BY DEF ReportIsOfRows, RowsGrow
<1>2. QED
  BY <1>1 DEF ReportIsOfRows

(* A query of the handler fills its part of the report from the rows.      *)
LEMMA HandlerKeepsReport ==
    ASSUME ForkTypeOK, ReportIsOfRows, Handler
    PROVE  ReportIsOfRows'
<1> USE DEF ReportIsOfRows, Goes, Steps
<1>1. UNCHANGED world
  BY DEF Handler, QueryFails, ListContracts, LatestSuccess, LatestMismatch, FirstMismatch,
         FillOwnerHead
<1>2. CASE QueryFails
  BY <1>1, <1>2 DEF QueryFails, world
<1>3. CASE ListContracts
  BY <1>1, <1>3 DEF ListContracts, ForkTypeOK, Report, world
<1>4. CASE LatestSuccess
  BY <1>1, <1>4 DEF LatestSuccess, IsNewest, With, ForkTypeOK, Report, world
<1>5. CASE LatestMismatch
  <2>1. CASE UNCHANGED report /\ check' = "head"
    BY <1>1, <1>5, <2>1 DEF LatestMismatch, world
  <2>2. ASSUME NEW i \in DOMAIN rows, NEW shape \in Shapes, rows[i].status = "mismatch",
               check = "mismatch", check' = "first",
               report' = [report EXCEPT
                   !.seen = i, !.quorum = ParseMismatch(rows[i].at, shape).quorum,
                   !.expected = ParseMismatch(rows[i].at, shape).expected,
                   !.contract = IF ParseMismatch(rows[i].at, shape).contract = Nil THEN @
                                ELSE ParseMismatch(rows[i].at, shape).contract]
        PROVE  ReportIsOfRows'
    <3>1. /\ report'.seen = i /\ report'.head = report.head /\ report'.forked = report.forked
          /\ report'.quorum = ParseMismatch(rows[i].at, shape).quorum
          /\ report'.expected = ParseMismatch(rows[i].at, shape).expected
      BY <2>2 DEF ForkTypeOK, Report
    <3>2. report'.quorum # Nil =>
              report'.expected = rows[i].at /\ report'.quorum = NextBlock(rows[i].at)
      BY <3>1 DEF ParseMismatch
    <3>3. i # 0
      BY DEF ForkTypeOK
    <3>4. QED
      BY <1>1, <2>2, <3>1, <3>2, <3>3 DEF world
  <2>3. QED
    BY <1>5, <2>1, <2>2 DEF LatestMismatch, IsNewest, With
<1>6. CASE FirstMismatch
  BY <1>1, <1>6 DEF FirstMismatch, ForkTypeOK, Report, world
<1>7. CASE FillOwnerHead
  <2>1. /\ report'.seen = report.seen /\ report'.quorum = report.quorum
        /\ report'.expected = report.expected
    BY <1>7 DEF FillOwnerHead, ForkTypeOK, Report
  <2>2. QED
    BY <1>1, <1>7, <2>1 DEF FillOwnerHead, world
<1>8. QED
  BY <1>2, <1>3, <1>4, <1>5, <1>6, <1>7 DEF Handler

(* What the report says of rows stays true while they change.              *)
LEMMA ReportStep ==
    ASSUME ForkTypeOK, ReportIsOfRows, [ForkNext]_forkVars
    PROVE  ReportIsOfRows'
<1>1. RowsGrow
  BY StepGrows
<1>2. Handler \/ UNCHANGED <<check, report>>
  BY DEF ForkNext, World, InsertRow, StartJob, EndJob, RecordOutcome, Grow, Fork, Repair,
         Deploy, ForkIdle, forkVars
<1>3. QED
  BY <1>1, <1>2, OthersKeepReport, HandlerKeepsReport

(***************************************************************************)
(* The theorems.                                                           *)
(***************************************************************************)

Audit == ForkTypeOK /\ RowsAreBehindHeads /\ ReportIsOfRows

(* A recorded mismatch names a block.                                      *)
LEMMA MismatchHasBlock ==
    ASSUME ForkTypeOK, RowsAreBehindHeads
    PROVE  \A i \in DOMAIN rows : rows[i].status \in OnChain =>
               rows[i] = Outcome(i) /\ rows[i].at \in Block
<1> SUFFICES ASSUME NEW i \in DOMAIN rows, rows[i].status \in OnChain
             PROVE  rows[i] = Outcome(i) /\ rows[i].at \in Block
  OBVIOUS
<1>1. job # Nil => job.row # i
  BY DEF ForkTypeOK, OpenRow, OnChain
<1>2. Outcome(i) = rows[i]
  BY <1>1 DEF Outcome
<1>3. QED
  BY <1>2 DEF RowsAreBehindHeads

(* Every step keeps the types.                                             *)
LEMMA TypeStep ==
    ASSUME ForkTypeOK, RowsAreBehindHeads, [ForkNext]_forkVars
    PROVE  ForkTypeOK'
<1>1. CASE Handler
  BY <1>1, TypeHandler, MismatchHasBlock DEF OnChain
<1>2. CASE ForkIdle \/ UNCHANGED forkVars
  BY <1>2 DEF ForkIdle, forkVars, world, ForkTypeOK
<1>3. QED
  BY <1>1, <1>2, TypePayouts, TypeNodes DEF ForkNext, World

(* Audit holds in every run.                                               *)
LEMMA AuditInvariant == ForkSpec => []Audit
<1>1. ForkInit => Audit
  BY TypeInit, PayoutsInit DEF Audit
<1>2. Audit /\ [ForkNext]_forkVars => Audit'
  BY TypeStep, PayoutsStep, ReportStep DEF Audit
<1>3. QED
  BY <1>1, <1>2, PTL DEF ForkSpec

(* Rows, heads, the job in progress and the report keep their types: no    *)
(* report refers to a row or a block that does not exist.                  *)
THEOREM TypeCorrect == ForkSpec => []ForkTypeOK
BY AuditInvariant, PTL DEF Audit

(* A report that calls for a replay is about a fork that is there, and     *)
(* names the block to replay.                                              *)
THEOREM ClassicFork == ForkSpec => ClassicForkIsReal
<1> DEFINE Step ==
        /\ check' = "200" /\ check # "200"
        /\ report'.forked /\ report'.head = report'.expected
        => /\ report'.head.contract \in ahead
           /\ report'.head.block = head[report'.head.contract]
           /\ report'.quorum = NextBlock(report'.head)
<1>1. Audit /\ [ForkNext]_forkVars => Step
  <2> SUFFICES ASSUME Audit, [ForkNext]_forkVars, check' = "200", check # "200",
                      report'.forked, report'.head = report'.expected
               PROVE  /\ report'.head.contract \in ahead
                      /\ report'.head.block = head[report'.head.contract]
                      /\ report'.quorum = NextBlock(report'.head)
    OBVIOUS
  <2>1. FillOwnerHead
    BY DEF ForkNext, Handler, World, ForkIdle, InsertRow, StartJob, EndJob, RecordOutcome, Grow, Fork,
           Repair, Deploy, QueryFails, ListContracts, LatestSuccess, LatestMismatch, FirstMismatch,
           Goes, forkVars
  <2> DEFINE owner == [contract |-> report.contract, block |-> head[report.contract]]
  <2>2. ~report.forked
    BY <2>1 DEF FillOwnerHead, Goes, Steps, Audit, ReportIsOfRows
  <2>3. ~(report' = [report EXCEPT !.head = Nil, !.forked = report.quorum # Nil])
    <3> SUFFICES ASSUME report' = [report EXCEPT !.head = Nil, !.forked = report.quorum # Nil]
                 PROVE  FALSE
      OBVIOUS
    <3>1. report.quorum # Nil /\ report.expected = Nil
      BY DEF Audit, ForkTypeOK, Report
    <3>2. /\ report.seen \in DOMAIN rows /\ rows[report.seen].status = "mismatch"
          /\ report.expected = rows[report.seen].at
      BY <3>1 DEF Audit, ReportIsOfRows
    <3>3. QED
      BY <3>1, <3>2, MismatchHasBlock, NilAssumption DEF Audit, OnChain
  <2>4. /\ report.contract # Nil
        /\ report' = [report EXCEPT !.head = owner, !.forked = report.quorum \notin {Nil, owner}]
    BY <2>1, <2>2, <2>3 DEF FillOwnerHead
  <2>5. /\ report'.head = owner /\ report'.quorum = report.quorum
        /\ report'.expected = report.expected /\ report.quorum # Nil
    BY <2>4 DEF Audit, ForkTypeOK, Report
  <2>6. /\ report.seen \in DOMAIN rows /\ rows[report.seen].status = "mismatch"
        /\ report.expected = rows[report.seen].at
        /\ report.quorum = NextBlock(rows[report.seen].at)
    BY <2>5 DEF Audit, ReportIsOfRows
  <2>7. rows[report.seen].at = owner
    BY <2>5, <2>6
  <2>8. rows[report.seen] = Outcome(report.seen)
    BY <2>6, MismatchHasBlock DEF Audit, OnChain
  <2>9. report.contract \in ahead
    BY <2>6, <2>7, <2>8 DEF Audit, RowsAreBehindHeads, OnChain
  <2>10. QED
    BY <2>5, <2>6, <2>7, <2>9
<1>2. QED
  BY <1>1, AuditInvariant, PTL DEF ForkSpec, ClassicForkIsReal

(* A fork that is still there when the owner's head is read is reported.   *)
THEOREM LiveFork == ForkSpec => LiveForkIsReported
<1> DEFINE b    == rows[report.seen].at
           Step ==
        check' = "200" /\ check # "200" /\ report.quorum # Nil /\ report'.head # Nil
        => (b.contract \in ahead /\ b.block = head[b.contract]
            => /\ report'.forked
               /\ report'.head.contract = b.contract => report'.head = report'.expected)
<1>1. Audit /\ [ForkNext]_forkVars => Step
  <2> SUFFICES ASSUME Audit, [ForkNext]_forkVars, check' = "200", check # "200",
                      report.quorum # Nil, report'.head # Nil,
                      b.block = head[b.contract]
               PROVE  /\ report'.forked
                      /\ report'.head.contract = b.contract => report'.head = report'.expected
    OBVIOUS
  <2>1. FillOwnerHead
    BY DEF ForkNext, Handler, World, ForkIdle, InsertRow, StartJob, EndJob, RecordOutcome, Grow, Fork,
           Repair, Deploy, QueryFails, ListContracts, LatestSuccess, LatestMismatch, FirstMismatch,
           Goes, forkVars
  <2> DEFINE owner == [contract |-> report.contract, block |-> head[report.contract]]
  <2>2. /\ report.seen \in DOMAIN rows /\ rows[report.seen].status = "mismatch"
        /\ report.expected = b /\ report.quorum = NextBlock(b)
    BY DEF Audit, ReportIsOfRows
  <2>3. b \in Block /\ head[b.contract] \in Nat
    BY <2>2, MismatchHasBlock DEF Audit, OnChain, ForkTypeOK, Block
  <2>4. /\ report.contract # Nil
        /\ report' = [report EXCEPT !.head = owner, !.forked = report.quorum \notin {Nil, owner}]
    <3>1. report.head = Nil
      BY <2>1 DEF FillOwnerHead, Goes, Steps, Audit, ReportIsOfRows
    <3>2. report' # report /\ report' # [report EXCEPT !.head = Nil, !.forked = report.quorum # Nil]
      BY <3>1 DEF Audit, ForkTypeOK, Report
    <3>3. QED
      BY <2>1, <3>2 DEF FillOwnerHead
  <2>5. /\ report'.head = owner /\ report'.expected = b
        /\ report'.forked = (report.quorum # owner)
    BY <2>2, <2>4 DEF Audit, ForkTypeOK, Report
  <2>6. /\ report.quorum.contract = b.contract
        /\ report.quorum.block = head[b.contract] + 1
    BY <2>2, <2>3 DEF NextBlock, Block
  <2>7. report'.forked
    <3>1. report.quorum # owner
      BY <2>3, <2>6
    <3> HIDE DEF owner
    <3>2. QED
      BY <2>5, <3>1, Zenon
  <2>8. report.contract = b.contract => owner = b
    BY <2>3 DEF Block
  <2>9. QED
    BY <2>5, <2>7, <2>8
<1>2. QED
  BY <1>1, AuditInvariant, PTL DEF ForkSpec, LiveForkIsReported
=============================================================================
