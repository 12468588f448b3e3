------------------------------ MODULE ForkCheck ------------------------------
(***************************************************************************)
(* GET /api/debug/fork-check: has the quorum's copy of an admin's reward   *)
(* contract run ahead of the owner's?  The handler puts its report         *)
(* together from four queries and one call of the owner's node, while the  *)
(* admin's payouts go on, contracts are deployed and operators repair.     *)
(*                                                                         *)
(* Everything is about one admin, the admin_did of the request, and its    *)
(* contracts and rows of kind reward.  A row of transfer_status is named   *)
(* by its place in the order of created_at; a block, which the code names  *)
(* by its transaction's hash, by its contract and position.  The handler   *)
(* writes nothing, so one request stands for any number of them.           *)
(***************************************************************************)
EXTENDS Naturals, Sequences

CONSTANTS
    Contracts,  \* the admin's reward contracts, registered one after another
    First,      \* the one registered at the start, or Nil
    Shapes,     \* what a mismatch's text names: "full", "heads", "neither"
    CheckFaults, \* "db", "node"
    MaxRows,    \* bound on the payouts
    MaxBlocks,  \* bound on the blocks after a contract's first
    Nil         \* an empty string; no job, no result

ASSUME ContractsAssumption == Nil \notin Contracts /\ First \in Contracts \cup {Nil}
ASSUME ShapesAssumption == Shapes \subseteq {"full", "heads", "neither"}
ASSUME RowsAssumption == MaxRows \in Nat /\ MaxBlocks \in Nat
ASSUME CheckFaultAssumption == CheckFaults \subseteq {"db", "node"}

VARIABLES
    rows,        \* the admin's reward rows of transfer_status
    registered,  \* admin_contracts: the contract of kind reward
    deployed,    \* contracts that are or were registered
    head,        \* the owner's node: position of the last block of a chain
    ahead,       \* contracts of which the quorum has one block more
    job,         \* the payout in the worker's hands
    check,       \* the handler's next step, or how it answered
    report       \* what it has put together so far

world    == <<rows, registered, deployed, head, ahead, job>>
forkVars == <<world, check, report>>

Block == [contract : Contracts, block : Nat]

ASSUME NilAssumption == Nil \notin Block

(* "other" stands for every row the queries pass over for good: failed for *)
(* another reason, refused, or left open by a lost UPDATE.                 *)
Row == [status : {"open", "success", "mismatch", "other"},
        at : Block \cup {Nil}]

OpenRow     == [status |-> "open", at |-> Nil]
OtherRow    == [status |-> "other", at |-> Nil]
Success(b)  == [status |-> "success", at |-> b]
Mismatch(b) == [status |-> "mismatch", at |-> b]

Job == [row : 1 .. MaxRows, contract : Contracts \cup {Nil}, result : Row \cup {Nil}]

(* Row numbers are 0 when there is no such row.                            *)
Report == [contract : Contracts \cup {Nil}, success : 0 .. MaxRows, seen : 0 .. MaxRows,
           quorum : Block \cup {Nil}, expected : Block \cup {Nil},
           first : 0 .. MaxRows, head : Block \cup {Nil}, forked : BOOLEAN]

NoReport == [contract |-> Nil, success |-> 0, seen |-> 0, quorum |-> Nil,
             expected |-> Nil, first |-> 0, head |-> Nil, forked |-> FALSE]

Steps   == {"contracts", "success", "mismatch", "first", "head"}
Answers == {"200", "500"}

ForkTypeOK ==
    /\ rows \in Seq(Row) /\ Len(rows) <= MaxRows
    /\ registered \in Contracts \cup {Nil}
    /\ deployed \subseteq Contracts /\ (registered # Nil => registered \in deployed)
    /\ head \in [Contracts -> 0 .. MaxBlocks]
    /\ ahead \subseteq Contracts
    /\ job \in Job \cup {Nil}
    /\ job # Nil => job.row \in DOMAIN rows /\ rows[job.row] = OpenRow
    /\ check \in Steps \cup Answers
    /\ report \in Report

ForkInit ==
    /\ rows       = <<>>
    /\ registered = First
    /\ deployed   = {First} \ {Nil}
    /\ head       = [c \in Contracts |-> 0]
    /\ ahead      = {}
    /\ job        = Nil
    /\ check      = "contracts"
    /\ report     = NoReport

(***************************************************************************)
(* The admin's payouts.  Handlers insert a row and then send its job, so   *)
(* that the worker need not run the jobs in the order of their rows; it    *)
(* runs them one at a time.                                                *)
(***************************************************************************)

InsertRow ==
    /\ Len(rows) < MaxRows
    /\ rows' = Append(rows, OpenRow)
    /\ UNCHANGED <<registered, deployed, head, ahead, job, check, report>>

(* ProcessTransferReward starts with the contract registered by now.       *)
StartJob(i) ==
    /\ job = Nil /\ rows[i] = OpenRow
    /\ job' = [row |-> i, contract |-> registered, result |-> Nil]
    /\ UNCHANGED <<rows, registered, deployed, head, ahead, check, report>>

(* The node commits the payout, the quorum refuses it because the chains   *)
(* differ, or it fails in another way.                                     *)
EndJob ==
    /\ job # Nil /\ job.result = Nil
    /\ LET c == job.contract IN
       \/ /\ c # Nil /\ c \notin ahead /\ head[c] < MaxBlocks
          /\ head' = [head EXCEPT ![c] = @ + 1]
          /\ job' = [job EXCEPT !.result = Success([contract |-> c, block |-> head[c] + 1])]
       \/ /\ c \in ahead
          /\ job' = [job EXCEPT !.result = Mismatch([contract |-> c, block |-> head[c]])]
          /\ UNCHANGED head
       \/ job' = [job EXCEPT !.result = OtherRow] /\ UNCHANGED head
    /\ UNCHANGED <<rows, registered, deployed, ahead, check, report>>

(* The job's final UPDATE, which may fail.                                 *)
RecordOutcome ==
    /\ job # Nil /\ job.result # Nil
    /\ rows' \in {[rows EXCEPT ![job.row] = r] : r \in {job.result, OtherRow}}
    /\ job' = Nil
    /\ UNCHANGED <<registered, deployed, head, ahead, check, report>>

(***************************************************************************)
(* The nodes and the operator.                                             *)
(***************************************************************************)

(* An execution no row reports: of another operation, or of a payout whose *)
(* client has given up.                                                    *)
Grow(c) ==
    /\ c \in deployed \ ahead /\ head[c] < MaxBlocks
    /\ head' = [head EXCEPT ![c] = @ + 1]
    /\ UNCHANGED <<rows, registered, deployed, ahead, job, check, report>>

(* The owner goes down inside consensus: only the quorum has the block.    *)
Fork(c) ==
    /\ c \in deployed \ ahead
    /\ ahead' = ahead \cup {c}
    /\ UNCHANGED <<rows, registered, deployed, head, job, check, report>>

(* The operator replays the lost block on the owner.                       *)
Repair(c) ==
    /\ c \in ahead /\ head[c] < MaxBlocks
    /\ ahead' = ahead \ {c}
    /\ head' = [head EXCEPT ![c] = @ + 1]
    /\ UNCHANGED <<rows, registered, deployed, job, check, report>>

(* UpsertAdminContract: a new contract takes the place of the old one.     *)
Deploy(c) ==
    /\ c \in Contracts \ deployed
    /\ registered' = c
    /\ deployed' = deployed \cup {c}
    /\ UNCHANGED <<rows, head, ahead, job, check, report>>

(***************************************************************************)
(* The handler, one query or call a step.                                  *)
(***************************************************************************)

Goes(from, to) == check = from /\ check' = to

(* A query that fails ends the request.                                    *)
QueryFails ==
    /\ "db" \in CheckFaults
    /\ check \in Steps \ {"head"}
    /\ check' = "500"
    /\ UNCHANGED <<world, report>>

ListContracts ==
    /\ Goes("contracts", "success")
    /\ report' = [report EXCEPT !.contract = registered]
    /\ UNCHANGED world

With(status) == {i \in DOMAIN rows : rows[i].status = status}

IsNewest(i, S) == i \in S /\ \A j \in S : j <= i
IsOldest(i, S) == i \in S /\ \A j \in S : i <= j

LatestSuccess ==
    /\ Goes("success", "mismatch")
    /\ \/ \E i \in DOMAIN rows :
             IsNewest(i, With("success")) /\ report' = [report EXCEPT !.success = i]
       \/ With("success") = {} /\ UNCHANGED report
    /\ UNCHANGED world

NextBlock(b) == [b EXCEPT !.block = @ + 1]

ParseMismatchSwapped(b, shape) ==
    [quorum |-> b, expected |-> NextBlock(b), contract |-> b.contract]

(* parseMismatch: "local latest" is the quorum's head, one block after     *)
(* "expected", the owner's.  Nil is what the text does not say.            *)
ParseMismatch(b, shape) ==
    [quorum   |-> IF shape = "neither" THEN Nil ELSE NextBlock(b),
     expected |-> IF shape = "neither" THEN Nil ELSE b,
     contract |-> IF shape = "full" THEN b.contract ELSE Nil]

(* Without a mismatch the report lacks only the owner's head.              *)
LatestMismatch ==
    /\ \/ /\ Goes("mismatch", "first")
          /\ \E i \in DOMAIN rows, shape \in Shapes :
                /\ IsNewest(i, With("mismatch"))
                /\ LET info == ParseMismatch(rows[i].at, shape) IN
                   report' = [report EXCEPT
                       !.seen = i, !.quorum = info.quorum, !.expected = info.expected,
                       !.contract = IF info.contract = Nil THEN @ ELSE info.contract]
       \/ /\ Goes("mismatch", "head")
          /\ With("mismatch") = {}
          /\ UNCHANGED report
    /\ UNCHANGED world

After(i) == {j \in With("mismatch") : j > i}

FirstMismatch ==
    /\ Goes("first", "head")
    /\ \/ \E i \in DOMAIN rows :
             IsOldest(i, After(report.success)) /\ report' = [report EXCEPT !.first = i]
       \/ After(report.success) = {} /\ UNCHANGED report
    /\ UNCHANGED world

FillOwnerHeadComparesExpected ==
    /\ Goes("head", "200")
    /\ LET c     == report.contract
           owner == [contract |-> c, block |-> head[c]]
       IN  /\ c # Nil
           /\ report' = [report EXCEPT !.head = owner,
                            !.forked = report.expected \notin {Nil, owner}]
    /\ UNCHANGED world

(* fillOwnerHead and the comparison.  No contract, or a node that does not *)
(* answer, leaves the owner's head unknown; an answer without a chain is   *)
(* compared like any other.                                                *)
FillOwnerHead ==
    /\ Goes("head", "200")
    /\ LET c == report.contract IN
       \/ /\ c = Nil \/ "node" \in CheckFaults
          /\ UNCHANGED report
       \/ /\ c # Nil /\ "node" \in CheckFaults
          /\ report' = [report EXCEPT !.head = Nil, !.forked = report.quorum # Nil]
       \/ /\ c # Nil
          /\ LET owner == [contract |-> c, block |-> head[c]] IN
             report' = [report EXCEPT !.head = owner,
                            !.forked = report.quorum \notin {Nil, owner}]
    /\ UNCHANGED world

Handler ==
    \/ QueryFails \/ ListContracts \/ LatestSuccess \/ LatestMismatch
    \/ FirstMismatch \/ FillOwnerHead

World ==
    \/ InsertRow \/ EndJob \/ RecordOutcome
    \/ \E i \in DOMAIN rows : StartJob(i)
    \/ \E c \in Contracts : Grow(c) \/ Fork(c) \/ Repair(c) \/ Deploy(c)

ForkIdle == check \in Answers /\ UNCHANGED forkVars

ForkNext == Handler \/ World \/ ForkIdle

ForkSpec == ForkInit /\ [][ForkNext]_forkVars

(***************************************************************************)
(* Properties.                                                             *)
(***************************************************************************)

(* What docs/debug-api.md calls the classic fork, and has operators replay *)
(* a block for: forked, with the owner at the head the quorum expected.    *)
(* When the report is made the fork is there and the block to replay is    *)
(* the next one, however old the mismatch was and whatever happened        *)
(* between the queries.                                                    *)
ClassicForkIsReal ==
    [][ /\ check' = "200" /\ check # "200"
        /\ report'.forked /\ report'.head = report'.expected
        => /\ report'.head.contract \in ahead
           /\ report'.head.block = head[report'.head.contract]
           /\ report'.quorum = NextBlock(report'.head) ]_forkVars

(* And it is not missed. "forked: false" has operators take the fork for   *)
(* repaired. If the fork that the newest mismatch met is still there when  *)
(* the owner's head is read, the report says forked, and if that head is   *)
(* of the mismatch's contract, it calls for the replay. The contract may   *)
(* have been replaced, and the text of the mismatch need not name it.      *)
LiveForkIsReported ==
    [][ check' = "200" /\ check # "200" /\ report.quorum # Nil /\ report'.head # Nil
        => LET b == rows[report.seen].at IN
           b.contract \in ahead /\ b.block = head[b.contract]
           => /\ report'.forked
              /\ report'.head.contract = b.contract => report'.head = report'.expected
      ]_forkVars

(* What debug_handler.go and docs/debug-api.md say of first_mismatch_at:   *)
(* "when the fork happened", and null, "already repaired", when the newest *)
(* mismatch predates the last success. So it is of the fork whose heads    *)
(* the report shows, and null only if the owner has the block that it      *)
(* lacked. The handler compares the created_at of rows, which may be       *)
(* executed in another order and be of several forks.                      *)
FirstMismatchIsWhenForkHappened ==
    [][ check' = "200" /\ check # "200" /\ report.quorum # Nil
        => LET b == rows[report.seen].at IN
           IF report.first = 0 THEN b.block < head[b.contract]
                               ELSE rows[report.first].at = b ]_forkVars
=============================================================================
