---------------------------- MODULE PayoutLedger ----------------------------
(***************************************************************************)
(* What a client of the payout API may rely on, whatever happens inside    *)
(* the server: the answer to its POST, the transfer_status row it polls    *)
(* and the executions of its request on the reward contract's chain.       *)
(*                                                                         *)
(*   - a row goes queued -> processing -> success | failed, may skip       *)
(*     "processing", and never leaves success or failed;                   *)
(*   - a request is executed only if its job was accepted, and with one    *)
(*     bill only;                                                          *)
(*   - a row says success only of an executed request, and reports the     *)
(*     contract and the points that were executed;                         *)
(*   - a request that was refused is never executed, also not later.       *)
(*                                                                         *)
(* It does not promise that "failed" means "not executed": the node may    *)
(* commit a transaction whose signature call the server gave up on.        *)
(***************************************************************************)

CONSTANTS
    Requests,   \* request_id values
    Bills,      \* [contract, points] pairs a request can be executed with
    NoBill      \* the row's contract_hash and reward_points before success

VARIABLES
    answer,     \* what the POST handler told the client
    status,     \* transfer_status.status, "none" when there is no row
    reported,   \* transfer_status.contract_hash and reward_points
    executed    \* the bills the request was executed with on chain

ledgerVars == <<answer, status, reported, executed>>

Answers  == {"pending", "accepted", "refused"}
Statuses == {"none", "queued", "processing", "success", "failed"}
Open     == {"queued", "processing"}

Init ==
    /\ answer   = [r \in Requests |-> "pending"]
    /\ status   = [r \in Requests |-> "none"]
    /\ reported = [r \in Requests |-> NoBill]
    /\ executed = [r \in Requests |-> {}]

(* The row is inserted before the job is offered to the queue.             *)
Record(r) ==
    /\ answer[r] = "pending" /\ status[r] = "none"
    /\ status' = [status EXCEPT ![r] = "queued"]
    /\ UNCHANGED <<answer, reported, executed>>

Accept(r) ==
    /\ answer[r] = "pending" /\ status[r] = "queued"
    /\ answer' = [answer EXCEPT ![r] = "accepted"]
    /\ UNCHANGED <<status, reported, executed>>

(* Validation failed (no row), the insert failed (the row may exist all    *)
(* the same) or the queue is full (the row is failed, if that can be       *)
(* written).                                                               *)
Refuse(r) ==
    /\ answer[r] = "pending" /\ executed[r] = {}
    /\ answer' = [answer EXCEPT ![r] = "refused"]
    /\ \/ UNCHANGED status
       \/ /\ status[r] = "none"
          /\ status' = [status EXCEPT ![r] = "queued"]
       \/ /\ status[r] = "queued"
          /\ status' = [status EXCEPT ![r] = "failed"]
    /\ UNCHANGED <<reported, executed>>

Begin(r) ==
    /\ answer[r] = "accepted" /\ status[r] = "queued"
    /\ status' = [status EXCEPT ![r] = "processing"]
    /\ UNCHANGED <<answer, reported, executed>>

(* The node commits; the row may already say failed, never success.        *)
Execute(r, b) ==
    /\ answer[r] = "accepted" /\ status[r] # "success"
    /\ executed[r] = {}
    /\ executed' = [executed EXCEPT ![r] = {b}]
    /\ UNCHANGED <<answer, status, reported>>

Succeed(r) ==
    /\ status[r] \in Open
    /\ \E b \in executed[r] : reported' = [reported EXCEPT ![r] = b]
    /\ status' = [status EXCEPT ![r] = "success"]
    /\ UNCHANGED <<answer, executed>>

Fail(r) ==
    /\ answer[r] = "accepted" /\ status[r] \in Open
    /\ status' = [status EXCEPT ![r] = "failed"]
    /\ UNCHANGED <<answer, reported, executed>>

Next ==
    \E r \in Requests :
        \/ Record(r) \/ Accept(r) \/ Refuse(r) \/ Begin(r)
        \/ Succeed(r) \/ Fail(r)
        \/ \E b \in Bills : Execute(r, b)

Spec == Init /\ [][Next]_ledgerVars
=============================================================================
