----------------------------- MODULE ContractOps -----------------------------
(***************************************************************************)
(* The operations a request carries out itself, without the payout queue:  *)
(* adding an activity, appending an admin, executing and deploying a       *)
(* contract, and creating a user's DID.  Each talks to the admin's node in *)
(* two steps, PostTx (or GenerateSmartContract) and Sign, and then records *)
(* the outcome in one table: activities, admin_contracts or user_admins.   *)
(*                                                                         *)
(* A call is one run of a handler and of the service method behind it.  A  *)
(* row of activities and an execution on chain both carry the content of   *)
(* the request that made them, so they are represented by that call.       *)
(***************************************************************************)
EXTENDS Naturals, Sequences

CONSTANTS
    Calls,      \* requests to the synchronous endpoints
    Admins,     \* admin DIDs
    Activities, \* activity ids
    Contracts,  \* smart-contract tokens the nodes may mint
    Users,      \* user DIDs the nodes may mint
    Requests,   \* the requests clients make
    Faults,     \* "node", "db", "cancel", "crash"
    MaxCrashes, \* bound on restarts of the server
    None

Kinds == {"add_activity", "add_admin", "reward"}

AllRequests ==
         [op : {"add_activity"}, admin : Admins, activity : Activities]
    \cup [op : {"add_admin"},    admin : Admins]
    \cup [op : {"execute"},      admin : Admins, contract : Contracts]
    \cup [op : {"deploy"},       admin : Admins, kind : Kinds]
    \cup [op : {"create_did"},   admin : Admins, user : Users]

ASSUME RequestsAssumption == Requests \subseteq AllRequests
ASSUME NoneAssumption ==
    None \notin Calls \cup Admins \cup Contracts \cup Requests
ASSUME BoundsAssumption == MaxCrashes \in Nat
ASSUME FaultAssumption == Faults \subseteq {"node", "db", "cancel", "crash"}

VARIABLES
    activities,  \* activities: the call whose execution a row mirrors
    registered,  \* admin_contracts: the contract of an admin and kind
    userAdmin,   \* user_admins: the admin of a user
    pc,          \* stage of each call, its answer when it is over
    request,     \* what the call asks for
    contract,    \* the contract it executes, or its deployment has minted
    ended,       \* the context of the call has ended
    tx,          \* node: stage of the call's transaction
    chain,       \* node: executions, oldest first
    owner,       \* node: the admin on whose node a contract was minted
    mintedBy,    \* node: the admins on whose nodes a user's DID was created
    overlapped,  \* history: a call has begun while another was in progress
    crashes      \* number of restarts

tables == <<activities, registered, userAdmin>>
calls  == <<pc, request, contract, ended>>
nodes  == <<tx, chain, owner, mintedBy>>
vars   == <<tables, calls, nodes, overlapped, crashes>>

Running  == {"lookup", "post", "sign", "wait", "persist"}
Stages   == {"new", "ok", "error", "lost"} \cup Running
TxStages == {"none", "posted", "signing", "done", "refused"}

TypeOK ==
    /\ activities \in [Admins -> [Activities -> Calls \cup {None}]]
    /\ registered \in [Admins -> [Kinds -> Contracts \cup {None}]]
    /\ userAdmin \in [Users -> Admins \cup {None}]
    /\ pc \in [Calls -> Stages]
    /\ request \in [Calls -> Requests \cup {None}]
    /\ contract \in [Calls -> Contracts \cup {None}]
    /\ ended \in [Calls -> BOOLEAN]
    /\ tx \in [Calls -> TxStages]
    /\ chain \in Seq(Calls)
    /\ owner \in [Contracts -> Admins \cup {None}]
    /\ mintedBy \in [Users -> SUBSET Admins]
    /\ overlapped \in BOOLEAN
    /\ crashes \in 0 .. MaxCrashes
    /\ \A k \in Calls : tx[k] # "none" /\ request[k].op # "deploy" => contract[k] # None

Init ==
    /\ activities = [a \in Admins |-> [x \in Activities |-> None]]
    /\ registered = [a \in Admins |-> [n \in Kinds |-> None]]
    /\ userAdmin  = [u \in Users |-> None]
    /\ pc         = [k \in Calls |-> "new"]
    /\ request    = [k \in Calls |-> None]
    /\ contract   = [k \in Calls |-> None]
    /\ ended      = [k \in Calls |-> FALSE]
    /\ tx         = [k \in Calls |-> "none"]
    /\ chain      = <<>>
    /\ owner      = [c \in Contracts |-> None]
    /\ mintedBy   = [u \in Users |-> {}]
    /\ overlapped = FALSE
    /\ crashes    = 0

(***************************************************************************)
(* A call.                                                                 *)
(***************************************************************************)

Fails(k, kind) == kind \in Faults \/ ended[k]

Goes(k, from, to) == pc[k] = from /\ pc' = [pc EXCEPT ![k] = to]

Op(k) == request[k].op

FirstStage(r) == IF r.op \in {"add_activity", "add_admin"} THEN "lookup" ELSE "post"

(* A request that does not validate, whose admin ClientFor does not know,  *)
(* or whose contract files do not exist, ends before anything happens.     *)
Begin(k) ==
    /\ overlapped' = (overlapped \/ \E j \in Calls : pc[j] \in Running)
    /\ \E r \in Requests :
        /\ request' = [request EXCEPT ![k] = r]
        /\ Goes(k, "new", FirstStage(r)) \/ Goes(k, "new", "error")
        /\ contract' = [contract EXCEPT ![k] = IF r.op = "execute" THEN r.contract ELSE None]
    /\ UNCHANGED <<tables, ended, nodes, crashes>>

(* GetAdminContract: the contract registered under the operation's name.   *)
LookupContract(k) ==
    /\ pc[k] = "lookup"
    /\ LET c == registered[request[k].admin][Op(k)] IN
       \/ /\ ~ended[k] /\ c # None
          /\ Goes(k, "lookup", "post")
          /\ contract' = [contract EXCEPT ![k] = c]
       \/ /\ c = None \/ Fails(k, "db")
          /\ Goes(k, "lookup", "error")
          /\ UNCHANGED contract
    /\ UNCHANGED <<tables, request, ended, nodes, overlapped, crashes>>

(* PostTx or GenerateSmartContract: the node keeps the transaction until   *)
(* it is signed, also when its answer does not arrive.                     *)
PostTx(k) ==
    /\ pc[k] = "post" /\ Op(k) # "create_did"
    /\ \/ ~ended[k] /\ Goes(k, "post", "sign") /\ tx' = [tx EXCEPT ![k] = "posted"]
       \/ /\ Fails(k, "node")
          /\ Goes(k, "post", "error")
          /\ tx' \in {tx, [tx EXCEPT ![k] = "posted"]}
    /\ UNCHANGED <<tables, request, contract, ended, chain, owner, mintedBy, overlapped, crashes>>

CreateDIDIgnoresError(k) ==
    /\ pc[k] = "post" /\ Op(k) = "create_did"
    /\ Goes(k, "post", "persist")
    /\ \/ mintedBy' = [mintedBy EXCEPT ![request[k].user] = @ \cup {request[k].admin}]
       \/ Fails(k, "node") /\ UNCHANGED mintedBy
    /\ UNCHANGED <<tables, request, contract, ended, tx, chain, owner, overlapped, crashes>>

(* CreateDID is a single exchange with the node; the node may have created *)
(* the DID when the exchange fails.                                        *)
CreateDID(k) ==
    /\ pc[k] = "post" /\ Op(k) = "create_did"
    /\ LET created == [mintedBy EXCEPT ![request[k].user] = @ \cup {request[k].admin}] IN
       \/ ~ended[k] /\ Goes(k, "post", "persist") /\ mintedBy' = created
       \/ Fails(k, "node") /\ Goes(k, "post", "error") /\ mintedBy' \in {mintedBy, created}
    /\ UNCHANGED <<tables, request, contract, ended, tx, chain, owner, overlapped, crashes>>

Sign(k) ==
    /\ \/ ~ended[k] /\ Goes(k, "sign", "wait") /\ tx' = [tx EXCEPT ![k] = "signing"]
       \/ Fails(k, "node") /\ Goes(k, "sign", "error") /\ UNCHANGED tx
    /\ UNCHANGED <<tables, request, contract, ended, chain, owner, mintedBy, overlapped, crashes>>

AfterSign(k) == IF Op(k) \in {"add_activity", "deploy"} THEN "persist" ELSE "ok"

SignDoesNotWait(k) ==
    /\ tx[k] # "refused"
    /\ Goes(k, "wait", AfterSign(k))
    /\ UNCHANGED <<tables, request, contract, ended, nodes, overlapped, crashes>>

(* The terminal answer of a signing.  That of a deployment names the token *)
(* (SubscribeSmartContract, whose outcome is ignored, leaves no state).    *)
SignReturns(k) ==
    /\ \/ /\ tx[k] = "done" /\ ~ended[k]
          /\ Goes(k, "wait", AfterSign(k))
       \/ tx[k] = "refused" /\ Goes(k, "wait", "error")
    /\ UNCHANGED <<tables, request, contract, ended, nodes, overlapped, crashes>>

(* The client gives up, or the answer is lost or cannot be read, whatever  *)
(* the node goes on to do.                                                 *)
SignFails(k) ==
    /\ Fails(k, "node")
    /\ Goes(k, "wait", "error")
    /\ UNCHANGED <<tables, request, contract, ended, nodes, overlapped, crashes>>

(***************************************************************************)
(* Recording the outcome: one statement per operation.                     *)
(***************************************************************************)

CreateActivityKeepsRow(k) ==
    LET r == request[k] IN
    /\ activities' = [activities EXCEPT ![r.admin][r.activity] = IF @ = None THEN k ELSE @]
    /\ UNCHANGED <<registered, userAdmin>>

CreateActivity(k) ==
    /\ activities' = [activities EXCEPT ![request[k].admin][request[k].activity] = k]
    /\ UNCHANGED <<registered, userAdmin>>

UpsertAdminContract(k) ==
    /\ registered' = [registered EXCEPT ![request[k].admin][request[k].kind] = contract[k]]
    /\ UNCHANGED <<activities, userAdmin>>

UpsertUserAdminOverwrites(k) ==
    /\ userAdmin' = [userAdmin EXCEPT ![request[k].user] = request[k].admin]
    /\ UNCHANGED <<activities, registered>>

(* The first admin recorded for a user wins.                               *)
UpsertUserAdmin(k) ==
    /\ userAdmin' = [userAdmin EXCEPT ![request[k].user] = IF @ = None THEN request[k].admin ELSE @]
    /\ UNCHANGED <<activities, registered>>

Record(k) ==
    \/ Op(k) = "add_activity" /\ CreateActivity(k)
    \/ Op(k) = "deploy" /\ UpsertAdminContract(k)
    \/ Op(k) = "create_did" /\ UpsertUserAdmin(k)

PersistBestEffort(k) ==
    /\ Goes(k, "persist", "ok")
    /\ Record(k) \/ (Fails(k, "db") /\ UNCHANGED tables)
    /\ UNCHANGED <<request, contract, ended, nodes, overlapped, crashes>>

(* A statement that fails may have been applied.  Its failure is the       *)
(* call's, except that the user's admin is recorded best effort.           *)
Persist(k) ==
    /\ pc[k] = "persist"
    /\ \/ ~ended[k] /\ Goes(k, "persist", "ok") /\ Record(k)
       \/ /\ Fails(k, "db")
          /\ Goes(k, "persist", IF Op(k) = "create_did" THEN "ok" ELSE "error")
          /\ Record(k) \/ UNCHANGED tables
    /\ UNCHANGED <<request, contract, ended, nodes, overlapped, crashes>>

(* The client goes away, or the handler's time is over.                    *)
ContextEnds(k) ==
    /\ "cancel" \in Faults
    /\ pc[k] \in Running /\ ~ended[k]
    /\ ended' = [ended EXCEPT ![k] = TRUE]
    /\ UNCHANGED <<tables, pc, request, contract, nodes, overlapped, crashes>>

(***************************************************************************)
(* The admin's node goes on with a signing on its own, whether or not the  *)
(* call still waits.                                                       *)
(***************************************************************************)
NodeCommits(k) ==
    /\ tx[k] = "signing"
    /\ tx' = [tx EXCEPT ![k] = "done"]
    /\ IF Op(k) = "deploy"
       THEN \E c \in Contracts :
                /\ owner[c] = None
                /\ owner' = [owner EXCEPT ![c] = request[k].admin]
                /\ contract' = [contract EXCEPT ![k] = c]
                /\ UNCHANGED chain
       ELSE /\ owner[contract[k]] # None
            /\ chain' = Append(chain, k)
            /\ UNCHANGED <<owner, contract>>
    /\ UNCHANGED <<tables, pc, request, ended, mintedBy, overlapped, crashes>>

NodeRefuses(k) ==
    /\ tx[k] = "signing"
    /\ tx' = [tx EXCEPT ![k] = "refused"]
    /\ UNCHANGED <<tables, calls, chain, owner, mintedBy, overlapped, crashes>>

(* The process stops and starts: calls in progress are gone, the tables    *)
(* and what the nodes do stay.                                             *)
Restart ==
    /\ "crash" \in Faults /\ crashes < MaxCrashes
    /\ crashes' = crashes + 1
    /\ pc' = [k \in Calls |-> IF pc[k] \in Running THEN "lost" ELSE pc[k]]
    /\ UNCHANGED <<tables, request, contract, ended, nodes, overlapped>>

Call(k) ==
    \/ Begin(k) \/ LookupContract(k) \/ PostTx(k) \/ CreateDID(k) \/ Sign(k)
    \/ SignReturns(k) \/ SignFails(k) \/ Persist(k) \/ ContextEnds(k)

Node(k) == NodeCommits(k) \/ NodeRefuses(k)

Idle == (\A k \in Calls : pc[k] \in {"ok", "error", "lost"}) /\ UNCHANGED vars

Next == Restart \/ Idle \/ \E k \in Calls : Call(k) \/ Node(k)

Spec == Init /\ [][Next]_vars

(***************************************************************************)
(* Properties.                                                             *)
(***************************************************************************)

Executed(k) == \E i \in DOMAIN chain : chain[i] = k

(* Every row of activities mirrors an execution for that admin and that    *)
(* activity, on a contract that exists.  AddActivity writes the row only   *)
(* after Sign; the property is about failures and restarts in between.     *)
MirrorIsOnChain ==
    \A a \in Admins, x \in Activities :
        LET k == activities[a][x] IN
        k # None =>
            /\ Executed(k)
            /\ request[k] = [op |-> "add_activity", admin |-> a, activity |-> x]
            /\ owner[contract[k]] # None

(* What is registered exists where later calls will look for it: a         *)
(* contract on its admin's node, a user's DID on its admin's node.         *)
RecordedIsMinted ==
    /\ \A a \in Admins, n \in Kinds :
           registered[a][n] # None => owner[registered[a][n]] = a
    /\ \A u \in Users : userAdmin[u] # None => userAdmin[u] \in mintedBy[u]

(* After the 200 of DeployContract or AddActivity a payout finds the       *)
(* contract and the activity's points.                                     *)
AnsweredIsRecorded ==
    \A k \in Calls : pc[k] = "ok" =>
        /\ Op(k) = "deploy" => registered[request[k].admin][request[k].kind] # None
        /\ Op(k) = "add_activity" =>
               activities[request[k].admin][request[k].activity] # None

(* The admin of a user never changes once it is recorded, whoever creates  *)
(* the same DID again.                                                     *)
UserAdminStays ==
    [][\A u \in Users : userAdmin[u] # None => userAdmin'[u] = userAdmin[u]]_vars

LaterOnChain(k, j) ==
    \E m, n \in DOMAIN chain : m < n /\ chain[m] = j /\ chain[n] = k

(* Posting an activity again updates it: the row is that of the call that  *)
(* was answered 200, or of one executed later.                             *)
MirrorIsLastAnswered ==
    \A k \in Calls :
        pc[k] = "ok" /\ Op(k) = "add_activity" =>
            LET j == activities[request[k].admin][request[k].activity] IN
            j = k \/ LaterOnChain(j, k)

(* The same as long as no call has begun while another was in progress.    *)
(* Calls that were given up may still be executed late.                    *)
MirrorInTurn == ~overlapped => MirrorIsLastAnswered
=============================================================================
