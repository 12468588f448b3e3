---------------------------- MODULE ContractHeads ----------------------------
(***************************************************************************)
(* GET /api/debug/contracts: the heads of the registered contracts, as     *)
(* their owners' nodes see them.  The handler starts a goroutine per       *)
(* contract; a semaphore bounds those that fetch at a time, a timeout caps *)
(* each fetch, and a node that fails is reported on its contract.  The     *)
(* goroutines share the pool of node clients with the rest of the server.  *)
(*                                                                         *)
(* A chain is represented by its length, which the answer shows next to    *)
(* its last block.  Names are chosen so that ForkCheck can be extended     *)
(* together with this module.                                              *)
(***************************************************************************)
EXTENDS Integers, FiniteSets

CONSTANTS
    Listed,          \* the rows of admin_contracts the request selects
    Nodes,           \* base URLs of the admins' nodes
    NodeOf,          \* the node of a contract's owner, Nobody if not in the map
    Hung,            \* nodes that accept a request and do not answer
    Down,            \* nodes that answer with an error, or not reachable
    Parallel,        \* debugNodeParallel
    NodeTimeout,     \* debugNodeTimeout
    HandlerTimeout,  \* defaultHandlerTimeout
    Start,           \* the lengths of the chains when the request comes
    MaxGrowth,       \* bound on the executions during the request
    ListFaults,      \* "db"
    Nobody

ASSUME ListedAssumption == IsFiniteSet(Listed) /\ NodeOf \in [Listed -> Nodes \cup {Nobody}]
ASSUME NobodyAssumption == Nobody \notin Listed \cup Nodes
ASSUME HungAssumption == Hung \subseteq Nodes /\ Down \subseteq Nodes \ Hung
ASSUME LimitsAssumption ==
    /\ Parallel \in Nat \ {0} /\ NodeTimeout \in Nat \ {0} /\ HandlerTimeout \in Nat
    /\ Start \in [Listed -> Nat] /\ MaxGrowth \in Nat
ASSUME ListFaultsAssumption == ListFaults \subseteq {"db"}

VARIABLES
    listing,   \* stage of the request, or its answer
    stage,     \* stage of a contract's goroutine
    sem,       \* tokens in the semaphore's channel
    clients,   \* Pool.clients: the goroutine that created a node's client
    client,    \* the client a goroutine uses
    since,     \* when its fetch began
    shown,     \* what the answer says of a contract
    length,    \* nodes: the length of a contract's chain
    clock

headsVars == <<listing, stage, sem, clients, client, since, shown, length, clock>>

Fetching == {"lookup", "create", "fetch"}
Nothing  == -2
Failed   == -1

HeadsTypeOK ==
    /\ listing \in {"query", "fetching", "200", "500"}
    /\ stage \in [Listed -> {"queued", "done"} \cup Fetching]
    /\ sem \in 0 .. Parallel
    /\ clients \in [Nodes -> Listed \cup {Nobody}]
    /\ client \in [Listed -> Listed \cup {Nobody}]
    /\ since \in [Listed -> 0 .. HandlerTimeout + 1]
    /\ shown \in [Listed -> Nat \cup {Nothing, Failed}]
    /\ length \in [Listed -> Nat]
    /\ clock \in 0 .. HandlerTimeout + 1

HeadsInit ==
    /\ listing  = "query"
    /\ stage    = [c \in Listed |-> "queued"]
    /\ sem      = 0
    /\ clients  = [n \in Nodes |-> Nobody]
    /\ client   = [c \in Listed |-> Nobody]
    /\ since    = [c \in Listed |-> 0]
    /\ shown    = [c \in Listed |-> Nothing]
    /\ length = Start
    /\ clock    = 0

(* The query, and a goroutine per contract it returns.                     *)
ListAdminContracts ==
    /\ listing = "query"
    /\ \/ listing' = "fetching" \/ ("db" \in ListFaults /\ listing' = "500")
    /\ UNCHANGED <<stage, sem, clients, client, since, shown, length, clock>>

(***************************************************************************)
(* The goroutine of a contract.                                            *)
(***************************************************************************)

Moves(c, from, to) == listing = "fetching" /\ stage[c] = from /\ stage' = [stage EXCEPT ![c] = to]

AcquireUnbounded(c) ==
    /\ Moves(c, "queued", "lookup")
    /\ sem' = sem + 1
    /\ UNCHANGED <<listing, clients, client, since, shown, length, clock>>

Acquire(c) ==
    /\ sem < Parallel
    /\ Moves(c, "queued", "lookup")
    /\ sem' = sem + 1
    /\ UNCHANGED <<listing, clients, client, since, shown, length, clock>>

FinishCapturesLoopVariable(c, from, what) ==
    /\ Moves(c, from, "done")
    /\ shown' = [shown EXCEPT ![CHOOSE d \in Listed : TRUE] = what]
    /\ sem' = sem - 1

(* fillHead's result goes to the contract's own place in the answer, and   *)
(* the deferred calls run.                                                 *)
Finish(c, from, what) ==
    /\ Moves(c, from, "done")
    /\ shown' = [shown EXCEPT ![c] = what]
    /\ sem' = sem - 1

(* The timeout of a fetch begins when the goroutine has its client.        *)
Use(c, k) ==
    /\ client' = [client EXCEPT ![c] = k]
    /\ since' = [since EXCEPT ![c] = clock]

(* ClientFor, and ForBaseURL under the read lock.                          *)
FindClient(c) ==
    LET n == NodeOf[c] IN
    /\ \/ n = Nobody /\ Finish(c, "lookup", Failed) /\ UNCHANGED <<client, since>>
       \/ /\ n # Nobody /\ clients[n] # Nobody
          /\ Moves(c, "lookup", "fetch") /\ Use(c, clients[n])
          /\ UNCHANGED <<sem, shown>>
       \/ /\ n # Nobody /\ clients[n] = Nobody
          /\ Moves(c, "lookup", "create")
          /\ UNCHANGED <<client, since, sem, shown>>
    /\ UNCHANGED <<listing, clients, length, clock>>

CreateClientUnchecked(c) ==
    /\ Moves(c, "create", "fetch")
    /\ clients' = [clients EXCEPT ![NodeOf[c]] = c]
    /\ Use(c, c)
    /\ UNCHANGED <<listing, sem, shown, length, clock>>

(* ForBaseURL under the write lock, with its second lookup.                *)
CreateClient(c) ==
    LET n == NodeOf[c] IN
    /\ Moves(c, "create", "fetch")
    /\ \/ clients[n] # Nobody /\ Use(c, clients[n]) /\ UNCHANGED clients
       \/ clients[n] = Nobody /\ Use(c, c) /\ clients' = [clients EXCEPT ![n] = c]
    /\ UNCHANGED <<listing, sem, shown, length, clock>>

DeadlineOfHandler(c) == HandlerTimeout

DeadlineFromRequest(c) == IF NodeTimeout < HandlerTimeout THEN NodeTimeout ELSE HandlerTimeout

(* The earlier of the fetch's timeout and the request's.                   *)
Deadline(c) ==
    IF since[c] + NodeTimeout < HandlerTimeout THEN since[c] + NodeTimeout ELSE HandlerTimeout

(* GetSmartContractChain.                                                  *)
FetchAnswers(c) ==
    /\ stage[c] = "fetch" /\ NodeOf[c] \notin Hung /\ clock < Deadline(c)
    /\ Finish(c, "fetch", IF NodeOf[c] \in Down THEN Failed ELSE length[c])
    /\ UNCHANGED <<listing, clients, client, since, length, clock>>

FetchTimesOut(c) ==
    /\ stage[c] = "fetch" /\ clock >= Deadline(c)
    /\ Finish(c, "fetch", Failed)
    /\ UNCHANGED <<listing, clients, client, since, length, clock>>

Goroutine(c) ==
    Acquire(c) \/ FindClient(c) \/ CreateClient(c) \/ FetchAnswers(c) \/ FetchTimesOut(c)

(* wg.Wait.                                                                *)
Answer ==
    /\ listing = "fetching" /\ \A c \in Listed : stage[c] = "done"
    /\ listing' = "200"
    /\ UNCHANGED <<stage, sem, clients, client, since, shown, length, clock>>

(* A contract is executed.  After its fetch nothing looks at it again.     *)
Extend(c) ==
    /\ listing = "fetching" /\ stage[c] # "done"
    /\ length[c] < Start[c] + MaxGrowth
    /\ length' = [length EXCEPT ![c] = @ + 1]
    /\ UNCHANGED <<listing, stage, sem, clients, client, since, shown, clock>>

Stuck(c) ==
    \/ stage[c] = "done"
    \/ stage[c] = "queued" /\ sem = Parallel
    \/ stage[c] = "fetch" /\ NodeOf[c] \in Hung /\ clock < Deadline(c)

(* Goroutines and nodes that answer are fast compared to the timeouts:     *)
(* time passes only when everybody waits.                                  *)
Tick ==
    /\ listing = "fetching" /\ \E c \in Listed : stage[c] # "done"
    /\ \A c \in Listed : Stuck(c)
    /\ clock <= HandlerTimeout
    /\ clock' = clock + 1
    /\ UNCHANGED <<listing, stage, sem, clients, client, since, shown, length>>

HeadsIdle == listing \in {"200", "500"} /\ UNCHANGED headsVars

HeadsNext ==
    \/ ListAdminContracts \/ Answer \/ Tick \/ HeadsIdle
    \/ \E c \in Listed : Goroutine(c) \/ Extend(c)

HeadsSpec == HeadsInit /\ [][HeadsNext]_headsVars

(***************************************************************************)
(* Properties.                                                             *)
(***************************************************************************)

(* However goroutines race in ForBaseURL, a node has one client, which     *)
(* everybody uses.                                                         *)
OneClientPerNode ==
    \A c \in Listed : client[c] # Nobody => client[c] = clients[NodeOf[c]]

(* The semaphore's purpose: at most Parallel nodes are asked at a time.    *)
FetchesAreBounded == Cardinality({c \in Listed : stage[c] \in Fetching}) <= Parallel

(* An answer has, for each contract, an error or a chain_length that was   *)
(* its own during the request.                                             *)
AnswerIsComplete ==
    listing = "200" =>
        \A c \in Listed : shown[c] = Failed \/ shown[c] \in Start[c] .. length[c]

HungContracts == Cardinality({c \in Listed : NodeOf[c] \in Hung})

(* "so a hung node cannot pin the whole /contracts response": hung nodes   *)
(* cost a timeout for each batch of Parallel of their contracts, and never *)
(* more than the request's own timeout.                                    *)
HungNodesDoNotPin ==
    listing = "fetching" =>
        /\ clock <= HandlerTimeout
        /\ clock <= ((HungContracts + Parallel - 1) \div Parallel) * NodeTimeout

(* A contract whose node answers is shown with its chain, unless waiting   *)
(* for the hung ones takes all the time there is.                          *)
HealthyAreShown ==
    listing = "200" /\ (HungContracts \div Parallel) * NodeTimeout < HandlerTimeout =>
        \A c \in Listed : NodeOf[c] \in Nodes \ (Hung \cup Down) => shown[c] # Failed
=============================================================================
