------------------------- MODULE ContractOps_proofs -------------------------
(***************************************************************************)
(* Proofs about ContractOps, for all calls, requests, bounds and faults.   *)
(***************************************************************************)
EXTENDS ContractOps, SequenceTheorems, TLAPS

(* How far the node can be at each stage of a call, and what the call      *)
(* knows by then.                                                          *)
CallsKeepStep ==
    \A k \in Calls :
        /\ request[k] = None <=> pc[k] = "new"
        /\ pc[k] \in {"new", "lookup", "post"} => tx[k] = "none"
        /\ pc[k] = "sign" => tx[k] = "posted"
        /\ pc[k] = "wait" => tx[k] # "none"
        /\ pc[k] = "lookup" => Op(k) \in {"add_activity", "add_admin"}
        /\ pc[k] = "post" /\ Op(k) \notin {"deploy", "create_did"} => contract[k] # None
        /\ tx[k] # "none" => Op(k) # "create_did"

(* What a transaction that is done has left on the node.                   *)
DoneIsOnNode ==
    \A k \in Calls : tx[k] = "done" =>
        /\ contract[k] # None
        /\ Op(k) = "deploy" => owner[contract[k]] = request[k].admin
        /\ Op(k) # "deploy" => Executed(k) /\ owner[contract[k]] # None

(* A call that is about to record an outcome has one.                      *)
OutcomeIsReal ==
    \A k \in Calls : pc[k] = "persist" =>
        /\ Op(k) \in {"add_activity", "deploy", "create_did"}
        /\ Op(k) = "create_did" => request[k].admin \in mintedBy[request[k].user]
        /\ Op(k) # "create_did" => tx[k] = "done"

(* Rows of activities are of calls whose execution is done.                *)
RowsAreDone ==
    \A a \in Admins, x \in Activities :
        LET k == activities[a][x] IN
        k # None =>
            /\ tx[k] = "done"
            /\ request[k] = [op |-> "add_activity", admin |-> a, activity |-> x]

(* The properties are not inductive: Persist relies on what Sign returned, *)
(* Sign on what the node did, and the node on what the call posted.        *)
Operations ==
    /\ CallsKeepStep /\ DoneIsOnNode /\ OutcomeIsReal
    /\ RowsAreDone /\ RecordedIsMinted /\ AnsweredIsRecorded

(* A request has the fields of its operation.                              *)
LEMMA RequestFields ==
    ASSUME TypeOK, NEW k \in Calls, request[k] # None
    PROVE  /\ Op(k) \in {"add_activity", "add_admin", "execute", "deploy", "create_did"}
           /\ request[k].admin \in Admins
           /\ Op(k) = "add_activity" =>
                /\ request[k].activity \in Activities
                /\ request[k] = [op |-> "add_activity", admin |-> request[k].admin,
                                 activity |-> request[k].activity]
           /\ Op(k) = "deploy" => request[k].kind \in Kinds
           /\ Op(k) = "create_did" => request[k].user \in Users
<1>1. request[k] \in AllRequests
  BY RequestsAssumption DEF TypeOK
<1>2. QED
  BY <1>1 DEF AllRequests, Op

(* A database without rows and a node without transactions.                *)
LEMMA OperationsInit == Init => TypeOK /\ Operations
<1> SUFFICES ASSUME Init PROVE TypeOK /\ Operations
  OBVIOUS
<1>1. TypeOK
  <2>1. overlapped \in BOOLEAN
    BY Zenon DEF Init
  <2>2. QED
    BY <2>1, BoundsAssumption DEF Init, TypeOK, Stages, TxStages
<1>2. Operations
  BY DEF Init, Operations, CallsKeepStep, DoneIsOnNode, OutcomeIsReal, RowsAreDone,
         RecordedIsMinted, AnsweredIsRecorded
<1>3. QED
  BY <1>1, <1>2

(* Moving a call on keeps the types of the stages.                         *)
LEMMA GoesTypes ==
    ASSUME TypeOK, NEW k \in Calls, NEW from, NEW to \in Stages, Goes(k, from, to)
    PROVE  pc' \in [Calls -> Stages]
BY DEF TypeOK, Goes

(* Recording an outcome keeps the types of the tables.                     *)
LEMMA RecordTypes ==
    ASSUME TypeOK, NEW k \in Calls, request[k] # None, Record(k)
    PROVE  /\ activities' \in [Admins -> [Activities -> Calls \cup {None}]]
           /\ registered' \in [Admins -> [Kinds -> Contracts \cup {None}]]
           /\ userAdmin' \in [Users -> Admins \cup {None}]
<1>1. CASE Op(k) = "add_activity" /\ CreateActivity(k)
  BY <1>1, RequestFields DEF CreateActivity, TypeOK
<1>2. CASE Op(k) = "deploy" /\ UpsertAdminContract(k)
  <2>1. contract[k] \in Contracts \cup {None}
    BY DEF TypeOK
  <2>2. QED
    BY <1>2, <2>1, RequestFields DEF UpsertAdminContract, TypeOK
<1>3. CASE Op(k) = "create_did" /\ UpsertUserAdmin(k)
  BY <1>3, RequestFields DEF UpsertUserAdmin, TypeOK
<1>4. QED
  BY <1>1, <1>2, <1>3 DEF Record

(* Every step keeps the types.                                             *)
LEMMA TypeStep == TypeOK /\ Operations /\ [Next]_vars => TypeOK'
<1> SUFFICES ASSUME TypeOK, Operations, [Next]_vars PROVE TypeOK'
  OBVIOUS
<1> USE DEF tables, calls, nodes, Stages, TxStages, Running
<1>1. ASSUME NEW k \in Calls, Begin(k) PROVE TypeOK'
  <2>1. PICK r \in Requests :
          /\ request' = [request EXCEPT ![k] = r]
          /\ Goes(k, "new", FirstStage(r)) \/ Goes(k, "new", "error")
          /\ contract' = [contract EXCEPT ![k] = IF r.op = "execute" THEN r.contract ELSE None]
    BY <1>1 DEF Begin
  <2>2. FirstStage(r) \in Stages
    BY DEF FirstStage
  <2>3. pc' \in [Calls -> Stages]
    BY <2>1, <2>2, GoesTypes
  <2>4. r.op = "execute" => r.contract \in Contracts
    BY RequestsAssumption DEF AllRequests
  <2>5. tx[k] = "none"
    BY <2>1 DEF Goes, Operations, CallsKeepStep
  <2>6. QED
    BY <1>1, <2>1, <2>3, <2>4, <2>5 DEF TypeOK, Begin
<1>2. ASSUME NEW k \in Calls, LookupContract(k) PROVE TypeOK'
  <2>1. pc' \in [Calls -> Stages]
    BY <1>2, GoesTypes DEF LookupContract
  <2>2. registered[request[k].admin][Op(k)] \in Contracts \cup {None} /\ tx[k] = "none"
    BY <1>2, RequestFields DEF LookupContract, TypeOK, Operations, CallsKeepStep, Kinds
  <2>3. contract' \in [Calls -> Contracts \cup {None}]
        /\ \A j \in Calls : tx[j] # "none" => contract'[j] = contract[j]
    BY <1>2, <2>2 DEF LookupContract, TypeOK
  <2>4. QED
    BY <1>2, <2>1, <2>3 DEF TypeOK, LookupContract
<1>3. ASSUME NEW k \in Calls, PostTx(k) PROVE TypeOK'
  <2>1. pc' \in [Calls -> Stages]
    BY <1>3, GoesTypes DEF PostTx
  <2>2. Op(k) # "deploy" => contract[k] # None
    BY <1>3 DEF PostTx, Operations, CallsKeepStep
  <2>3. tx' \in [Calls -> TxStages]
        /\ \A j \in Calls : j # k => tx'[j] = tx[j]
    BY <1>3 DEF PostTx, TypeOK
  <2>4. QED
    BY <1>3, <2>1, <2>2, <2>3 DEF TypeOK, PostTx, Op
<1>4. ASSUME NEW k \in Calls, CreateDID(k) PROVE TypeOK'
  <2>1. pc' \in [Calls -> Stages]
    BY <1>4, GoesTypes DEF CreateDID
  <2>2. request[k].user \in Users /\ request[k].admin \in Admins
    BY <1>4, RequestFields DEF CreateDID, Operations, CallsKeepStep
  <2> DEFINE created == [mintedBy EXCEPT ![request[k].user] = @ \cup {request[k].admin}]
  <2>3. mintedBy' \in [Users -> SUBSET Admins]
    <3>1. created \in [Users -> SUBSET Admins]
      BY <2>2 DEF TypeOK
    <3>2. mintedBy' \in {mintedBy, created}
      BY <1>4 DEF CreateDID
    <3>3. QED
      BY <3>1, <3>2 DEF TypeOK
  <2>4. QED
    BY <1>4, <2>1, <2>3 DEF TypeOK, CreateDID
<1>5. ASSUME NEW k \in Calls, Sign(k) PROVE TypeOK'
  <2>1. pc' \in [Calls -> Stages]
    BY <1>5, GoesTypes DEF Sign
  <2>2. tx[k] = "posted"
    BY <1>5 DEF Sign, Goes, Operations, CallsKeepStep
  <2>3. QED
    BY <1>5, <2>1, <2>2 DEF TypeOK, Sign
<1>6. ASSUME NEW k \in Calls, SignReturns(k) \/ SignFails(k) PROVE TypeOK'
  <2>1. AfterSign(k) \in Stages
    BY DEF AfterSign
  <2>2. pc' \in [Calls -> Stages]
    BY <1>6, <2>1, GoesTypes DEF SignReturns, SignFails
  <2>3. QED
    BY <1>6, <2>2 DEF TypeOK, SignReturns, SignFails
<1>7. ASSUME NEW k \in Calls, Persist(k) PROVE TypeOK'
  <2>1. pc' \in [Calls -> Stages]
    BY <1>7, GoesTypes DEF Persist
  <2>2. request[k] # None
    BY <1>7 DEF Persist, Operations, CallsKeepStep
  <2>3. CASE Record(k)
    BY <1>7, <2>1, <2>2, <2>3, RecordTypes DEF TypeOK, Persist
  <2>4. CASE UNCHANGED tables
    BY <1>7, <2>1, <2>4 DEF TypeOK, Persist
  <2>5. QED
    BY <1>7, <2>3, <2>4 DEF Persist
<1>8. ASSUME NEW k \in Calls, ContextEnds(k) PROVE TypeOK'
  BY <1>8 DEF ContextEnds, TypeOK
<1>9. ASSUME NEW k \in Calls, NodeCommits(k) PROVE TypeOK'
  <2>1. request[k] # None
    BY <1>9 DEF NodeCommits, Operations, CallsKeepStep
  <2>2. CASE Op(k) = "deploy"
    <3>1. PICK c \in Contracts :
              /\ owner' = [owner EXCEPT ![c] = request[k].admin]
              /\ contract' = [contract EXCEPT ![k] = c]
              /\ tx' = [tx EXCEPT ![k] = "done"]
              /\ UNCHANGED <<tables, pc, request, ended, mintedBy, chain, overlapped, crashes>>
      BY <1>9, <2>2 DEF NodeCommits
    <3>2. owner' \in [Contracts -> Admins \cup {None}]
      BY <2>1, <3>1, RequestFields DEF TypeOK
    <3>3. contract' \in [Calls -> Contracts \cup {None}] /\ tx' \in [Calls -> TxStages]
      BY <3>1 DEF TypeOK, TxStages
    <3>4. ASSUME NEW j \in Calls, tx'[j] # "none", request'[j].op # "deploy"
          PROVE  contract'[j] # None
      <4>1. j # k
        BY <2>2, <3>1, <3>4 DEF Op
      <4>2. QED
        BY <3>1, <3>4, <4>1 DEF TypeOK
    <3>5. QED
      BY <3>1, <3>2, <3>3, <3>4 DEF TypeOK
  <2>3. CASE Op(k) # "deploy"
    <3>1. chain' \in Seq(Calls)
      BY <1>9, <2>3, AppendProperties DEF NodeCommits, TypeOK
    <3>2. QED
      BY <1>9, <2>3, <3>1 DEF NodeCommits, TypeOK
  <2>4. QED
    BY <2>2, <2>3
<1>10. ASSUME NEW k \in Calls, NodeRefuses(k) PROVE TypeOK'
  BY <1>10 DEF NodeRefuses, TypeOK
<1>11. CASE Restart
  BY <1>11, BoundsAssumption DEF Restart, TypeOK
<1>12. CASE UNCHANGED vars
  BY <1>12 DEF vars, TypeOK
<1>13. QED
  BY <1>1, <1>2, <1>3, <1>4, <1>5, <1>6, <1>7, <1>8, <1>9, <1>10, <1>11, <1>12
     DEF Next, Call, Node, Idle

(* What has happened stays: requests, transactions that are done, their    *)
(* executions, what was minted, and that something was recorded.           *)
History ==
    /\ \A j \in Calls :
          /\ request[j] # None => request'[j] = request[j]
          /\ tx[j] = "done" => tx'[j] = "done" /\ contract'[j] = contract[j]
          /\ Executed(j) => Executed(j)'
    /\ \A c \in Contracts : owner[c] # None => owner'[c] = owner[c]
    /\ \A u \in Users : mintedBy[u] \subseteq mintedBy'[u]
    /\ \A a \in Admins, n \in Kinds : registered[a][n] # None => registered'[a][n] # None
    /\ \A a \in Admins, x \in Activities : activities[a][x] # None => activities'[a][x] # None

(* Appending to the chain keeps what is on it and adds the call.           *)
LEMMA AppendExecutes ==
    ASSUME TypeOK, NEW k \in Calls, chain' = Append(chain, k)
    PROVE  Executed(k)' /\ \A j \in Calls : Executed(j) => Executed(j)'
<1>1. chain \in Seq(Calls) /\ Len(chain) \in Nat /\ DOMAIN chain = 1 .. Len(chain)
  BY DEF TypeOK
<1>2. /\ DOMAIN chain' = 1 .. Len(chain) + 1
      /\ \A i \in 1 .. Len(chain) : chain'[i] = chain[i]
      /\ chain'[Len(chain) + 1] = k
  BY <1>1
<1>3. QED
  BY <1>1, <1>2 DEF Executed

(* A row, once there, is only replaced by another.                         *)
LEMMA RecordHistory ==
    ASSUME TypeOK, NEW k \in Calls, request[k] # None, Record(k),
           Op(k) = "deploy" => contract[k] # None
    PROVE  /\ \A a \in Admins, n \in Kinds :
                 registered[a][n] # None => registered'[a][n] # None
           /\ \A a \in Admins, x \in Activities :
                 activities[a][x] # None => activities'[a][x] # None
<1>1. CASE Op(k) = "add_activity" /\ CreateActivity(k)
  BY <1>1, RequestFields, NoneAssumption DEF CreateActivity, TypeOK
<1>2. CASE Op(k) = "deploy" /\ UpsertAdminContract(k)
  BY <1>2, RequestFields DEF UpsertAdminContract, TypeOK
<1>3. CASE Op(k) = "create_did" /\ UpsertUserAdmin(k)
  BY <1>3 DEF UpsertUserAdmin
<1>4. QED
  BY <1>1, <1>2, <1>3 DEF Record

(* Every step only adds to the history.                                    *)
LEMMA HistoryStep == TypeOK /\ Operations /\ [Next]_vars => History
<1> SUFFICES ASSUME TypeOK, Operations, [Next]_vars PROVE History
  OBVIOUS
<1> USE DEF tables, calls, nodes
<1>1. ASSUME NEW k \in Calls, Begin(k) PROVE History
  <2>1. pc[k] = "new" /\ request[k] = None /\ tx[k] = "none"
    BY <1>1 DEF Begin, Goes, Operations, CallsKeepStep
  <2>2. PICK r \in Requests : request' = [request EXCEPT ![k] = r]
    BY <1>1 DEF Begin
  <2>3. QED
    BY <1>1, <2>1, <2>2 DEF Begin, History, TypeOK, Executed
<1>2. ASSUME NEW k \in Calls, LookupContract(k) PROVE History
  BY <1>2 DEF LookupContract, History, TypeOK, Executed, Operations, CallsKeepStep
<1>3. ASSUME NEW k \in Calls, PostTx(k) \/ Sign(k) PROVE History
  <2>1. tx[k] # "done"
    BY <1>3 DEF PostTx, Sign, Goes, Operations, CallsKeepStep
  <2>2. \A j \in Calls : j # k => tx'[j] = tx[j]
    BY <1>3 DEF PostTx, Sign, TypeOK
  <2>3. QED
    BY <1>3, <2>1, <2>2 DEF PostTx, Sign, History, TypeOK, Executed
<1>4. ASSUME NEW k \in Calls, CreateDID(k) PROVE History
  <2> DEFINE created == [mintedBy EXCEPT ![request[k].user] = @ \cup {request[k].admin}]
  <2>1. mintedBy' \in {mintedBy, created}
    BY <1>4 DEF CreateDID
  <2>2. \A u \in Users : mintedBy[u] \subseteq created[u]
    BY DEF TypeOK
  <2>3. \A u \in Users : mintedBy[u] \subseteq mintedBy'[u]
    BY <2>1, <2>2
  <2>4. QED
    BY <1>4, <2>3 DEF CreateDID, History, Executed
<1>5. ASSUME NEW k \in Calls, SignReturns(k) \/ SignFails(k) \/ ContextEnds(k) PROVE History
  BY <1>5 DEF SignReturns, SignFails, ContextEnds, History, Executed
<1>6. ASSUME NEW k \in Calls, Persist(k) PROVE History
  <2>1. request[k] # None /\ (Op(k) = "deploy" => contract[k] # None)
    BY <1>6 DEF Persist, Operations, CallsKeepStep, OutcomeIsReal, DoneIsOnNode
  <2>2. CASE Record(k)
    BY <1>6, <2>1, <2>2, RecordHistory DEF Persist, History, Executed
  <2>3. CASE UNCHANGED tables
    BY <1>6, <2>3 DEF Persist, History, Executed
  <2>4. QED
    BY <1>6, <2>2, <2>3 DEF Persist
<1>7. ASSUME NEW k \in Calls, NodeCommits(k) PROVE History
  <2>1. CASE Op(k) = "deploy"
    BY <1>7, <2>1 DEF NodeCommits, History, TypeOK, Executed
  <2>2. CASE Op(k) # "deploy"
    <3>1. \A j \in Calls : Executed(j) => Executed(j)'
      BY <1>7, <2>2, AppendExecutes DEF NodeCommits
    <3>2. QED
      BY <1>7, <2>2, <3>1 DEF NodeCommits, History, TypeOK
  <2>3. QED
    BY <2>1, <2>2
<1>8. ASSUME NEW k \in Calls, NodeRefuses(k) PROVE History
  BY <1>8 DEF NodeRefuses, History, TypeOK, Executed
<1>9. CASE Restart
  BY <1>9 DEF Restart, History, Executed
<1>10. CASE UNCHANGED vars
  BY <1>10 DEF vars, History, Executed
<1>11. QED
  BY <1>1, <1>2, <1>3, <1>4, <1>5, <1>6, <1>7, <1>8, <1>9, <1>10
     DEF Next, Call, Node, Idle

(* Every step keeps the stages of calls and transactions together.         *)
LEMMA CallsStep == TypeOK /\ Operations /\ [Next]_vars => CallsKeepStep'
<1> SUFFICES ASSUME TypeOK, CallsKeepStep, [Next]_vars PROVE CallsKeepStep'
  BY DEF Operations
<1> USE DEF CallsKeepStep, TypeOK, Op, Goes, tables, calls, nodes
<1>1. ASSUME NEW k \in Calls, Begin(k) PROVE CallsKeepStep'
  <2>1. PICK r \in Requests :
          /\ request' = [request EXCEPT ![k] = r]
          /\ Goes(k, "new", FirstStage(r)) \/ Goes(k, "new", "error")
          /\ contract' = [contract EXCEPT ![k] = IF r.op = "execute" THEN r.contract ELSE None]
    BY <1>1 DEF Begin
  <2>2. r # None /\ r \in AllRequests
    BY RequestsAssumption, NoneAssumption
  <2>3. r.op \notin {"deploy", "create_did", "add_activity", "add_admin"} =>
            r.op = "execute" /\ r.contract # None
    BY <2>2, NoneAssumption DEF AllRequests
  <2>4. QED
    BY <1>1, <2>1, <2>2, <2>3 DEF Begin, FirstStage
<1>2. ASSUME NEW k \in Calls, LookupContract(k) PROVE CallsKeepStep'
  BY <1>2 DEF LookupContract
<1>3. ASSUME NEW k \in Calls, PostTx(k) PROVE CallsKeepStep'
  BY <1>3 DEF PostTx
<1>4. ASSUME NEW k \in Calls, CreateDID(k) PROVE CallsKeepStep'
  BY <1>4 DEF CreateDID
<1>5. ASSUME NEW k \in Calls, Sign(k) PROVE CallsKeepStep'
  BY <1>5 DEF Sign
<1>6. ASSUME NEW k \in Calls, SignReturns(k) \/ SignFails(k) PROVE CallsKeepStep'
  BY <1>6 DEF SignReturns, SignFails, AfterSign
<1>7. ASSUME NEW k \in Calls, Persist(k) PROVE CallsKeepStep'
  BY <1>7 DEF Persist
<1>8. ASSUME NEW k \in Calls, ContextEnds(k) PROVE CallsKeepStep'
  BY <1>8 DEF ContextEnds
<1>9. ASSUME NEW k \in Calls, NodeCommits(k) PROVE CallsKeepStep'
  BY <1>9, NoneAssumption DEF NodeCommits
<1>10. ASSUME NEW k \in Calls, NodeRefuses(k) PROVE CallsKeepStep'
  BY <1>10 DEF NodeRefuses
<1>11. CASE Restart
  BY <1>11 DEF Restart, Running
<1>12. CASE UNCHANGED vars
  BY <1>12 DEF vars
<1>13. QED
  BY <1>1, <1>2, <1>3, <1>4, <1>5, <1>6, <1>7, <1>8, <1>9, <1>10, <1>11, <1>12
     DEF Next, Call, Node, Idle

(* Who can finish a transaction, reach the last step, answer 200 or change *)
(* a table.                                                                *)
Causes ==
    /\ \A j \in Calls :
          /\ tx'[j] = "done" => tx[j] = "done" \/ NodeCommits(j)
          /\ pc'[j] = "persist" => pc[j] = "persist" \/ CreateDID(j) \/ SignReturns(j)
          /\ pc'[j] = "ok" => pc[j] = "ok" \/ SignReturns(j) \/ Persist(j)
    /\ UNCHANGED tables \/ \E k \in Calls : Persist(k) /\ Record(k)

(* Every step changes these only in those ways.                            *)
LEMMA CausesStep == TypeOK /\ [Next]_vars => Causes
<1> SUFFICES ASSUME TypeOK, [Next]_vars PROVE Causes
  OBVIOUS
<1> USE DEF TypeOK, Causes, Goes, calls, nodes
<1>1. ASSUME NEW k \in Calls, Begin(k) PROVE Causes
  <2>1. PICK r \in Requests : Goes(k, "new", FirstStage(r)) \/ Goes(k, "new", "error")
    BY <1>1 DEF Begin
  <2>2. QED
    BY <1>1, <2>1 DEF Begin, FirstStage
<1>2. ASSUME NEW k \in Calls, LookupContract(k) PROVE Causes
  BY <1>2 DEF LookupContract
<1>3. ASSUME NEW k \in Calls, PostTx(k) \/ Sign(k) PROVE Causes
  BY <1>3 DEF PostTx, Sign
<1>4. ASSUME NEW k \in Calls, CreateDID(k) PROVE Causes
  <2>1. UNCHANGED tables /\ tx' = tx
        /\ \A j \in Calls : pc'[j] = pc[j] \/ (j = k /\ pc'[j] \in {"persist", "error"})
    BY <1>4 DEF CreateDID
  <2>2. QED
    BY <1>4, <2>1
<1>5. ASSUME NEW k \in Calls, SignReturns(k) \/ SignFails(k) PROVE Causes
  <2>1. UNCHANGED tables /\ tx' = tx
        /\ \A j \in Calls : pc'[j] = pc[j] \/ (j = k /\ (SignReturns(k) \/ pc'[j] = "error"))
    BY <1>5 DEF SignReturns, SignFails
  <2>2. QED
    BY <2>1
<1>6. ASSUME NEW k \in Calls, Persist(k) PROVE Causes
  <2>1. tx' = tx /\ (Record(k) \/ UNCHANGED tables)
        /\ \A j \in Calls : pc'[j] = pc[j] \/ (j = k /\ pc'[j] \in {"ok", "error"})
    BY <1>6 DEF Persist
  <2>2. QED
    BY <1>6, <2>1
<1>7. ASSUME NEW k \in Calls, ContextEnds(k) PROVE Causes
  BY <1>7 DEF ContextEnds
<1>8. ASSUME NEW k \in Calls, NodeCommits(k) PROVE Causes
  <2>1. UNCHANGED tables /\ pc' = pc /\ \A j \in Calls : tx'[j] = tx[j] \/ j = k
    BY <1>8 DEF NodeCommits
  <2>2. QED
    BY <1>8, <2>1
<1>9. ASSUME NEW k \in Calls, NodeRefuses(k) PROVE Causes
  BY <1>9 DEF NodeRefuses
<1>10. CASE Restart
  BY <1>10 DEF Restart
<1>11. CASE UNCHANGED vars
  BY <1>11 DEF vars
<1>12. QED
  BY <1>1, <1>2, <1>3, <1>4, <1>5, <1>6, <1>7, <1>8, <1>9, <1>10, <1>11
     DEF Next, Call, Node, Idle

(* A transaction becomes done with its execution or its contract.          *)
LEMMA DoneStep ==
    TypeOK /\ Operations /\ History /\ Causes => DoneIsOnNode'
<1> SUFFICES ASSUME TypeOK, Operations, History, Causes,
                    NEW k \in Calls, tx'[k] = "done"
             PROVE  (/\ contract[k] # None
                     /\ Op(k) = "deploy" => owner[contract[k]] = request[k].admin
                     /\ Op(k) # "deploy" => Executed(k) /\ owner[contract[k]] # None)'
  BY DEF DoneIsOnNode
<1>1. tx[k] # "none" /\ request[k] # None /\ request'[k] = request[k] /\ Op(k)' = Op(k)
  BY DEF Causes, NodeCommits, Operations, CallsKeepStep, History, Op
<1>2. CASE tx[k] = "done"
  <2>1. contract'[k] = contract[k] /\ contract[k] \in Contracts
    BY <1>2 DEF History, TypeOK, Operations, DoneIsOnNode
  <2>2. request[k].admin # None
    BY <1>1, RequestFields, NoneAssumption
  <2>3. QED
    BY <1>1, <1>2, <2>1, <2>2 DEF Operations, DoneIsOnNode, History
<1>3. CASE NodeCommits(k) /\ Op(k) = "deploy"
  BY <1>1, <1>3, NoneAssumption DEF NodeCommits, TypeOK
<1>4. CASE NodeCommits(k) /\ Op(k) # "deploy"
  <2>1. contract[k] # None /\ owner[contract[k]] # None
    BY <1>1, <1>4 DEF NodeCommits, TypeOK, Op
  <2>2. Executed(k)' /\ contract' = contract /\ owner' = owner
    BY <1>4, AppendExecutes DEF NodeCommits
  <2>3. QED
    BY <1>1, <1>4, <2>1, <2>2
<1>5. QED
  BY <1>2, <1>3, <1>4 DEF Causes

(* A call reaches its last step with an outcome.                           *)
LEMMA OutcomeStep ==
    TypeOK /\ Operations /\ History /\ Causes => OutcomeIsReal'
<1> SUFFICES ASSUME TypeOK, Operations, History, Causes,
                    NEW k \in Calls, pc'[k] = "persist"
             PROVE  (/\ Op(k) \in {"add_activity", "deploy", "create_did"}
                     /\ Op(k) = "create_did" => request[k].admin \in mintedBy[request[k].user]
                     /\ Op(k) # "create_did" => tx[k] = "done")'
  BY DEF OutcomeIsReal
<1>1. pc[k] = "persist" \/ CreateDID(k) \/ SignReturns(k)
  BY DEF Causes
<1>2. request[k] # None /\ request'[k] = request[k] /\ Op(k)' = Op(k)
  BY <1>1 DEF CreateDID, SignReturns, Goes, Operations, CallsKeepStep, History, Op
<1>3. CASE pc[k] = "persist"
  <2>1. Op(k) = "create_did" => mintedBy[request[k].user] \subseteq mintedBy'[request[k].user]
    BY <1>2, RequestFields DEF History
  <2>2. QED
    BY <1>2, <1>3, <2>1 DEF Operations, OutcomeIsReal, History
<1>4. CASE CreateDID(k)
  <2>1. request[k].user \in Users
    BY <1>2, <1>4, RequestFields DEF CreateDID
  <2>2. mintedBy' = [mintedBy EXCEPT ![request[k].user] = @ \cup {request[k].admin}]
    BY <1>4 DEF CreateDID, Goes, TypeOK
  <2>3. QED
    BY <1>2, <1>4, <2>1, <2>2 DEF CreateDID, TypeOK
<1>5. CASE SignReturns(k)
  <2>1. tx[k] = "done" /\ tx' = tx /\ Op(k) \in {"add_activity", "deploy"}
    BY <1>5 DEF SignReturns, Goes, TypeOK, AfterSign, nodes
  <2>2. QED
    BY <1>2, <2>1
<1>6. QED
  BY <1>1, <1>3, <1>4, <1>5

(* What recording an outcome does to the tables.                           *)
LEMMA RecordEffect ==
    ASSUME TypeOK, NEW k \in Calls, request[k] # None, Record(k)
    PROVE  /\ \A a \in Admins, x \in Activities :
                 \/ activities'[a][x] = activities[a][x]
                 \/ /\ activities'[a][x] = k
                    /\ request[k] = [op |-> "add_activity", admin |-> a, activity |-> x]
           /\ \A a \in Admins, n \in Kinds :
                 \/ registered'[a][n] = registered[a][n]
                 \/ /\ registered'[a][n] = contract[k]
                    /\ Op(k) = "deploy" /\ request[k].admin = a
           /\ \A u \in Users :
                 \/ userAdmin'[u] = userAdmin[u]
                 \/ /\ userAdmin[u] = None /\ userAdmin'[u] = request[k].admin
                    /\ Op(k) = "create_did" /\ request[k].user = u
<1>1. CASE Op(k) = "add_activity" /\ CreateActivity(k)
  BY <1>1, RequestFields DEF CreateActivity, TypeOK
<1>2. CASE Op(k) = "deploy" /\ UpsertAdminContract(k)
  BY <1>2, RequestFields DEF UpsertAdminContract, TypeOK
<1>3. CASE Op(k) = "create_did" /\ UpsertUserAdmin(k)
  BY <1>3, RequestFields DEF UpsertUserAdmin, TypeOK
<1>4. QED
  BY <1>1, <1>2, <1>3 DEF Record

(* Rows of activities are only written for executions that are done.       *)
LEMMA RowsStep ==
    TypeOK /\ Operations /\ History /\ Causes => RowsAreDone'
<1> SUFFICES ASSUME TypeOK, Operations, History, Causes,
                    NEW a \in Admins, NEW x \in Activities, activities'[a][x] # None
             PROVE  LET k == activities'[a][x] IN
                    /\ tx'[k] = "done"
                    /\ request'[k] = [op |-> "add_activity", admin |-> a, activity |-> x]
  BY DEF RowsAreDone
<1>1. CASE activities'[a][x] = activities[a][x]
  <2>1. activities[a][x] \in Calls /\ tx[activities[a][x]] = "done"
        /\ request[activities[a][x]] # None
        /\ request[activities[a][x]] = [op |-> "add_activity", admin |-> a, activity |-> x]
    BY <1>1 DEF TypeOK, Operations, RowsAreDone, CallsKeepStep
  <2>2. QED
    BY <1>1, <2>1 DEF History
<1>2. CASE activities'[a][x] # activities[a][x]
  <2>1. PICK k \in Calls : Persist(k) /\ Record(k)
    BY <1>2 DEF Causes, tables
  <2>2. pc[k] = "persist" /\ request[k] # None
    BY <2>1 DEF Persist, Operations, CallsKeepStep
  <2>3. /\ activities'[a][x] = k
        /\ request[k] = [op |-> "add_activity", admin |-> a, activity |-> x]
    BY <1>2, <2>1, <2>2, RecordEffect
  <2>4. tx[k] = "done"
    BY <2>2, <2>3 DEF Operations, OutcomeIsReal, Op
  <2>5. QED
    BY <2>2, <2>3, <2>4 DEF History
<1>3. QED
  BY <1>1, <1>2

(* Contracts and users are only recorded once they exist.                  *)
LEMMA RecordedStep ==
    TypeOK /\ Operations /\ History /\ Causes => RecordedIsMinted'
<1> SUFFICES ASSUME TypeOK, Operations, History, Causes PROVE RecordedIsMinted'
  OBVIOUS
<1>1. CASE UNCHANGED tables
  <2>1. ASSUME NEW a \in Admins, NEW n \in Kinds, registered[a][n] # None
        PROVE  owner'[registered[a][n]] = a
    <3>1. registered[a][n] \in Contracts /\ owner[registered[a][n]] = a /\ a # None
      BY <2>1, NoneAssumption DEF TypeOK, Operations, RecordedIsMinted
    <3>2. QED
      BY <3>1 DEF History
  <2>2. QED
    BY <1>1, <2>1 DEF tables, Operations, RecordedIsMinted, History
<1>2. ASSUME NEW k \in Calls, Persist(k), Record(k) PROVE RecordedIsMinted'
  <2>1. pc[k] = "persist" /\ request[k] # None
    BY <1>2 DEF Persist, Operations, CallsKeepStep
  <2>2. ASSUME NEW a \in Admins, NEW n \in Kinds, registered'[a][n] # None
        PROVE  owner'[registered'[a][n]] = a
    <3>1. a # None
      BY NoneAssumption
    <3>2. CASE registered'[a][n] = registered[a][n]
      BY <2>2, <3>1, <3>2 DEF TypeOK, Operations, RecordedIsMinted, History
    <3>3. CASE registered'[a][n] # registered[a][n]
      <4>1. registered'[a][n] = contract[k] /\ Op(k) = "deploy" /\ request[k].admin = a
        BY <1>2, <2>1, <3>3, RecordEffect
      <4>2. owner[contract[k]] = a /\ contract[k] \in Contracts
        BY <2>1, <4>1 DEF TypeOK, Operations, OutcomeIsReal, DoneIsOnNode
      <4>3. QED
        BY <3>1, <4>1, <4>2 DEF History
    <3>4. QED
      BY <3>2, <3>3
  <2>3. ASSUME NEW u \in Users, userAdmin'[u] # None
        PROVE  userAdmin'[u] \in mintedBy'[u]
    <3>1. CASE userAdmin'[u] = userAdmin[u]
      BY <2>3, <3>1 DEF Operations, RecordedIsMinted, History
    <3>2. CASE userAdmin'[u] # userAdmin[u]
      BY <1>2, <2>1, <3>2, RecordEffect DEF Operations, OutcomeIsReal, History
    <3>3. QED
      BY <3>1, <3>2
  <2>4. QED
    BY <2>2, <2>3 DEF RecordedIsMinted
<1>3. QED
  BY <1>1, <1>2 DEF Causes

(* A call answers 200 after recording its outcome, and the record stays.   *)
LEMMA AnsweredStep ==
    TypeOK /\ Operations /\ History /\ Causes => AnsweredIsRecorded'
<1> SUFFICES ASSUME TypeOK, Operations, History, Causes, NEW k \in Calls, pc'[k] = "ok"
             PROVE  (/\ Op(k) = "deploy" =>
                          registered[request[k].admin][request[k].kind] # None
                     /\ Op(k) = "add_activity" =>
                          activities[request[k].admin][request[k].activity] # None)'
  BY DEF AnsweredIsRecorded
<1>1. pc[k] = "ok" \/ SignReturns(k) \/ Persist(k)
  BY DEF Causes
<1>2. request[k] # None /\ request'[k] = request[k] /\ Op(k)' = Op(k)
  BY <1>1 DEF SignReturns, Persist, Goes, Operations, CallsKeepStep, History, Op
<1>3. CASE pc[k] = "ok"
  <2>1. CASE Op(k) = "deploy"
    <3>1. request[k].admin \in Admins /\ request[k].kind \in Kinds
      BY <1>2, <2>1, RequestFields
    <3>2. registered[request[k].admin][request[k].kind] # None
      BY <1>3, <2>1 DEF Operations, AnsweredIsRecorded
    <3>3. registered'[request[k].admin][request[k].kind] # None
      BY <3>1, <3>2 DEF History
    <3>4. QED
      BY <1>2, <2>1, <3>3
  <2>2. CASE Op(k) = "add_activity"
    <3>1. request[k].admin \in Admins /\ request[k].activity \in Activities
      BY <1>2, <2>2, RequestFields
    <3>2. activities[request[k].admin][request[k].activity] # None
      BY <1>3, <2>2 DEF Operations, AnsweredIsRecorded
    <3>3. activities'[request[k].admin][request[k].activity] # None
      BY <3>1, <3>2 DEF History
    <3>4. QED
      BY <1>2, <2>2, <3>3
  <2>3. QED
    BY <1>2, <2>1, <2>2
<1>4. CASE SignReturns(k)
  BY <1>2, <1>4 DEF SignReturns, Goes, TypeOK, AfterSign
<1>5. CASE Persist(k)
  <2>1. CASE Op(k) = "create_did"
    BY <1>2, <2>1
  <2>2. CASE Op(k) = "deploy"
    <3>1. UpsertAdminContract(k) /\ contract[k] # None
      BY <1>5, <2>2 DEF Persist, Goes, TypeOK, Record, Operations, OutcomeIsReal, DoneIsOnNode
    <3>2. QED
      BY <1>2, <2>2, <3>1, RequestFields DEF UpsertAdminContract, TypeOK
  <2>3. CASE Op(k) = "add_activity"
    <3>1. CreateActivity(k) /\ k # None
      BY <1>5, <2>3, NoneAssumption DEF Persist, Goes, TypeOK, Record
    <3>2. QED
      BY <1>2, <2>3, <3>1, RequestFields DEF CreateActivity, TypeOK
  <2>4. QED
    BY <1>5, <2>1, <2>2, <2>3 DEF Persist, Operations, OutcomeIsReal
<1>6. QED
  BY <1>1, <1>3, <1>4, <1>5

(* The invariant of every behaviour.                                       *)
LEMMA OperationsInvariant == Spec => [](TypeOK /\ Operations)
<1>1. Init => TypeOK /\ Operations
  BY OperationsInit
<1>2. TypeOK /\ Operations /\ [Next]_vars => (TypeOK /\ Operations)'
  <2>1. TypeOK /\ Operations /\ [Next]_vars => History /\ Causes /\ TypeOK' /\ CallsKeepStep'
    BY HistoryStep, CausesStep, TypeStep, CallsStep
  <2>2. QED
    BY <2>1, DoneStep, OutcomeStep, RowsStep, RecordedStep, AnsweredStep DEF Operations
<1>3. QED
  BY <1>1, <1>2, PTL DEF Spec

(* Tables, calls and nodes keep their types; in particular a transaction   *)
(* at a node always has a contract to run on (GetAdminContract's check).   *)
THEOREM TypeCorrect == Spec => []TypeOK
BY OperationsInvariant, PTL

(* However calls overlap, time out, fail or are cut short by a restart,    *)
(* every row of activities mirrors an execution on chain.                  *)
THEOREM Mirror == Spec => []MirrorIsOnChain
<1>1. TypeOK /\ Operations => MirrorIsOnChain
  BY DEF Operations, RowsAreDone, DoneIsOnNode, MirrorIsOnChain, Op, TypeOK
<1>2. QED
  BY <1>1, OperationsInvariant, PTL

(* Every registered contract, and every recorded user, exists on the node  *)
(* of the admin it is recorded for.                                        *)
THEOREM Recorded == Spec => []RecordedIsMinted
BY OperationsInvariant, PTL DEF Operations

(* A deployment or an activity that was answered 200 is in the database.   *)
THEOREM Answered == Spec => []AnsweredIsRecorded
BY OperationsInvariant, PTL DEF Operations

(* The first admin recorded for a user stays, whoever creates the same DID *)
(* again.                                                                  *)
THEOREM FirstAdmin == Spec => UserAdminStays
<1>1. ASSUME TypeOK, Operations, Causes, NEW u \in Users, userAdmin[u] # None
      PROVE  userAdmin'[u] = userAdmin[u]
  <2>1. CASE UNCHANGED tables
    BY <2>1 DEF tables
  <2>2. ASSUME NEW k \in Calls, Persist(k), Record(k) PROVE userAdmin'[u] = userAdmin[u]
    <3>1. request[k] # None
      BY <1>1, <2>2 DEF Persist, Operations, CallsKeepStep
    <3>2. QED
      BY <1>1, <2>2, <3>1, RecordEffect
  <2>3. QED
    BY <1>1, <2>1, <2>2 DEF Causes
<1>2. TypeOK /\ Operations /\ [Next]_vars =>
        [\A u \in Users : userAdmin[u] # None => userAdmin'[u] = userAdmin[u]]_vars
  BY <1>1, CausesStep
<1>3. QED
  BY <1>2, OperationsInvariant, PTL DEF Spec, UserAdminStays

(***************************************************************************)
(* Calls made in turn.                                                     *)
(***************************************************************************)

AnsweredActivity(k) == pc[k] = "ok" /\ Op(k) = "add_activity"

(* Of calls made in turn one runs at most, and if it has been executed, it *)
(* was after every activity that has been answered.  What is on chain is   *)
(* done, so a call that begins is not there yet.                           *)
InTurn ==
    /\ \A j, k \in Calls : pc[j] \in Running /\ pc[k] \in Running => j = k
    /\ \A k \in Calls : Executed(k) => tx[k] = "done"
    /\ \A k \in Calls : AnsweredActivity(k) => Executed(k)
    /\ \A j, k \in Calls :
          pc[j] \in Running /\ AnsweredActivity(k) /\ Executed(j) => LaterOnChain(j, k)
    /\ MirrorIsLastAnswered

(* A step that leaves rows and chain alone, starts no call and answers 200 *)
(* to no activity keeps InTurn.                                            *)
LEMMA InTurnQuiet ==
    ASSUME TypeOK, Operations, InTurn, History, UNCHANGED <<activities, chain>>,
           \A j \in Calls :
               /\ pc'[j] \in Running => pc[j] \in Running
               /\ pc'[j] = "ok" => pc[j] = "ok" \/ (Op(j) # "add_activity" /\ pc[j] # "new")
    PROVE  InTurn'
<1>1. ASSUME NEW j \in Calls, AnsweredActivity(j)'
      PROVE  AnsweredActivity(j) /\ request'[j] = request[j]
  <2>1. request'[j] = request[j]
    BY <1>1 DEF AnsweredActivity, Operations, CallsKeepStep, History
  <2>2. QED
    BY <1>1, <2>1 DEF AnsweredActivity, Op
<1>2. \A j \in Calls : Executed(j)' <=> Executed(j)
  BY DEF Executed
<1>3. \A j, k : LaterOnChain(j, k)' <=> LaterOnChain(j, k)
  BY DEF LaterOnChain
<1>4. MirrorIsLastAnswered'
  <2>1. ASSUME NEW j \in Calls, AnsweredActivity(j)'
        PROVE  LET i == activities'[request'[j].admin][request'[j].activity] IN
               i = j \/ LaterOnChain(i, j)
    <3>1. AnsweredActivity(j) /\ request'[j] = request[j]
      BY <1>1, <2>1
    <3>2. QED
      BY <3>1 DEF AnsweredActivity, InTurn, MirrorIsLastAnswered
  <2>2. QED
    BY <1>3, <2>1 DEF MirrorIsLastAnswered, AnsweredActivity
<1>5. \A k \in Calls : Executed(k)' => tx'[k] = "done"
  BY <1>2 DEF InTurn, History
<1>6. QED
  BY <1>1, <1>2, <1>3, <1>4, <1>5 DEF InTurn

(* An execution keeps the order of those before it and comes after them.   *)
LEMMA AppendLater ==
    ASSUME TypeOK, NEW k \in Calls, chain' = Append(chain, k)
    PROVE  /\ \A i, j : LaterOnChain(i, j) => LaterOnChain(i, j)'
           /\ \A j \in Calls : Executed(j) => LaterOnChain(k, j)'
           /\ \A j \in Calls : Executed(j)' => Executed(j) \/ j = k
<1>1. chain \in Seq(Calls) /\ Len(chain) \in Nat /\ DOMAIN chain = 1 .. Len(chain)
  BY DEF TypeOK
<1>2. /\ DOMAIN chain' = 1 .. Len(chain) + 1
      /\ \A i \in 1 .. Len(chain) : chain'[i] = chain[i]
      /\ chain'[Len(chain) + 1] = k
  BY <1>1
<1>3. QED
  BY <1>1, <1>2 DEF Executed, LaterOnChain

(* A call that begins is not on chain yet.                                 *)
LEMMA InTurnBegin ==
    ASSUME TypeOK, Operations, InTurn, NEW k \in Calls, Begin(k), ~overlapped'
    PROVE  InTurn'
<1> USE DEF tables, nodes
<1>1. pc[k] = "new" /\ ~ Executed(k)
  BY DEF Begin, Goes, InTurn, Operations, CallsKeepStep
<1>2. PICK r \in Requests : request' = [request EXCEPT ![k] = r]
  BY DEF Begin
<1>3. \A j \in Calls : j # k => pc'[j] = pc[j] /\ request'[j] = request[j]
  BY <1>2 DEF Begin, Goes, TypeOK
<1>4. pc'[k] # "ok" /\ \A j \in Calls : pc[j] \notin Running
  BY DEF Begin, Goes, TypeOK, FirstStage
<1>5. chain' = chain /\ activities' = activities /\ tx' = tx
  BY DEF Begin
<1>6. \A j \in Calls : AnsweredActivity(j)' => j # k /\ AnsweredActivity(j)
  BY <1>3, <1>4 DEF AnsweredActivity, Op
<1>7. MirrorIsLastAnswered'
  BY <1>3, <1>4, <1>5 DEF InTurn, MirrorIsLastAnswered, LaterOnChain, Op
<1>8. QED
  BY <1>1, <1>3, <1>4, <1>5, <1>6, <1>7 DEF InTurn, Executed, LaterOnChain

(* What a running call executes comes after what has been answered.        *)
LEMMA InTurnCommit ==
    ASSUME TypeOK, Operations, InTurn, NEW k \in Calls, NodeCommits(k)
    PROVE  InTurn'
<1> USE DEF tables
<1>1. /\ pc' = pc /\ request' = request /\ activities' = activities
      /\ tx[k] = "signing" /\ tx' = [tx EXCEPT ![k] = "done"]
  BY DEF NodeCommits
<1>2. CASE chain' = chain
  BY <1>1, <1>2 DEF InTurn, Executed, LaterOnChain, AnsweredActivity, Op, TypeOK,
                    MirrorIsLastAnswered
<1>3. CASE chain' = Append(chain, k)
  <2>1. \A j \in Calls : AnsweredActivity(j)' <=> AnsweredActivity(j)
    BY <1>1 DEF AnsweredActivity, Op
  <2>2. \A j \in Calls : Executed(j)' => tx'[j] = "done"
    BY <1>1, <1>3, AppendLater DEF InTurn, TypeOK
  <2>3. \A j \in Calls : AnsweredActivity(j)' => Executed(j)'
    BY <1>3, <2>1, AppendExecutes DEF InTurn
  <2>4. ASSUME NEW i \in Calls, NEW j \in Calls,
               pc[i] \in Running, AnsweredActivity(j), Executed(i)'
        PROVE  LaterOnChain(i, j)'
    BY <1>3, <2>4, AppendLater DEF InTurn
  <2>5. MirrorIsLastAnswered'
    BY <1>1, <1>3, AppendLater DEF InTurn, MirrorIsLastAnswered, Op
  <2>6. QED
    BY <1>1, <2>1, <2>2, <2>3, <2>4, <2>5 DEF InTurn
<1>4. QED
  BY <1>2, <1>3 DEF NodeCommits

(* The row a call writes is of a later execution than any answered before. *)
LEMMA InTurnPersist ==
    ASSUME TypeOK, Operations, InTurn, NEW k \in Calls, Persist(k)
    PROVE  InTurn'
<1> USE DEF nodes
<1>1. /\ pc[k] = "persist" /\ k \in Calls /\ pc[k] \in Running
      /\ request[k] # None /\ request' = request /\ chain' = chain /\ tx' = tx
      /\ pc' \in [Calls -> Stages] /\ pc'[k] \in {"ok", "error"}
      /\ \A j \in Calls : j # k => pc'[j] = pc[j]
      /\ pc'[k] = "ok" /\ Op(k) = "add_activity" => Record(k)
  BY DEF Persist, Goes, TypeOK, Running, Stages, Operations, CallsKeepStep
<1>2. \A j \in Calls : pc'[j] \notin Running
  BY <1>1 DEF InTurn, Running
<1>3. \A j \in Calls : Executed(j)' <=> Executed(j)
  BY <1>1 DEF Executed
<1>4. \A i, j : LaterOnChain(i, j)' <=> LaterOnChain(i, j)
  BY <1>1 DEF LaterOnChain
<1>5. Op(k) = "add_activity" => Executed(k)
  BY <1>1 DEF Operations, OutcomeIsReal, DoneIsOnNode
<1>6. \A j \in Calls : AnsweredActivity(j)' => Executed(j)'
  BY <1>1, <1>3, <1>5 DEF AnsweredActivity, Op, InTurn
<1>7. ASSUME NEW j \in Calls, AnsweredActivity(j)'
      PROVE  LET i == activities'[request[j].admin][request[j].activity] IN
             i = j \/ LaterOnChain(i, j)
  <2>1. request[j] # None /\ Op(j) = "add_activity"
        /\ request[j].admin \in Admins /\ request[j].activity \in Activities
    <3>1. Op(j) = "add_activity" /\ request[j] # None
      BY <1>1, <1>7 DEF AnsweredActivity, Op, Operations, CallsKeepStep
    <3>2. QED
      BY <3>1, RequestFields
  <2>2. CASE j = k
    <3>1. CreateActivity(k)
      BY <1>1, <1>7, <2>1, <2>2 DEF AnsweredActivity, Op, Record
    <3>2. QED
      BY <2>1, <2>2, <3>1 DEF CreateActivity, TypeOK
  <2>3. CASE j # k
    <3>1. AnsweredActivity(j)
      BY <1>1, <1>7, <2>3 DEF AnsweredActivity, Op
    <3>2. CASE activities'[request[j].admin][request[j].activity]
                 = activities[request[j].admin][request[j].activity]
      BY <3>1, <3>2 DEF InTurn, MirrorIsLastAnswered, AnsweredActivity
    <3>3. CASE activities'[request[j].admin][request[j].activity]
                 # activities[request[j].admin][request[j].activity]
      <4>1. Record(k)
        BY <3>3 DEF Persist, tables
      <4>2. /\ activities'[request[j].admin][request[j].activity] = k
            /\ request[k] = [op |-> "add_activity", admin |-> request[j].admin,
                             activity |-> request[j].activity]
        <5> DEFINE a == request[j].admin
                   x == request[j].activity
        <5> HIDE DEF a, x
        <5>1. a \in Admins /\ x \in Activities /\ activities'[a][x] # activities[a][x]
          BY <2>1, <3>3 DEF a, x
        <5>2. /\ activities'[a][x] = k
              /\ request[k] = [op |-> "add_activity", admin |-> a, activity |-> x]
          BY <1>1, <4>1, <5>1, RecordEffect
        <5>3. QED
          BY <5>2 DEF a, x
      <4>3. QED
        BY <1>1, <1>5, <3>1, <4>2 DEF InTurn, Op
    <3>4. QED
      BY <3>2, <3>3
  <2>4. QED
    BY <2>2, <2>3
<1>8. MirrorIsLastAnswered'
  BY <1>1, <1>4, <1>7 DEF MirrorIsLastAnswered, AnsweredActivity, Op
<1>9. \A j \in Calls : Executed(j)' => tx'[j] = "done"
  BY <1>1, <1>3 DEF InTurn
<1>10. QED
  BY <1>2, <1>6, <1>8, <1>9 DEF InTurn

(* Every step of calls made in turn keeps InTurn.                          *)
LEMMA InTurnStep ==
    ASSUME TypeOK, Operations, InTurn, [Next]_vars, ~overlapped'
    PROVE  InTurn'
<1>1. History
  BY HistoryStep
<1> USE DEF tables, calls, nodes, Running, TypeOK, Goes
<1>2. ASSUME NEW k \in Calls, LookupContract(k) \/ PostTx(k) \/ Sign(k) PROVE InTurn'
  BY <1>1, <1>2, InTurnQuiet DEF LookupContract, PostTx, Sign
<1>3. ASSUME NEW k \in Calls, CreateDID(k) PROVE InTurn'
  BY <1>1, <1>3, InTurnQuiet DEF CreateDID
<1>4. ASSUME NEW k \in Calls, SignReturns(k) \/ SignFails(k) PROVE InTurn'
  BY <1>1, <1>4, InTurnQuiet DEF SignReturns, SignFails, AfterSign
<1>5. ASSUME NEW k \in Calls, ContextEnds(k) \/ NodeRefuses(k) PROVE InTurn'
  BY <1>1, <1>5, InTurnQuiet DEF ContextEnds, NodeRefuses
<1>6. CASE Restart
  BY <1>1, <1>6, InTurnQuiet DEF Restart
<1>7. CASE UNCHANGED vars
  BY <1>1, <1>7, InTurnQuiet DEF vars
<1>8. QED
  BY <1>2, <1>3, <1>4, <1>5, <1>6, <1>7, InTurnBegin, InTurnCommit, InTurnPersist
     DEF Next, Call, Node, Idle

(* Overlapping is final.                                                   *)
LEMMA OverlapStays == [Next]_vars /\ ~overlapped' => ~overlapped
<1> USE DEF tables, calls, nodes, vars
<1>1. QED
  BY DEF Next, Call, Node, Idle, Begin, LookupContract, PostTx, CreateDID, Sign, SignReturns,
         SignFails, Persist, ContextEnds, NodeCommits, NodeRefuses, Restart

(* With requests made one after another, an activity that was answered 200 *)
(* shows in the mirror, or one executed later does.                        *)
THEOREM LastAnsweredInTurn == Spec => []MirrorInTurn
<1> DEFINE Inv == ~overlapped => InTurn
<1>1. Init => Inv
  BY DEF Init, InTurn, MirrorIsLastAnswered, AnsweredActivity, Executed, Running
<1>2. TypeOK /\ Operations /\ Inv /\ [Next]_vars => Inv'
  BY InTurnStep, OverlapStays
<1>3. Inv => MirrorInTurn
  BY DEF InTurn, MirrorInTurn
<1>4. QED
  BY <1>1, <1>2, <1>3, OperationsInvariant, PTL DEF Spec
=============================================================================
