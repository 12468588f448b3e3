------------------------ MODULE RefreshTokens_proofs ------------------------
(***************************************************************************)
(* Proofs about RefreshTokens, for all calls, users, bounds and faults.    *)
(***************************************************************************)
EXTENDS RefreshTokens, TLAPS

(* What a call is at each stage, and what it knows of its tokens.          *)
Progress(k) ==
    /\ pc[k] = "new" => op[k] = None /\ user[k] = None /\ token[k] = 0
    /\ pc[k] \in {"new", "lookup", "issue", "revoke_all", "reuse"} => fresh[k] = 0
    /\ pc[k] = "lookup" => op[k] \in {"refresh", "logout"} /\ user[k] = None
    /\ pc[k] \in {"lookup", "revoke", "reread", "load", "reuse"} => token[k] # 0
    /\ pc[k] = "issue" => op[k] \in {"login", "refresh"} /\ user[k] # None
    /\ pc[k] = "issue" /\ op[k] = "refresh" => token[k] # 0 /\ user[k] = userOf[token[k]]
    /\ pc[k] = "reread" => op[k] = "refresh"
    /\ pc[k] = "revoke" => op[k] \in {"refresh", "logout"}
    /\ pc[k] \in {"reread", "revoke"} /\ op[k] = "refresh" => fresh[k] # 0
    /\ op[k] # "refresh" /\ op[k] # "login" => fresh[k] = 0
    /\ op[k] = "refresh" /\ fresh[k] # 0 =>
           token[k] # 0 /\ token[k] < fresh[k] /\ userOf[fresh[k]] = userOf[token[k]]
    /\ pc[k] = "load" => op[k] = "refresh" /\ token[k] \in revoked
    /\ pc[k] = "reuse" =>
           op[k] = "refresh" /\ token[k] \in revoked /\ user[k] = userOf[token[k]]
    /\ pc[k] = "revoke_all" => op[k] = "logout_all" /\ user[k] # None

CallsProgress == \A k \in Calls : Progress(k)

RowsHaveUsers == \A t \in 1 .. issued : userOf[t] # None

(* A row is one call's, and a successor is that of the refresh that        *)
(* presented the token it replaces.                                        *)
FreshIsOwn == \A j, k \in Calls : fresh[j] = fresh[k] /\ fresh[j] # 0 => j = k

SuccessorIsFresh ==
    \A t \in Tokens : replacedBy[t] # 0 =>
        /\ t \in revoked
        /\ \E k \in Calls : op[k] = "refresh" /\ token[k] = t /\ fresh[k] = replacedBy[t]

(* The properties are not inductive: what a statement writes depends on    *)
(* what the call has read and issued before.                               *)
Sessions ==
    /\ CallsProgress /\ RowsHaveUsers /\ FreshIsOwn /\ SuccessorIsFresh
    /\ AnsweredIsOver /\ RevokedByOwner

(***************************************************************************)
(* What every step does to the table and to the calls.                     *)
(***************************************************************************)

(* Rows are only added; a call's request is settled when it begins, its    *)
(* user when it has read the token.                                        *)
History ==
    /\ issued <= issued' /\ revoked \subseteq revoked'
    /\ \A t \in 1 .. issued : userOf'[t] = userOf[t]
    /\ \A t \in revoked : replacedBy'[t] = replacedBy[t]
    /\ \A k \in Calls :
          /\ pc[k] # "new" => op'[k] = op[k] /\ token'[k] = token[k] /\ before'[k] = before[k]
          /\ user[k] # None \/ pc[k] = "ok" => user'[k] = user[k]
          /\ fresh[k] # 0 => fresh'[k] = fresh[k]

(* An empty ledger without calls starts with the invariant.                *)
LEMMA SessionsInit == Init => TokensTypeOK /\ Sessions
<1> SUFFICES ASSUME Init PROVE TokensTypeOK /\ Sessions
  OBVIOUS
<1>1. TokensTypeOK
  <2>1. issued \in 0 .. MaxTokens /\ crashes \in 0 .. MaxCrashes /\ 0 \in 0 .. issued
    BY BoundsAssumption DEF Init
  <2>2. QED
    BY <2>1, Zenon DEF Init, TokensTypeOK, Stages
<1>2. Sessions
  BY DEF Init, Sessions, CallsProgress, Progress, RowsHaveUsers, FreshIsOwn, SuccessorIsFresh,
         AnsweredIsOver, RevokedByOwner
<1>3. QED
  BY <1>1, <1>2

(* A step that adds a row keeps the ranges.                                *)
LEMMA InsertTypes ==
    ASSUME TokensTypeOK, NEW k \in Calls, issued < MaxTokens, user[k] # None, Insert(k)
    PROVE  /\ issued' \in 0 .. MaxTokens /\ issued' = issued + 1
           /\ userOf' \in [Tokens -> Users \cup {None}]
           /\ revoked' \subseteq 1 .. issued'
           /\ replacedBy' \in [Tokens -> 0 .. issued']
           /\ token \in [Calls -> 0 .. issued'] /\ before \in [Calls -> 0 .. issued']
           /\ fresh \in [Calls -> 0 .. issued']
           /\ [fresh EXCEPT ![k] = issued + 1] \in [Calls -> 0 .. issued']
<1>1. issued' \in 0 .. MaxTokens /\ issued' = issued + 1 /\ 0 .. issued \subseteq 0 .. issued'
      /\ 1 .. issued \subseteq 1 .. issued' /\ issued + 1 \in 0 .. issued'
  BY BoundsAssumption DEF Insert, TokensTypeOK
<1>2. userOf' \in [Tokens -> Users \cup {None}]
  BY DEF Insert, TokensTypeOK
<1>3. revoked' \subseteq 1 .. issued' /\ replacedBy' \in [Tokens -> 0 .. issued']
  BY <1>1 DEF Insert, TokensTypeOK
<1>4. token \in [Calls -> 0 .. issued'] /\ before \in [Calls -> 0 .. issued']
      /\ fresh \in [Calls -> 0 .. issued']
  BY <1>1 DEF TokensTypeOK
<1>5. [fresh EXCEPT ![k] = issued + 1] \in [Calls -> 0 .. issued']
  BY <1>1, <1>4
<1>6. QED
  BY <1>1, <1>2, <1>3, <1>4, <1>5

(* A call that presents a token presents one that exists.                  *)
LEMMA GivenIsIssued == TokensTypeOK => Given \subseteq 1 .. issued
BY DEF TokensTypeOK, Given

(* The ways in which a call begins.                                        *)
LEMMA Beginnings ==
    ASSUME TokensTypeOK, NEW k \in Calls, Login(k) \/ Refresh(k) \/ Logout(k) \/ LogoutAll(k)
    PROVE  \E what \in Ops, u \in Users \cup {None}, t \in 0 .. issued, stage \in Stages :
              /\ Begin(k, what, u, t, stage)
              /\ \/ stage \in {"refused", "error"}
                 \/ stage = "issue" /\ what = "login" /\ u \in Users
                 \/ stage = "lookup" /\ what \in {"refresh", "logout"} /\ u = None /\ t # 0
                 \/ stage = "revoke_all" /\ what = "logout_all" /\ u \in Users
              /\ what \in {"login", "logout_all"} => u \in Users
<1>1. 0 \in 0 .. issued /\ \A t \in 1 .. issued : t \in 0 .. issued /\ t # 0
  BY DEF TokensTypeOK
<1>2. CASE Login(k)
  BY <1>1, <1>2, Zenon DEF Login, Ops, Stages, Running
<1>3. CASE Refresh(k)
  <2>1. PICK t \in 1 .. issued : Begin(k, "refresh", None, t, "lookup")
    BY <1>3, GivenIsIssued DEF Refresh
  <2>2. QED
    BY <1>1, <2>1, Zenon DEF Ops, Stages, Running
<1>4. CASE Logout(k)
  <2>1. PICK t \in 1 .. issued : Begin(k, "logout", None, t, "lookup")
    BY <1>4, GivenIsIssued DEF Logout
  <2>2. QED
    BY <1>1, <2>1, Zenon DEF Ops, Stages, Running
<1>5. CASE LogoutAll(k)
  BY <1>1, <1>5, Zenon DEF LogoutAll, Ops, Stages, Running
<1>6. QED
  BY <1>2, <1>3, <1>4, <1>5

(* Every step keeps the types.                                             *)
LEMMA TypeStep == TokensTypeOK /\ Sessions /\ [Next]_vars => TokensTypeOK'
<1> SUFFICES ASSUME TokensTypeOK, Sessions, [Next]_vars PROVE TokensTypeOK'
  OBVIOUS
<1> USE BoundsAssumption DEF table, calls
<1>1. ASSUME NEW k \in Calls, Login(k) \/ Refresh(k) \/ Logout(k) \/ LogoutAll(k)
      PROVE  TokensTypeOK'
  <2>1. PICK what \in Ops, u \in Users \cup {None}, t \in 0 .. issued, stage \in Stages :
            Begin(k, what, u, t, stage)
    BY <1>1, Beginnings
  <2>2. issued \in 0 .. issued
    BY DEF TokensTypeOK
  <2>3. QED
    BY <2>1, <2>2 DEF Begin, Goes, TokensTypeOK
<1>2. ASSUME NEW k \in Calls, Lookup(k) PROVE TokensTypeOK'
  <2>1. token[k] \in Tokens
    BY <1>2 DEF Lookup, Sessions, CallsProgress, Progress, TokensTypeOK, Tokens
  <2>2. userOf[token[k]] \in Users \cup {None}
    BY <2>1 DEF TokensTypeOK
  <2>3. user' \in [Calls -> Users \cup {None}]
    BY <1>2, <2>2 DEF Lookup, TokensTypeOK
  <2>4. pc' \in [Calls -> Stages]
    BY <1>2 DEF Lookup, Goes, TokensTypeOK, Stages, Running
  <2>5. QED
    BY <1>2, <2>3, <2>4 DEF Lookup, TokensTypeOK
<1>3. ASSUME NEW k \in Calls, IssueRefresh(k) PROVE TokensTypeOK'
  <2>1. issued < MaxTokens /\ user[k] # None
    BY <1>3 DEF IssueRefresh, Sessions, CallsProgress, Progress
  <2>2. pc' \in [Calls -> Stages]
    BY <1>3 DEF IssueRefresh, Goes, TokensTypeOK, Stages, Running
  <2>3. CASE Insert(k)
    BY <1>3, <2>1, <2>2, <2>3, InsertTypes DEF IssueRefresh, TokensTypeOK
  <2>4. CASE UNCHANGED table /\ UNCHANGED fresh
    BY <1>3, <2>2, <2>4 DEF IssueRefresh, TokensTypeOK
  <2>5. QED
    BY <1>3, <2>3, <2>4 DEF IssueRefresh
<1>4. ASSUME NEW k \in Calls, Reread(k) \/ LoadUser(k) PROVE TokensTypeOK'
  BY <1>4 DEF Reread, LoadUser, Goes, TokensTypeOK, Stages, Running
<1>5. ASSUME NEW k \in Calls, Revoke(k) PROVE TokensTypeOK'
  <2>1. token[k] \in 1 .. issued
    BY <1>5 DEF Revoke, Goes, Sessions, CallsProgress, Progress, TokensTypeOK
  <2>2. pc' \in [Calls -> Stages]
    BY <1>5 DEF Revoke, Goes, TokensTypeOK, Stages, Running
  <2>3. revoked' \subseteq 1 .. issued /\ replacedBy' \in [Tokens -> 0 .. issued]
    BY <1>5, <2>1 DEF Revoke, RevokeRow, TokensTypeOK
  <2>4. QED
    BY <1>5, <2>2, <2>3 DEF Revoke, RevokeRow, TokensTypeOK
<1>6. ASSUME NEW k \in Calls, RevokeAll(k) PROVE TokensTypeOK'
  <2>1. pc' \in [Calls -> Stages]
    BY <1>6 DEF RevokeAll, Goes, TokensTypeOK, Stages, Running
  <2>2. revoked' \subseteq 1 .. issued
    BY <1>6 DEF RevokeAll, RevokeRowsOfUser, TokensTypeOK
  <2>3. QED
    BY <1>6, <2>1, <2>2 DEF RevokeAll, RevokeRowsOfUser, TokensTypeOK
<1>7. ASSUME NEW k \in Calls, ContextEnds(k) PROVE TokensTypeOK'
  BY <1>7 DEF ContextEnds, TokensTypeOK
<1>8. CASE Restart
  BY <1>8 DEF Restart, TokensTypeOK, Stages
<1>9. CASE UNCHANGED vars
  BY <1>9 DEF vars, TokensTypeOK
<1>10. QED
  BY <1>1, <1>2, <1>3, <1>4, <1>5, <1>6, <1>7, <1>8, <1>9 DEF Next, Call, Idle

(* Every step adds to the table and keeps what calls have settled.         *)
LEMMA HistoryStep == TokensTypeOK /\ Sessions /\ [Next]_vars => History
<1> SUFFICES ASSUME TokensTypeOK, Sessions, [Next]_vars PROVE History
  OBVIOUS
<1> USE DEF History, table, calls
<1>0. issued \in Nat /\ issued <= issued
  BY BoundsAssumption DEF TokensTypeOK
<1>1. ASSUME NEW k \in Calls, Login(k) \/ Refresh(k) \/ Logout(k) \/ LogoutAll(k)
      PROVE  History
  <2>1. PICK what, u, t, stage : Begin(k, what, u, t, stage)
    BY <1>1, Beginnings
  <2>2. pc[k] = "new" /\ user[k] = None
    BY <2>1 DEF Begin, Goes, Sessions, CallsProgress, Progress
  <2>3. QED
    BY <1>0, <2>1, <2>2 DEF Begin, TokensTypeOK
<1>2. ASSUME NEW k \in Calls, Lookup(k) PROVE History
  <2>1. user[k] = None
    BY <1>2 DEF Lookup, Sessions, CallsProgress, Progress
  <2>2. QED
    BY <1>0, <1>2, <2>1 DEF Lookup, TokensTypeOK
<1>3. ASSUME NEW k \in Calls, IssueRefresh(k) PROVE History
  <2>1. fresh[k] = 0
    BY <1>3 DEF IssueRefresh, Sessions, CallsProgress, Progress
  <2>2. \A j \in Calls : fresh[j] # 0 => fresh'[j] = fresh[j]
    BY <1>3, <2>1 DEF IssueRefresh, TokensTypeOK
  <2>3. CASE Insert(k)
    <3>1. issued <= issued' /\ revoked \subseteq revoked'
          /\ \A t \in 1 .. issued : userOf'[t] = userOf[t]
      BY <1>0, <2>3 DEF Insert, TokensTypeOK
    <3>2. QED
      BY <1>3, <2>2, <2>3, <3>1 DEF IssueRefresh, Insert
  <2>4. CASE UNCHANGED table
    BY <1>0, <1>3, <2>2, <2>4 DEF IssueRefresh
  <2>5. QED
    BY <1>3, <2>3, <2>4 DEF IssueRefresh
<1>4. ASSUME NEW k \in Calls, Reread(k) \/ LoadUser(k) \/ ContextEnds(k) PROVE History
  BY <1>0, <1>4 DEF Reread, LoadUser, ContextEnds
<1>5. ASSUME NEW k \in Calls, Revoke(k) PROVE History
  <2>1. revoked \subseteq revoked' /\ \A t \in revoked : replacedBy'[t] = replacedBy[t]
    <3>1. CASE RevokeRow(k)
      <4>1. revoked \subseteq Tokens
        BY <1>0, BoundsAssumption DEF TokensTypeOK, Tokens
      <4>2. QED
        BY <3>1, <4>1 DEF RevokeRow, TokensTypeOK
    <3>2. QED
      BY <1>5, <3>1 DEF Revoke
  <2>2. issued' = issued /\ userOf' = userOf
    BY <1>5 DEF Revoke, RevokeRow
  <2>3. QED
    BY <1>0, <1>5, <2>1, <2>2 DEF Revoke
<1>6. ASSUME NEW k \in Calls, RevokeAll(k) PROVE History
  BY <1>0, <1>6 DEF RevokeAll, RevokeRowsOfUser
<1>7. CASE Restart
  BY <1>0, <1>7 DEF Restart
<1>8. CASE UNCHANGED vars
  BY <1>0, <1>8 DEF vars
<1>9. QED
  BY <1>1, <1>2, <1>3, <1>4, <1>5, <1>6, <1>7, <1>8 DEF Next, Call, Idle

(* A call that does nothing, or is lost, keeps its progress.               *)
LEMMA QuietProgress ==
    ASSUME TokensTypeOK, CallsProgress, History, NEW j \in Calls,
           pc'[j] = pc[j] \/ (pc'[j] = "lost" /\ pc[j] # "new"),
           op'[j] = op[j], user'[j] = user[j], token'[j] = token[j], fresh'[j] = fresh[j]
    PROVE  Progress(j)'
<1>1. Progress(j)
  BY DEF CallsProgress
<1>2. token[j] # 0 => userOf'[token[j]] = userOf[token[j]]
  BY DEF History, TokensTypeOK
<1>3. fresh[j] # 0 => userOf'[fresh[j]] = userOf[fresh[j]]
  BY DEF History, TokensTypeOK
<1>4. op[j] = "refresh" /\ fresh[j] # 0 => token[j] # 0
  BY <1>1 DEF Progress, TokensTypeOK
<1>5. QED
  BY <1>1, <1>2, <1>3, <1>4 DEF Progress, History

(* A step of one call leaves the others where they are.                    *)
LEMMA OthersProgress ==
    ASSUME TokensTypeOK, CallsProgress, History, NEW k \in Calls,
           \A j \in Calls : j # k =>
               /\ pc'[j] = pc[j] /\ op'[j] = op[j] /\ user'[j] = user[j]
               /\ token'[j] = token[j] /\ fresh'[j] = fresh[j],
           Progress(k)'
    PROVE  CallsProgress'
<1>1. ASSUME NEW j \in Calls, j # k PROVE Progress(j)'
  BY <1>1, QuietProgress
<1>2. QED
  BY <1>1 DEF CallsProgress

(* Every step keeps the progress of every call.                            *)
LEMMA ProgressStep == TokensTypeOK /\ Sessions /\ History /\ [Next]_vars => CallsProgress'
<1> SUFFICES ASSUME TokensTypeOK, Sessions, History, [Next]_vars PROVE CallsProgress'
  OBVIOUS
<1> USE DEF Sessions
<1>0. \A k \in Calls : Progress(k)
  BY DEF CallsProgress
<1>1. ASSUME NEW k \in Calls, Login(k) \/ Refresh(k) \/ Logout(k) \/ LogoutAll(k)
      PROVE  CallsProgress'
  <2>1. PICK what \in Ops, u \in Users \cup {None}, t \in 0 .. issued, stage \in Stages :
            /\ Begin(k, what, u, t, stage)
            /\ \/ stage \in {"refused", "error"}
               \/ stage = "issue" /\ what = "login" /\ u \in Users
               \/ stage = "lookup" /\ what \in {"refresh", "logout"} /\ u = None /\ t # 0
               \/ stage = "revoke_all" /\ what = "logout_all" /\ u \in Users
            /\ what \in {"login", "logout_all"} => u \in Users
    BY <1>1, Beginnings
  <2>2. Progress(k)'
    BY <1>0, <2>1, NoneIsNoUser DEF Begin, Goes, TokensTypeOK, Progress
  <2>3. QED
    BY <2>1, <2>2, OthersProgress DEF Begin, Goes, TokensTypeOK
<1>2. ASSUME NEW k \in Calls, Lookup(k) PROVE CallsProgress'
  <2>1. token[k] \in 1 .. issued /\ userOf[token[k]] # None
    BY <1>0, <1>2 DEF Lookup, Progress, TokensTypeOK, RowsHaveUsers
  <2>2. Progress(k)'
    BY <1>0, <1>2, <2>1 DEF Lookup, Goes, TokensTypeOK, Progress, table
  <2>3. QED
    BY <1>2, <2>2, OthersProgress DEF Lookup, Goes, TokensTypeOK
<1>3. ASSUME NEW k \in Calls, IssueRefresh(k) PROVE CallsProgress'
  <2>1. issued \in Nat /\ issued < MaxTokens /\ issued + 1 \in Tokens
    BY <1>3, BoundsAssumption DEF IssueRefresh, TokensTypeOK, Tokens
  <2>2. CASE pc'[k] = "error"
    <3>1. UNCHANGED <<op, user, token, fresh>>
      BY <1>3, <2>1, <2>2 DEF IssueRefresh, Goes, TokensTypeOK
    <3>2. Progress(k)'
      BY <1>0, <1>3, <2>2, <3>1 DEF IssueRefresh, Progress
    <3>3. QED
      BY <1>3, <3>1, <3>2, OthersProgress DEF IssueRefresh, Goes, TokensTypeOK
  <2>3. CASE pc'[k] # "error"
    <3>1. /\ fresh' = [fresh EXCEPT ![k] = issued + 1]
          /\ userOf' = [userOf EXCEPT ![issued + 1] = user[k]]
          /\ pc'[k] = IF op[k] = "login" THEN "ok" ELSE "reread"
      BY <1>3, <2>3 DEF IssueRefresh, Goes, TokensTypeOK, Insert
    <3>2. fresh'[k] = issued + 1 /\ userOf'[issued + 1] = user[k]
      BY <2>1, <3>1 DEF TokensTypeOK
    <3>3. op[k] = "refresh" => token[k] \in 1 .. issued /\ userOf'[token[k]] = userOf[token[k]]
      BY <1>0, <1>3 DEF IssueRefresh, Progress, TokensTypeOK, History
    <3>4. Progress(k)'
      BY <1>0, <1>3, <2>1, <3>1, <3>2, <3>3 DEF IssueRefresh, Progress
    <3>5. QED
      BY <1>3, <3>1, <3>4, OthersProgress DEF IssueRefresh, Goes, TokensTypeOK
  <2>4. QED
    BY <2>2, <2>3
<1>4. ASSUME NEW k \in Calls, Reread(k) \/ LoadUser(k) \/ Revoke(k) \/ RevokeAll(k)
      PROVE  CallsProgress'
  <2>1. PICK p \in {"ok", "refused", "error", "revoke", "load"} :
            /\ pc' = [pc EXCEPT ![k] = p]
            /\ p = "revoke" => pc[k] = "reread"
            /\ p = "load" => pc[k] = "revoke" /\ op[k] = "refresh" /\ token[k] \in revoked'
    BY <1>4 DEF Reread, LoadUser, Revoke, RevokeAll, RevokeRow, Goes
  <2>2. UNCHANGED <<op, user, token, fresh, userOf, issued>> /\ pc[k] # "new"
    BY <1>4 DEF Reread, LoadUser, Revoke, RevokeRow, RevokeAll, RevokeRowsOfUser, Goes, table
  <2>3. Progress(k)'
    <3>1. pc'[k] = p /\ Progress(k)
      BY <1>0, <2>1 DEF TokensTypeOK
    <3>2. QED
      BY <2>1, <2>2, <3>1 DEF Progress
  <2>4. QED
    BY <2>1, <2>2, <2>3, OthersProgress DEF TokensTypeOK
<1>5. ASSUME NEW k \in Calls, ContextEnds(k) PROVE CallsProgress'
  BY <1>5, <1>0, OthersProgress, QuietProgress DEF ContextEnds
<1>6. CASE Restart
  <2>1. \A j \in Calls : pc'[j] = pc[j] \/ (pc'[j] = "lost" /\ pc[j] # "new")
    BY <1>6 DEF Restart, Running
  <2>2. ASSUME NEW j \in Calls PROVE Progress(j)'
    BY <1>6, <2>1, QuietProgress DEF Restart
  <2>3. QED
    BY <2>2 DEF CallsProgress
<1>7. CASE UNCHANGED vars
  <2>1. ASSUME NEW j \in Calls PROVE Progress(j)'
    BY <1>7, QuietProgress DEF vars, calls
  <2>2. QED
    BY <2>1 DEF CallsProgress
<1>8. QED
  BY <1>1, <1>2, <1>3, <1>4, <1>5, <1>6, <1>7 DEF Next, Call, Idle

(* What a step writes: a row of the call that issues, the row a call       *)
(* presents, or the rows of its user.                                      *)
Writes ==
    /\ issued' # issued =>
          \E k \in Calls : pc[k] = "issue" /\ issued' = issued + 1 /\ userOf'[issued + 1] = user[k]
    /\ fresh' # fresh => \E k \in Calls : fresh' = [fresh EXCEPT ![k] = issued + 1]
    /\ \A t \in Tokens : replacedBy'[t] # replacedBy[t] =>
          t \in revoked' /\ \E k \in Calls : pc[k] = "revoke" /\ token[k] = t /\ replacedBy'[t] = fresh[k]
    /\ \A t \in revoked' : t \notin revoked => \E k \in Calls :
          \/ pc[k] = "revoke" /\ token[k] = t
          \/ pc[k] \in {"revoke_all", "reuse"} /\ user[k] = userOf[t] /\ t \in 1 .. issued

(* No step writes anything else.                                           *)
LEMMA WritesStep == TokensTypeOK /\ [Next]_vars => Writes
<1> SUFFICES ASSUME TokensTypeOK, [Next]_vars PROVE Writes
  OBVIOUS
<1> USE DEF table
<1>1. CASE UNCHANGED <<table, fresh>>
  BY <1>1 DEF Writes
<1>2. ASSUME NEW k \in Calls, IssueRefresh(k) PROVE Writes
  <2>1. pc[k] = "issue" /\ UNCHANGED <<revoked, replacedBy>>
    BY <1>2 DEF IssueRefresh, Insert
  <2>2. issued' # issued => issued' = issued + 1 /\ userOf'[issued + 1] = user[k]
    <3>1. issued + 1 \in Tokens
      BY <1>2, BoundsAssumption DEF IssueRefresh, TokensTypeOK, Tokens
    <3>2. QED
      BY <1>2, <3>1 DEF IssueRefresh, Insert, TokensTypeOK
  <2>3. fresh' # fresh => fresh' = [fresh EXCEPT ![k] = issued + 1]
    BY <1>2 DEF IssueRefresh
  <2>4. QED
    BY <2>1, <2>2, <2>3 DEF Writes
<1>3. ASSUME NEW k \in Calls, Revoke(k) PROVE Writes
  <2>1. pc[k] = "revoke" /\ UNCHANGED <<issued, fresh>>
    BY <1>3 DEF Revoke, RevokeRow, Goes
  <2>2. CASE RevokeRow(k)
    <3>1. ASSUME NEW t \in Tokens, replacedBy'[t] # replacedBy[t]
          PROVE  t \in revoked' /\ token[k] = t /\ replacedBy'[t] = fresh[k]
      BY <2>2, <3>1 DEF RevokeRow, TokensTypeOK
    <3>2. \A t \in revoked' : t \notin revoked => token[k] = t
      BY <2>2 DEF RevokeRow
    <3>3. QED
      BY <2>1, <3>1, <3>2 DEF Writes
  <2>3. QED
    BY <1>1, <1>3, <2>2 DEF Revoke
<1>4. ASSUME NEW k \in Calls, RevokeAll(k) PROVE Writes
  <2>1. CASE RevokeRowsOfUser(k)
    BY <1>4, <2>1 DEF RevokeAll, RevokeRowsOfUser, Writes
  <2>2. QED
    BY <1>1, <1>4, <2>1 DEF RevokeAll
<1>5. ASSUME NEW k \in Calls,
             \/ Login(k) \/ Refresh(k) \/ Logout(k) \/ LogoutAll(k)
             \/ Lookup(k) \/ Reread(k) \/ LoadUser(k) \/ ContextEnds(k)
      PROVE  UNCHANGED <<table, fresh>>
  BY <1>5 DEF Login, Refresh, Logout, LogoutAll, Begin, Lookup, Reread, LoadUser, ContextEnds
<1>6. QED
  BY <1>1, <1>2, <1>3, <1>4, <1>5 DEF Next, Call, Idle, Restart, vars, calls

(* Rows, their issuers and their successors.                               *)
LEMMA LineageStep ==
    ASSUME TokensTypeOK, Sessions, History, Writes
    PROVE  RowsHaveUsers' /\ FreshIsOwn' /\ SuccessorIsFresh'
<1> USE DEF Sessions
<1>0. \A k \in Calls : Progress(k)
  BY DEF CallsProgress
<1>1. RowsHaveUsers'
  <2>1. CASE issued' = issued
    BY <2>1 DEF History, RowsHaveUsers
  <2>2. CASE issued' # issued
    <3>1. PICK k \in Calls :
              pc[k] = "issue" /\ issued' = issued + 1 /\ userOf'[issued + 1] = user[k]
      BY <2>2 DEF Writes
    <3>2. user[k] # None
      BY <1>0, <3>1 DEF Progress
    <3>3. \A t \in 1 .. issued' : t \in 1 .. issued \/ t = issued + 1
      BY <3>1 DEF TokensTypeOK
    <3>4. QED
      BY <3>1, <3>2, <3>3 DEF History, RowsHaveUsers
  <2>3. QED
    BY <2>1, <2>2
<1>2. FreshIsOwn'
  <2>1. CASE fresh' = fresh
    BY <2>1 DEF FreshIsOwn
  <2>2. CASE fresh' # fresh
    <3>1. PICK k \in Calls : fresh' = [fresh EXCEPT ![k] = issued + 1]
      BY <2>2 DEF Writes
    <3>2. \A j \in Calls : fresh[j] # issued + 1
      BY BoundsAssumption DEF TokensTypeOK
    <3>3. QED
      BY <3>1, <3>2 DEF FreshIsOwn, TokensTypeOK
  <2>3. QED
    BY <2>1, <2>2
<1>3. SuccessorIsFresh'
  <2> SUFFICES ASSUME NEW t \in Tokens, replacedBy'[t] # 0
               PROVE  /\ t \in revoked'
                      /\ \E k \in Calls :
                            op'[k] = "refresh" /\ token'[k] = t /\ fresh'[k] = replacedBy'[t]
    BY DEF SuccessorIsFresh
  <2>1. t \in revoked' /\ \E k \in Calls :
            op[k] = "refresh" /\ token[k] = t /\ fresh[k] = replacedBy'[t]
    <3>1. CASE replacedBy'[t] = replacedBy[t]
      BY <3>1 DEF SuccessorIsFresh, History
    <3>2. CASE replacedBy'[t] # replacedBy[t]
      <4>1. t \in revoked' /\ \E k \in Calls :
                pc[k] = "revoke" /\ token[k] = t /\ replacedBy'[t] = fresh[k]
        BY <3>2 DEF Writes
      <4>2. QED
        BY <1>0, <4>1 DEF Progress
    <3>3. QED
      BY <3>1, <3>2
  <2>2. PICK k \in Calls : op[k] = "refresh" /\ token[k] = t /\ fresh[k] = replacedBy'[t]
    BY <2>1
  <2>3. pc[k] # "new"
    BY <1>0, <2>2 DEF Progress
  <2>4. op'[k] = "refresh" /\ token'[k] = t /\ fresh'[k] = replacedBy'[t]
    BY <2>2, <2>3 DEF History
  <2>5. QED
    BY <2>1, <2>4
<1>4. QED
  BY <1>1, <1>2, <1>3

(* A revocation is by a call that presents the token or acts for its user. *)
LEMMA OwnerStep ==
    ASSUME TokensTypeOK, Sessions, History, Writes
    PROVE  RevokedByOwner'
<1> USE DEF Sessions
<1>0. \A k \in Calls : Progress(k)
  BY DEF CallsProgress
<1> SUFFICES ASSUME NEW t \in revoked'
             PROVE  \E k \in Calls :
                        \/ token'[k] = t /\ op'[k] \in {"refresh", "logout"}
                        \/ user'[k] = userOf'[t] /\ op'[k] = "logout_all"
                        \/ user'[k] = userOf'[t] /\ op'[k] = "refresh" /\ token'[k] \in revoked'
  BY DEF RevokedByOwner
<1>1. PICK k \in Calls :
          \/ token[k] = t /\ op[k] \in {"refresh", "logout"}
          \/ /\ user[k] = userOf[t] /\ t \in 1 .. issued
             /\ op[k] = "logout_all" \/ (op[k] = "refresh" /\ token[k] \in revoked)
  <2>1. CASE t \in revoked
    <3>1. t \in 1 .. issued
      BY <2>1 DEF TokensTypeOK
    <3>2. QED
      BY <2>1, <3>1 DEF RevokedByOwner
  <2>2. CASE t \notin revoked
    <3>1. PICK k \in Calls :
              \/ pc[k] = "revoke" /\ token[k] = t
              \/ pc[k] \in {"revoke_all", "reuse"} /\ user[k] = userOf[t] /\ t \in 1 .. issued
      BY <2>2 DEF Writes
    <3>2. Progress(k)
      BY <1>0
    <3>3. QED
      BY <3>1, <3>2 DEF Progress
  <2>3. QED
    BY <2>1, <2>2
<1>2. pc[k] # "new"
  <2>1. t # 0
    <3>1. t \in revoked => t \in 1 .. issued
      BY DEF TokensTypeOK
    <3>2. t \notin revoked => t \in 1 .. issued \/ \E j \in Calls : pc[j] = "revoke" /\ token[j] = t
      BY DEF Writes
    <3>3. QED
      BY <1>0, <3>1, <3>2 DEF Progress, TokensTypeOK
  <2>2. QED
    BY <1>0, <1>1, <2>1 DEF Progress, RowsHaveUsers
<1>3. op'[k] = op[k] /\ token'[k] = token[k]
  BY <1>2 DEF History
<1>4. CASE token[k] = t /\ op[k] \in {"refresh", "logout"}
  BY <1>3, <1>4
<1>5. CASE /\ user[k] = userOf[t] /\ t \in 1 .. issued
           /\ op[k] = "logout_all" \/ (op[k] = "refresh" /\ token[k] \in revoked)
  <2>1. userOf'[t] = userOf[t] /\ user'[k] = user[k]
    BY <1>5 DEF History, RowsHaveUsers
  <2>2. QED
    BY <1>3, <1>5, <2>1 DEF History
<1>6. QED
  BY <1>1, <1>4, <1>5

(* The last statement of a call that is answered 200 left its token, or    *)
(* the tokens of its user, revoked.                                        *)
LEMMA Answers ==
    ASSUME TokensTypeOK, Sessions, [Next]_vars, NEW k \in Calls, pc[k] # "ok", pc'[k] = "ok"
    PROVE  \/ pc[k] = "issue" /\ op[k] = "login"
           \/ pc[k] # "new" /\ op[k] \in {"refresh", "logout"} /\ token[k] \in revoked'
           \/ /\ pc[k] # "new" /\ op[k] = "logout_all" /\ user[k] # None
              /\ {t \in 1 .. issued : userOf[t] = user[k]} \subseteq revoked'
<1> USE DEF Sessions, Goes, table
<1>0. Progress(k)
  BY DEF CallsProgress
<1>1. ASSUME NEW j \in Calls, Login(j) \/ Refresh(j) \/ Logout(j) \/ LogoutAll(j)
      PROVE  FALSE
  BY <1>1 DEF Login, Refresh, Logout, LogoutAll, Begin, TokensTypeOK
<1>2. ASSUME NEW j \in Calls, Reread(j) \/ ContextEnds(j) PROVE FALSE
  BY <1>2 DEF Reread, ContextEnds, TokensTypeOK
<1>3. ASSUME NEW j \in Calls, Lookup(j)
      PROVE  pc[k] # "new" /\ op[k] \in {"refresh", "logout"} /\ token[k] \in revoked'
  BY <1>0, <1>3 DEF Lookup, TokensTypeOK, Progress
<1>4. ASSUME NEW j \in Calls, IssueRefresh(j) PROVE pc[k] = "issue" /\ op[k] = "login"
  BY <1>4 DEF IssueRefresh, TokensTypeOK
<1>5. ASSUME NEW j \in Calls, Revoke(j)
      PROVE  pc[k] # "new" /\ op[k] \in {"refresh", "logout"} /\ token[k] \in revoked'
  BY <1>0, <1>5 DEF Revoke, RevokeRow, TokensTypeOK, Progress
<1>6. ASSUME NEW j \in Calls, LoadUser(j)
      PROVE  pc[k] # "new" /\ op[k] \in {"refresh", "logout"} /\ token[k] \in revoked'
  BY <1>0, <1>6 DEF LoadUser, TokensTypeOK, Progress
<1>7. ASSUME NEW j \in Calls, RevokeAll(j)
      PROVE  /\ pc[k] # "new" /\ op[k] = "logout_all" /\ user[k] # None
             /\ {t \in 1 .. issued : userOf[t] = user[k]} \subseteq revoked'
  <2>1. j = k /\ pc[k] = "revoke_all" /\ RevokeRowsOfUser(k)
    BY <1>7 DEF RevokeAll, TokensTypeOK
  <2>2. QED
    BY <1>0, <2>1 DEF Progress, RevokeRowsOfUser
<1>8. CASE Restart
  BY <1>8 DEF Restart, TokensTypeOK
<1>9. CASE UNCHANGED vars
  BY <1>9 DEF vars, calls
<1>10. QED
  BY <1>1, <1>2, <1>3, <1>4, <1>5, <1>6, <1>7, <1>8, <1>9 DEF Next, Call, Idle

(* What an answer has ended stays over.                                    *)
LEMMA OverStep == TokensTypeOK /\ Sessions /\ History /\ [Next]_vars => AnsweredIsOver'
<1> SUFFICES ASSUME TokensTypeOK, Sessions, History, [Next]_vars, NEW k \in Calls, pc'[k] = "ok"
             PROVE  /\ op'[k] \in {"refresh", "logout"} => token'[k] \in revoked'
                    /\ op'[k] = "logout_all" =>
                           {t \in 1 .. before'[k] : userOf'[t] = user'[k]} \subseteq revoked'
  BY DEF AnsweredIsOver
<1> USE DEF Sessions
<1>1. /\ pc[k] # "new"
      /\ op[k] = "logout_all" => user'[k] = user[k]
  <2>1. CASE pc[k] = "ok"
    BY <2>1 DEF History
  <2>2. CASE pc[k] # "ok"
    BY <2>2, Answers DEF History
  <2>3. QED
    BY <2>1, <2>2
<1>2. op'[k] = op[k] /\ token'[k] = token[k] /\ before'[k] = before[k] /\ before[k] \in 0 .. issued
  BY <1>1 DEF History, TokensTypeOK
<1>3. \A t \in 1 .. before[k] : t \in 1 .. issued /\ userOf'[t] = userOf[t]
  BY <1>2 DEF History, TokensTypeOK
<1>4. CASE pc[k] = "ok"
  BY <1>1, <1>2, <1>3, <1>4 DEF AnsweredIsOver, History
<1>5. CASE pc[k] # "ok"
  BY <1>1, <1>2, <1>3, <1>5, Answers
<1>6. QED
  BY <1>4, <1>5

(***************************************************************************)
(* Theorems.                                                               *)
(***************************************************************************)

(* The inductive invariant.                                                *)
THEOREM SessionsInvariant == Spec => [](TokensTypeOK /\ Sessions)
<1>1. Init => TokensTypeOK /\ Sessions
  BY SessionsInit
<1>2. TokensTypeOK /\ Sessions /\ [Next]_vars => (TokensTypeOK /\ Sessions)'
  <2> SUFFICES ASSUME TokensTypeOK, Sessions, [Next]_vars PROVE (TokensTypeOK /\ Sessions)'
    OBVIOUS
  <2>1. TokensTypeOK' /\ History /\ Writes
    BY TypeStep, HistoryStep, WritesStep
  <2>2. CallsProgress' /\ AnsweredIsOver'
    BY <2>1, ProgressStep, OverStep
  <2>3. RowsHaveUsers' /\ FreshIsOwn' /\ SuccessorIsFresh' /\ RevokedByOwner'
    BY <2>1, LineageStep, OwnerStep
  <2>4. QED
    BY <2>1, <2>2, <2>3 DEF Sessions
<1>3. QED
  BY <1>1, <1>2, PTL DEF Spec

(* Every variable stays in its range.                                      *)
THEOREM Types == Spec => []TokensTypeOK
BY SessionsInvariant, PTL

(* Nothing un-revokes a token or changes the successor recorded for it,    *)
(* whatever refreshes and logouts read before they write.                  *)
THEOREM RevocationIsFinal == Spec => RevokedStays
<1>1. TokensTypeOK /\ Sessions /\ [Next]_vars =>
          [\A t \in revoked : t \in revoked' /\ replacedBy'[t] = replacedBy[t]]_vars
  BY HistoryStep DEF History
<1>2. QED
  BY <1>1, SessionsInvariant, PTL DEF Spec, RevokedStays

(* replaced_by leads from a revoked token to a later one of its user.      *)
THEOREM Lineage == Spec => []LineageIsForward
<1>1. TokensTypeOK /\ Sessions => LineageIsForward
  <2> SUFFICES ASSUME TokensTypeOK, Sessions, NEW t \in Tokens, replacedBy[t] # 0
               PROVE  /\ t \in revoked
                      /\ t < replacedBy[t] /\ replacedBy[t] <= issued
                      /\ userOf[replacedBy[t]] = userOf[t]
    BY DEF LineageIsForward
  <2>1. PICK k \in Calls : op[k] = "refresh" /\ token[k] = t /\ fresh[k] = replacedBy[t]
    BY DEF Sessions, SuccessorIsFresh
  <2>2. t < replacedBy[t] /\ userOf[replacedBy[t]] = userOf[t]
    BY <2>1 DEF Sessions, CallsProgress, Progress
  <2>3. replacedBy[t] <= issued
    BY BoundsAssumption DEF TokensTypeOK
  <2>4. QED
    BY <2>2, <2>3 DEF Sessions, SuccessorIsFresh
<1>2. QED
  BY <1>1, SessionsInvariant, PTL

(* No token replaces two: racing refreshes record tokens of their own.     *)
THEOREM Origin == Spec => []OneOrigin
<1>1. Sessions => OneOrigin
  <2> SUFFICES ASSUME Sessions, NEW s \in Tokens, NEW t \in Tokens,
                      replacedBy[s] = replacedBy[t], replacedBy[s] # 0
               PROVE  s = t
    BY DEF OneOrigin
  <2>1. PICK j \in Calls : token[j] = s /\ fresh[j] = replacedBy[s]
    BY DEF Sessions, SuccessorIsFresh
  <2>2. PICK k \in Calls : token[k] = t /\ fresh[k] = replacedBy[t]
    BY DEF Sessions, SuccessorIsFresh
  <2>3. QED
    BY <2>1, <2>2 DEF Sessions, FreshIsOwn
<1>2. QED
  BY <1>1, SessionsInvariant, PTL

(* After a 200, what was presented, or what a logout of all found, is over.*)
THEOREM Over == Spec => []AnsweredIsOver
<1>1. Sessions => AnsweredIsOver
  BY DEF Sessions
<1>2. QED
  BY <1>1, SessionsInvariant, PTL

(* What one operator's calls do never ends another's session.              *)
THEOREM Owner == Spec => []RevokedByOwner
<1>1. Sessions => RevokedByOwner
  BY DEF Sessions
<1>2. QED
  BY <1>1, SessionsInvariant, PTL
=============================================================================
