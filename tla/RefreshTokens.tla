---------------------------- MODULE RefreshTokens ----------------------------
(***************************************************************************)
(* The ledger of refresh tokens: login issues a token, a refresh replaces  *)
(* the token it is called with, a logout ends that token or all of the     *)
(* user's.  Every operation is a few SQL statements without a transaction, *)
(* so calls interleave between them.                                       *)
(*                                                                         *)
(* Tokens are numbered in the order in which their rows are inserted; a    *)
(* client presents a token that an answer has given it (any other one is   *)
(* not found, and nothing happens).  Access tokens are stateless and left  *)
(* out.                                                                    *)
(***************************************************************************)
EXTENDS Naturals

CONSTANTS
    Users,       \* operators
    Calls,       \* requests to /auth/login, /auth/refresh and /auth/logout
    MaxTokens,   \* bound on the rows of refresh_tokens
    Faults,      \* "db", "cancel", "crash"
    MaxCrashes,  \* bound on restarts of the server
    None

ASSUME NoneIsNoUser == None \notin Users
ASSUME BoundsAssumption == MaxTokens \in Nat /\ MaxCrashes \in Nat
ASSUME FaultAssumption == Faults \subseteq {"db", "cancel", "crash"}

VARIABLES
    issued,      \* rows of refresh_tokens: 1 .. issued
    userOf,      \* user_id of each row
    revoked,     \* the rows with a revoked_at
    replacedBy,  \* replaced_by of each row, 0 if NULL
    pc,          \* stage of each call, its answer when it is over
    op,          \* what the call does
    user,        \* the user it acts for, once known
    token,       \* the token it presents, 0 if none
    fresh,       \* the token it has issued, 0 if none
    ended,       \* the context of the call has ended
    before,      \* history: the rows there were when the call began
    crashes      \* number of restarts

table == <<issued, userOf, revoked, replacedBy>>
calls == <<pc, op, user, token, fresh, ended, before>>
vars  == <<table, calls, crashes>>

Tokens == 1 .. MaxTokens
Ops    == {"login", "refresh", "logout", "logout_all"}

Running == {"lookup", "issue", "reread", "revoke", "revoke_all", "reuse", "load"}
Stages  == {"new", "ok", "refused", "error", "lost"} \cup Running

TokensTypeOK ==
    /\ issued \in 0 .. MaxTokens
    /\ userOf \in [Tokens -> Users \cup {None}]
    /\ revoked \subseteq 1 .. issued
    /\ replacedBy \in [Tokens -> 0 .. issued]
    /\ pc \in [Calls -> Stages]
    /\ op \in [Calls -> Ops \cup {None}]
    /\ user \in [Calls -> Users \cup {None}]
    /\ token \in [Calls -> 0 .. issued]
    /\ fresh \in [Calls -> 0 .. issued]
    /\ ended \in [Calls -> BOOLEAN]
    /\ before \in [Calls -> 0 .. issued]
    /\ crashes \in 0 .. MaxCrashes

Init ==
    /\ issued     = 0
    /\ userOf     = [t \in Tokens |-> None]
    /\ revoked    = {}
    /\ replacedBy = [t \in Tokens |-> 0]
    /\ pc         = [k \in Calls |-> "new"]
    /\ op         = [k \in Calls |-> None]
    /\ user       = [k \in Calls |-> None]
    /\ token      = [k \in Calls |-> 0]
    /\ fresh      = [k \in Calls |-> 0]
    /\ ended      = [k \in Calls |-> FALSE]
    /\ before     = [k \in Calls |-> 0]
    /\ crashes    = 0

Fails(k) == "db" \in Faults \/ ended[k]

Goes(k, from, to) == pc[k] = from /\ pc' = [pc EXCEPT ![k] = to]

(***************************************************************************)
(* How a call begins.                                                      *)
(***************************************************************************)

(* The tokens clients know.                                                *)
Given == {fresh[k] : k \in {j \in Calls : pc[j] = "ok" /\ fresh[j] # 0}}

Begin(k, what, u, t, stage) ==
    /\ Goes(k, "new", stage)
    /\ op'     = [op EXCEPT ![k] = what]
    /\ user'   = [user EXCEPT ![k] = u]
    /\ token'  = [token EXCEPT ![k] = t]
    /\ before' = [before EXCEPT ![k] = issued]
    /\ UNCHANGED <<table, fresh, ended, crashes>>

(* The email is looked up and the password compared; either may fail.      *)
Login(k) ==
    \E u \in Users, stage \in {"issue", "refused", "error"} : Begin(k, "login", u, 0, stage)

Refresh(k) == \E t \in Given : Begin(k, "refresh", None, t, "lookup")

Logout(k) == \E t \in Given : Begin(k, "logout", None, t, "lookup")

(* The user is that of the access token.                                   *)
LogoutAll(k) == \E u \in Users : Begin(k, "logout_all", u, 0, "revoke_all")

(***************************************************************************)
(* Its statements.                                                         *)
(***************************************************************************)

(* GetRefreshTokenByHash.  A refresh with a revoked token goes on to end   *)
(* all of the user's; a logout of a revoked token has nothing to do.  A    *)
(* token may have expired by now.                                          *)
Lookup(k) ==
    /\ pc[k] = "lookup"
    /\ \/ /\ ~ended[k]
          /\ user' = [user EXCEPT ![k] = userOf[token[k]]]
          /\ IF token[k] \in revoked
             THEN Goes(k, "lookup", IF op[k] = "refresh" THEN "reuse" ELSE "ok")
             ELSE \/ Goes(k, "lookup", IF op[k] = "refresh" THEN "issue" ELSE "revoke")
                  \/ op[k] = "refresh" /\ Goes(k, "lookup", "refused")
       \/ Fails(k) /\ Goes(k, "lookup", "error") /\ UNCHANGED user
    /\ UNCHANGED <<table, op, token, fresh, ended, before, crashes>>

Insert(k) ==
    /\ issued' = issued + 1
    /\ userOf' = [userOf EXCEPT ![issued + 1] = user[k]]
    /\ UNCHANGED <<revoked, replacedBy>>

IssueIgnoresError(k) ==
    /\ pc[k] = "issue" /\ issued < MaxTokens
    /\ Goes(k, "issue", IF op[k] = "login" THEN "ok" ELSE "reread")
    /\ Insert(k) \/ (Fails(k) /\ UNCHANGED table)
    /\ fresh' = [fresh EXCEPT ![k] = issued + 1]
    /\ UNCHANGED <<op, user, token, ended, before, crashes>>

(* InsertRefreshToken.  The raw token of a failed call is given to nobody, *)
(* whether or not its row was inserted.                                    *)
IssueRefresh(k) ==
    /\ pc[k] = "issue" /\ issued < MaxTokens
    /\ \/ /\ ~ended[k]
          /\ Goes(k, "issue", IF op[k] = "login" THEN "ok" ELSE "reread")
          /\ Insert(k)
          /\ fresh' = [fresh EXCEPT ![k] = issued + 1]
       \/ /\ Fails(k)
          /\ Goes(k, "issue", "error")
          /\ Insert(k) \/ UNCHANGED table
          /\ UNCHANGED fresh
    /\ UNCHANGED <<op, user, token, ended, before, crashes>>

RereadNewest(k) ==
    /\ Goes(k, "reread", "revoke")
    /\ fresh' = [fresh EXCEPT ![k] = issued]
    /\ UNCHANGED <<table, op, user, token, ended, before, crashes>>

(* The id of the new row, by its hash.                                     *)
Reread(k) ==
    /\ \/ ~ended[k] /\ Goes(k, "reread", "revoke")
       \/ Fails(k) /\ Goes(k, "reread", "error")
    /\ UNCHANGED <<table, op, user, token, fresh, ended, before, crashes>>

RevokeAgain(k) ==
    /\ revoked' = revoked \cup {token[k]}
    /\ replacedBy' = [replacedBy EXCEPT ![token[k]] = fresh[k]]
    /\ UNCHANGED <<issued, userOf>>

(* RevokeRefreshToken: only a row that is not revoked is updated.  A       *)
(* logout records no successor.                                            *)
RevokeRow(k) ==
    /\ revoked' = revoked \cup {token[k]}
    /\ replacedBy' = IF token[k] \in revoked THEN replacedBy
                     ELSE [replacedBy EXCEPT ![token[k]] = fresh[k]]
    /\ UNCHANGED <<issued, userOf>>

RevokeBestEffort(k) ==
    /\ Goes(k, "revoke", IF op[k] = "refresh" THEN "load" ELSE "ok")
    /\ RevokeRow(k) \/ (Fails(k) /\ UNCHANGED table)
    /\ UNCHANGED <<op, user, token, fresh, ended, before, crashes>>

Revoke(k) ==
    /\ \/ /\ ~ended[k]
          /\ Goes(k, "revoke", IF op[k] = "refresh" THEN "load" ELSE "ok")
          /\ RevokeRow(k)
       \/ /\ Fails(k)
          /\ Goes(k, "revoke", "error")
          /\ RevokeRow(k) \/ UNCHANGED table
    /\ UNCHANGED <<op, user, token, fresh, ended, before, crashes>>

(* GetAuthUserByID, for the access token of the answer.                    *)
LoadUser(k) ==
    /\ \/ ~ended[k] /\ Goes(k, "load", "ok")
       \/ Fails(k) /\ Goes(k, "load", "error")
    /\ UNCHANGED <<table, op, user, token, fresh, ended, before, crashes>>

RevokeEverybodysRows(k) ==
    /\ revoked' = 1 .. issued
    /\ UNCHANGED <<issued, userOf, replacedBy>>

(* RevokeAllRefreshTokensForUser.                                          *)
RevokeRowsOfUser(k) ==
    /\ revoked' = revoked \cup {t \in 1 .. issued : userOf[t] = user[k]}
    /\ UNCHANGED <<issued, userOf, replacedBy>>

(* An error is the call's in a logout, and ignored after a reuse.          *)
RevokeAll(k) ==
    /\ pc[k] \in {"revoke_all", "reuse"}
    /\ \/ /\ ~ended[k]
          /\ Goes(k, pc[k], IF pc[k] = "reuse" THEN "refused" ELSE "ok")
          /\ RevokeRowsOfUser(k)
       \/ /\ Fails(k)
          /\ Goes(k, pc[k], IF pc[k] = "reuse" THEN "refused" ELSE "error")
          /\ RevokeRowsOfUser(k) \/ UNCHANGED table
    /\ UNCHANGED <<op, user, token, fresh, ended, before, crashes>>

(* The client goes away.                                                   *)
ContextEnds(k) ==
    /\ "cancel" \in Faults
    /\ pc[k] \in Running /\ ~ended[k]
    /\ ended' = [ended EXCEPT ![k] = TRUE]
    /\ UNCHANGED <<table, pc, op, user, token, fresh, before, crashes>>

(* The rows survive the process, the calls do not.                         *)
Restart ==
    /\ "crash" \in Faults /\ crashes < MaxCrashes
    /\ crashes' = crashes + 1
    /\ pc' = [k \in Calls |-> IF pc[k] \in Running THEN "lost" ELSE pc[k]]
    /\ UNCHANGED <<table, op, user, token, fresh, ended, before>>

Call(k) ==
    \/ Login(k) \/ Refresh(k) \/ Logout(k) \/ LogoutAll(k)
    \/ Lookup(k) \/ IssueRefresh(k) \/ Reread(k) \/ Revoke(k) \/ LoadUser(k)
    \/ RevokeAll(k) \/ ContextEnds(k)

(* Nothing more to do, or no room for another token in the model.          *)
Idle ==
    /\ \A k \in Calls : pc[k] \notin Running \/ (pc[k] = "issue" /\ issued = MaxTokens)
    /\ UNCHANGED vars

Next == Restart \/ Idle \/ \E k \in Calls : Call(k)

Spec == Init /\ [][Next]_vars

(***************************************************************************)
(* Properties.                                                             *)
(***************************************************************************)

(* A token that has been revoked stays so, and the successor its rotation  *)
(* recorded stays recorded, although refreshes and logouts write it after  *)
(* reading it earlier.                                                     *)
RevokedStays ==
    [][\A t \in revoked : t \in revoked' /\ replacedBy'[t] = replacedBy[t]]_vars

(* replaced_by leads from a revoked token to a later one of the same user. *)
LineageIsForward ==
    \A t \in Tokens : replacedBy[t] # 0 =>
        /\ t \in revoked
        /\ t < replacedBy[t] /\ replacedBy[t] <= issued
        /\ userOf[replacedBy[t]] = userOf[t]

(* No token is recorded as the successor of two: racing refreshes each     *)
(* record the token they issued themselves.                                *)
OneOrigin ==
    \A s, t \in Tokens : replacedBy[s] = replacedBy[t] /\ replacedBy[s] # 0 => s = t

(* After a 200 the presented token is over; after a logout of all, so is   *)
(* every token the user had when the call began, and for good.             *)
AnsweredIsOver ==
    \A k \in Calls : pc[k] = "ok" =>
        /\ op[k] \in {"refresh", "logout"} => token[k] \in revoked
        /\ op[k] = "logout_all" =>
               {t \in 1 .. before[k] : userOf[t] = user[k]} \subseteq revoked

(* A token ends only by a call that presents it or acts for its user: what *)
(* one operator does never ends another's session.                         *)
RevokedByOwner ==
    \A t \in revoked : \E k \in Calls :
        \/ token[k] = t /\ op[k] \in {"refresh", "logout"}
        \/ user[k] = userOf[t] /\ op[k] = "logout_all"
        \/ user[k] = userOf[t] /\ op[k] = "refresh" /\ token[k] \in revoked
=============================================================================
