---------------------------- MODULE AdminRegistry ----------------------------
(***************************************************************************)
(* The admins: POST /api/admins/setup, which mints a DID per entry on a    *)
(* Rubix node, inserts a row into the admins table and writes a file, and  *)
(* then rebuilds the in-memory map that every other handler consults.      *)
(*                                                                         *)
(* A setup call is one run of handleSetupAdmins.  Announcing a new DID to  *)
(* the network is best effort and leaves nothing the server reads, so it   *)
(* is no part of the state.  Rows of admins are never changed or deleted:  *)
(* a set of DIDs stands for the table, and for the map.                    *)
(***************************************************************************)
EXTENDS Naturals

CONSTANTS
    Setups,      \* calls of the endpoint
    Dids,        \* DIDs the nodes may mint
    MaxEntries,  \* bound on the entries of a call
    Faults,      \* "node", "db", "file", "cancel", "crash"
    MaxCrashes,  \* bound on restarts of the server
    None

ASSUME NoneIsNoDid == None \notin Dids
ASSUME BoundsAssumption == MaxEntries \in Nat /\ MaxCrashes \in Nat
ASSUME FaultAssumption == Faults \subseteq {"node", "db", "file", "cancel", "crash"}

VARIABLES
    minted,      \* DIDs that exist on the nodes
    table,       \* the admins table
    files,       \* dids/<did>.json
    adminByDID,  \* AppConfig.adminByDID
    pc,          \* stage of each call, its answer when it is over
    left,        \* entries still to process
    did,         \* the DID of the entry in progress
    created,     \* DIDs the results list with success
    ended,       \* the context of the call has ended
    snapshot,    \* the rows ReloadAdmins has read
    atBoot,      \* history: the admins table when the process started
    overlapped,  \* history: a call has begun while another was in progress
    crashes      \* number of restarts

stores == <<minted, table, files>>
calls  == <<pc, left, did, created, ended, snapshot>>
vars   == <<stores, adminByDID, calls, atBoot, overlapped, crashes>>

Running == {"entry", "persist", "file", "swap"}
Stages  == {"new", "ok", "error", "lost"} \cup Running

TypeOK ==
    /\ minted \subseteq Dids /\ table \subseteq Dids /\ files \subseteq Dids
    /\ adminByDID \subseteq Dids /\ atBoot \subseteq Dids
    /\ pc \in [Setups -> Stages]
    /\ left \in [Setups -> 0 .. MaxEntries]
    /\ did \in [Setups -> Dids \cup {None}]
    /\ created \in [Setups -> SUBSET Dids]
    /\ ended \in [Setups -> BOOLEAN]
    /\ snapshot \in [Setups -> SUBSET Dids]
    /\ overlapped \in BOOLEAN
    /\ crashes \in 0 .. MaxCrashes

Init ==
    /\ minted = {} /\ table = {} /\ files = {}
    /\ adminByDID = {} /\ atBoot = {}
    /\ pc       = [s \in Setups |-> "new"]
    /\ left     = [s \in Setups |-> 0]
    /\ did      = [s \in Setups |-> None]
    /\ created  = [s \in Setups |-> {}]
    /\ ended    = [s \in Setups |-> FALSE]
    /\ snapshot = [s \in Setups |-> {}]
    /\ overlapped = FALSE
    /\ crashes  = 0

(***************************************************************************)
(* A call.                                                                 *)
(***************************************************************************)

Fails(s, kind) == kind \in Faults \/ ended[s]

(* A body without entries, or a dids directory that cannot be made, ends   *)
(* the call at once.                                                       *)
Begin(s) ==
    /\ pc[s] = "new"
    /\ \/ /\ pc' = [pc EXCEPT ![s] = "entry"]
          /\ \E n \in 1 .. MaxEntries : left' = [left EXCEPT ![s] = n]
       \/ pc' = [pc EXCEPT ![s] = "error"] /\ UNCHANGED left
    /\ overlapped' = (overlapped \/ \E t \in Setups : pc[t] \in Running)
    /\ UNCHANGED <<stores, adminByDID, did, created, ended, snapshot, atBoot, crashes>>

(* The loop goes on with the next entry, whatever became of this one.      *)
EntryDone(s) ==
    /\ pc'   = [pc EXCEPT ![s] = "entry"]
    /\ left' = [left EXCEPT ![s] = @ - 1]
    /\ did'  = [did EXCEPT ![s] = None]

Mint(s) ==
    \E d \in Dids \ minted :
        /\ minted' = minted \cup {d}
        /\ did' = [did EXCEPT ![s] = d]
        /\ pc'  = [pc EXCEPT ![s] = "persist"]

CreateDIDKnownAtOnce(s) ==
    /\ pc[s] = "entry" /\ left[s] > 0 /\ ~ended[s]
    /\ Mint(s)
    /\ adminByDID' = adminByDID \cup {did'[s]}
    /\ UNCHANGED <<table, files, left, created, ended, snapshot, atBoot, overlapped, crashes>>

(* An entry without a port fails, and so does one whose node refuses or    *)
(* does not answer in time; then the node may have minted all the same.    *)
CreateDID(s) ==
    /\ pc[s] = "entry" /\ left[s] > 0
    /\ \/ ~ended[s] /\ Mint(s) /\ UNCHANGED left
       \/ EntryDone(s) /\ UNCHANGED minted
       \/ /\ Fails(s, "node")
          /\ EntryDone(s)
          /\ \E d \in Dids \ minted : minted' = minted \cup {d}
    /\ UNCHANGED <<table, files, adminByDID, created, ended, snapshot, atBoot, overlapped, crashes>>

CreateAdminBestEffort(s) ==
    /\ pc[s] = "persist"
    /\ pc' = [pc EXCEPT ![s] = "file"]
    /\ \/ table' = table \cup {did[s]}
       \/ Fails(s, "db") /\ UNCHANGED table
    /\ UNCHANGED <<minted, files, adminByDID, left, did, created, ended, snapshot, atBoot, overlapped, crashes>>

(* A statement that fails may have been applied.                           *)
CreateAdmin(s) ==
    /\ pc[s] = "persist"
    /\ \/ /\ ~ended[s]
          /\ pc' = [pc EXCEPT ![s] = "file"]
          /\ table' = table \cup {did[s]}
          /\ UNCHANGED <<left, did>>
       \/ /\ Fails(s, "db")
          /\ EntryDone(s)
          /\ UNCHANGED table \/ table' = table \cup {did[s]}
    /\ UNCHANGED <<minted, files, adminByDID, created, ended, snapshot, atBoot, overlapped, crashes>>

(* A file that cannot be written makes the entry a failed one, although    *)
(* its admin is in the table.                                              *)
WriteDIDFile(s) ==
    /\ pc[s] = "file"
    /\ \/ /\ files' = files \cup {did[s]}
          /\ created' = [created EXCEPT ![s] = @ \cup {did[s]}]
       \/ "file" \in Faults /\ UNCHANGED <<files, created>>
    /\ EntryDone(s)
    /\ UNCHANGED <<minted, table, adminByDID, ended, snapshot, atBoot, overlapped, crashes>>

ListAdminsIgnoresError(s) ==
    /\ pc[s] = "entry" /\ left[s] = 0
    /\ \/ /\ pc' = [pc EXCEPT ![s] = "swap"]
          /\ snapshot' = [snapshot EXCEPT ![s] = table]
       \/ /\ Fails(s, "db")
          /\ pc' = [pc EXCEPT ![s] = "ok"]
          /\ UNCHANGED snapshot
    /\ UNCHANGED <<stores, adminByDID, left, did, created, ended, atBoot, overlapped, crashes>>

ListAdminsStopsEarly(s) ==
    /\ pc[s] = "entry" /\ left[s] = 0
    /\ pc' = [pc EXCEPT ![s] = "swap"]
    /\ \/ snapshot' = [snapshot EXCEPT ![s] = table]
       \/ Fails(s, "db") /\ \E part \in SUBSET table : snapshot' = [snapshot EXCEPT ![s] = part]
    /\ UNCHANGED <<stores, adminByDID, left, did, created, ended, atBoot, overlapped, crashes>>

(* ReloadAdmins, first half: read the rows.  An error ends the call with   *)
(* 500 and leaves the map as it is.                                        *)
ListAdmins(s) ==
    /\ pc[s] = "entry" /\ left[s] = 0
    /\ \/ /\ ~ended[s]
          /\ pc' = [pc EXCEPT ![s] = "swap"]
          /\ snapshot' = [snapshot EXCEPT ![s] = table]
       \/ /\ Fails(s, "db")
          /\ pc' = [pc EXCEPT ![s] = "error"]
          /\ UNCHANGED snapshot
    /\ UNCHANGED <<stores, adminByDID, left, did, created, ended, atBoot, overlapped, crashes>>

(* ReloadAdmins, second half: replace the map under the lock, answer 200.  *)
SwapMap(s) ==
    /\ pc[s] = "swap"
    /\ pc' = [pc EXCEPT ![s] = "ok"]
    /\ adminByDID' = snapshot[s]
    /\ UNCHANGED <<stores, left, did, created, ended, snapshot, atBoot, overlapped, crashes>>

(* The client goes away, or the call's five minutes are over.              *)
ContextEnds(s) ==
    /\ "cancel" \in Faults
    /\ pc[s] \in Running /\ ~ended[s]
    /\ ended' = [ended EXCEPT ![s] = TRUE]
    /\ UNCHANGED <<stores, adminByDID, pc, left, did, created, snapshot, atBoot, overlapped, crashes>>

StopsAndStarts ==
    /\ "crash" \in Faults /\ crashes < MaxCrashes
    /\ crashes' = crashes + 1
    /\ pc' = [s \in Setups |-> IF pc[s] \in Running THEN "lost" ELSE pc[s]]
    /\ atBoot' = table
    /\ UNCHANGED <<stores, left, did, created, ended, snapshot, overlapped>>

RestartWithEmptyMap == StopsAndStarts /\ adminByDID' = {}

(* main loads the admins before it serves; if it cannot, it exits.         *)
Restart == StopsAndStarts /\ adminByDID' = table

Setup(s) ==
    \/ Begin(s) \/ CreateDID(s) \/ CreateAdmin(s) \/ WriteDIDFile(s)
    \/ ListAdmins(s) \/ SwapMap(s) \/ ContextEnds(s)

Idle == (\A s \in Setups : pc[s] \in {"ok", "error", "lost"}) /\ UNCHANGED vars

Next == Restart \/ Idle \/ \E s \in Setups : Setup(s)

Spec == Init /\ [][Next]_vars

(***************************************************************************)
(* Properties.                                                             *)
(***************************************************************************)

(* An admin reported with success exists on a node, in the table and on    *)
(* disk.                                                                   *)
ReportedIsPersisted ==
    \A s \in Setups : created[s] \subseteq minted \cap table \cap files

(* Requests are accepted only for admins that a restart will know too.     *)
MapIsPersisted == adminByDID \subseteq table

(* However reloads overlap and fail, an admin that was in the table when   *)
(* the process started is usable as long as the process lives.             *)
BootAdminsAreUsable == atBoot \subseteq adminByDID

(* After the 200 the new DIDs are usable.                                  *)
AnsweredIsUsable ==
    \A s \in Setups : pc[s] = "ok" => created[s] \subseteq adminByDID

(* While calls are made in turn, that is so: through entries that fail,    *)
(* reloads that fail and restarts.                                         *)
AnsweredInTurnIsUsable == ~overlapped => AnsweredIsUsable

(* And then an admin that is usable stays usable.                          *)
UsableStaysInTurn == [][~overlapped' => adminByDID \subseteq adminByDID']_vars
=============================================================================
