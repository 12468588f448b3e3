------------------------ MODULE AdminRegistry_proofs ------------------------
(***************************************************************************)
(* Proofs about AdminRegistry, for all calls, DIDs, bounds and faults.     *)
(***************************************************************************)
EXTENDS AdminRegistry, TLAPS

(* What a call has in hand between its steps: an entry, with a DID that    *)
(* exists on its node and, once inserted, in the table.                    *)
EntriesInHand ==
    \A s \in Setups :
        /\ pc[s] \in {"persist", "file"} => left[s] > 0 /\ did[s] \in minted
        /\ pc[s] = "file" => did[s] \in table

(* The snapshot of a reload is no older than the process and no newer than *)
(* the table.                                                              *)
SnapshotsAreOfThisProcess ==
    /\ \A s \in Setups : pc[s] = "swap" => atBoot \subseteq snapshot[s]
    /\ \A s \in Setups : snapshot[s] \subseteq table
    /\ atBoot \subseteq table

(* The three properties are not inductive: a step of a call uses the DID   *)
(* or the snapshot that an earlier step of that call left in hand.         *)
Registry ==
    /\ EntriesInHand /\ SnapshotsAreOfThisProcess
    /\ ReportedIsPersisted /\ MapIsPersisted /\ BootAdminsAreUsable

(* A server without admins starts with the invariant.                      *)
LEMMA RegistryInit == Init => TypeOK /\ Registry
<1>1. Init => TypeOK
  <2>1. ASSUME Init PROVE left \in [Setups -> 0 .. MaxEntries] /\ crashes \in 0 .. MaxCrashes
    BY <2>1, BoundsAssumption DEF Init
  <2>2. QED
    BY <2>1, Zenon DEF Init, TypeOK, Stages
<1>2. Init => Registry
  BY DEF Init, Registry, EntriesInHand, SnapshotsAreOfThisProcess,
         ReportedIsPersisted, MapIsPersisted, BootAdminsAreUsable
<1>3. QED
  BY <1>1, <1>2

(* Whatever becomes of an entry, one entry less is left.                   *)
LEMMA EntryDoneTypes ==
    ASSUME TypeOK, NEW s \in Setups, left[s] > 0, EntryDone(s)
    PROVE  /\ pc' \in [Setups -> Stages]
           /\ left' \in [Setups -> 0 .. MaxEntries]
           /\ did' \in [Setups -> Dids \cup {None}]
<1>1. left[s] \in 0 .. MaxEntries /\ left[s] - 1 \in 0 .. MaxEntries
  BY BoundsAssumption DEF TypeOK
<1>2. QED
  BY <1>1 DEF TypeOK, EntryDone, Stages, Running

(* Every step keeps the types.                                             *)
LEMMA TypeStep == TypeOK /\ Registry /\ [Next]_vars => TypeOK'
<1> SUFFICES ASSUME TypeOK, Registry, [Next]_vars PROVE TypeOK'
  OBVIOUS
<1> USE BoundsAssumption DEF TypeOK, stores, calls
<1>1. ASSUME NEW s \in Setups, Begin(s) PROVE TypeOK'
  <2>1. pc' \in [Setups -> Stages] /\ left' \in [Setups -> 0 .. MaxEntries]
    BY <1>1 DEF Begin, Stages, Running
  <2>2. QED
    BY <1>1, <2>1 DEF Begin
<1>2. ASSUME NEW s \in Setups, CreateDID(s) PROVE TypeOK'
  <2>1. CASE Mint(s) /\ UNCHANGED left
    BY <1>2, <2>1 DEF CreateDID, Mint, Stages, Running
  <2>2. CASE EntryDone(s)
    BY <1>2, <2>2, EntryDoneTypes DEF CreateDID, Mint
  <2>3. QED
    BY <1>2, <2>1, <2>2 DEF CreateDID
<1>3. ASSUME NEW s \in Setups, CreateAdmin(s) PROVE TypeOK'
  <2>1. did[s] \in Dids /\ left[s] > 0
    BY <1>3 DEF CreateAdmin, Registry, EntriesInHand
  <2>2. CASE EntryDone(s)
    BY <1>3, <2>1, <2>2, EntryDoneTypes DEF CreateAdmin
  <2>3. CASE ~EntryDone(s)
    BY <1>3, <2>1, <2>3 DEF CreateAdmin, Stages, Running
  <2>4. QED
    BY <2>2, <2>3
<1>4. ASSUME NEW s \in Setups, WriteDIDFile(s) PROVE TypeOK'
  <2>1. did[s] \in Dids /\ left[s] > 0
    BY <1>4 DEF WriteDIDFile, Registry, EntriesInHand
  <2>2. QED
    BY <1>4, <2>1, EntryDoneTypes DEF WriteDIDFile
<1>5. ASSUME NEW s \in Setups, ListAdmins(s) \/ SwapMap(s) \/ ContextEnds(s)
      PROVE  TypeOK'
  BY <1>5 DEF ListAdmins, SwapMap, ContextEnds, Stages, Running
<1>6. CASE Restart
  BY <1>6 DEF Restart, StopsAndStarts, Stages
<1>7. CASE UNCHANGED vars
  BY <1>7 DEF vars
<1>8. QED
  BY <1>1, <1>2, <1>3, <1>4, <1>5, <1>6, <1>7 DEF Next, Setup, Idle

(* Every step keeps the invariant.                                         *)
LEMMA RegistryStep == TypeOK /\ Registry /\ [Next]_vars => Registry'
<1> SUFFICES ASSUME TypeOK, Registry, [Next]_vars PROVE Registry'
  OBVIOUS
<1> USE DEF Registry, EntriesInHand, SnapshotsAreOfThisProcess, ReportedIsPersisted,
            MapIsPersisted, BootAdminsAreUsable, stores, calls, TypeOK
<1>1. ASSUME NEW s \in Setups, Begin(s) PROVE Registry'
  BY <1>1 DEF Begin
<1>2. ASSUME NEW s \in Setups, CreateDID(s) PROVE Registry'
  <2>1. minted \subseteq minted'
    BY <1>2 DEF CreateDID, Mint
  <2>2. CASE Mint(s) /\ UNCHANGED left
    BY <1>2, <2>1, <2>2 DEF CreateDID, Mint
  <2>3. CASE EntryDone(s)
    BY <1>2, <2>1, <2>3 DEF CreateDID, EntryDone
  <2>4. QED
    BY <1>2, <2>2, <2>3 DEF CreateDID
<1>3. ASSUME NEW s \in Setups, CreateAdmin(s) PROVE Registry'
  <2>1. table \subseteq table'
    BY <1>3 DEF CreateAdmin
  <2>2. CASE EntryDone(s)
    BY <1>3, <2>1, <2>2 DEF CreateAdmin, EntryDone
  <2>3. CASE ~EntryDone(s)
    BY <1>3, <2>1, <2>3 DEF CreateAdmin
  <2>4. QED
    BY <2>2, <2>3
<1>4. ASSUME NEW s \in Setups, WriteDIDFile(s) PROVE Registry'
  BY <1>4 DEF WriteDIDFile, EntryDone
<1>5. ASSUME NEW s \in Setups, ListAdmins(s) PROVE Registry'
  BY <1>5 DEF ListAdmins
<1>6. ASSUME NEW s \in Setups, SwapMap(s) PROVE Registry'
  BY <1>6 DEF SwapMap
<1>7. ASSUME NEW s \in Setups, ContextEnds(s) PROVE Registry'
  BY <1>7 DEF ContextEnds
<1>8. CASE Restart
  BY <1>8 DEF Restart, StopsAndStarts, Running
<1>9. CASE UNCHANGED vars
  BY <1>9 DEF vars
<1>10. QED
  BY <1>1, <1>2, <1>3, <1>4, <1>5, <1>6, <1>7, <1>8, <1>9 DEF Next, Setup, Idle

(* In every run the variables are of their types and the calls' hands and  *)
(* the stores agree.                                                       *)
LEMMA RegistryInvariant == Spec => [](TypeOK /\ Registry)
<1>1. TypeOK /\ Registry /\ [Next]_vars => TypeOK' /\ Registry'
  BY TypeStep, RegistryStep
<1>2. QED
  BY <1>1, RegistryInit, PTL DEF Spec

(* Tables, files, the map and the calls' snapshots keep their types.       *)
THEOREM TypeCorrect == Spec => []TypeOK
BY RegistryInvariant, PTL

(* An admin reported with success is on a node, in the table and on disk,  *)
(* whatever else fails.                                                    *)
THEOREM Reported == Spec => []ReportedIsPersisted
BY RegistryInvariant, PTL DEF Registry

(* The map never holds an admin that a restart would forget.               *)
THEOREM MapPersisted == Spec => []MapIsPersisted
BY RegistryInvariant, PTL DEF Registry

(* No overlap of reloads takes away an admin the process started with.     *)
THEOREM BootAdmins == Spec => []BootAdminsAreUsable
BY RegistryInvariant, PTL DEF Registry

(***************************************************************************)
(* Calls made in turn.                                                     *)
(***************************************************************************)

(* Of calls made in turn one runs at most, and its snapshot has what the   *)
(* map has and what the call is going to report.                           *)
OneRuns ==
    \A s, t \in Setups : pc[s] \in Running /\ pc[t] \in Running => s = t

SnapshotHasMap ==
    \A s \in Setups : pc[s] = "swap" =>
        adminByDID \subseteq snapshot[s] /\ created[s] \subseteq snapshot[s]

InTurn == ~overlapped => OneRuns /\ SnapshotHasMap /\ AnsweredIsUsable

(* A step of a call that leaves the map alone and ends neither in "swap"   *)
(* nor with 200 keeps InTurn.                                              *)
LEMMA InTurnQuiet ==
    ASSUME TypeOK, InTurn, NEW s \in Setups, NEW p,
           pc[s] \in Running, p \notin {"swap", "ok"}, pc' = [pc EXCEPT ![s] = p],
           \A t \in Setups : t # s => created'[t] = created[t],
           UNCHANGED <<adminByDID, snapshot, overlapped>>
    PROVE  InTurn'
BY DEF TypeOK, InTurn, OneRuns, SnapshotHasMap, AnsweredIsUsable, Running

(* Every step of calls made in turn keeps InTurn.                          *)
LEMMA InTurnStep ==
    ASSUME TypeOK, Registry, InTurn, [Next]_vars
    PROVE  InTurn'
<1> USE DEF TypeOK, stores, calls, InTurn, OneRuns, SnapshotHasMap, AnsweredIsUsable
<1>1. ASSUME NEW s \in Setups, Begin(s) PROVE InTurn'
  BY <1>1 DEF Begin, Running
<1>2. ASSUME NEW s \in Setups, CreateDID(s) \/ CreateAdmin(s) \/ WriteDIDFile(s)
      PROVE  InTurn'
  <2>1. PICK p \in {"entry", "persist", "file"} : pc' = [pc EXCEPT ![s] = p]
    BY <1>2 DEF CreateDID, Mint, CreateAdmin, WriteDIDFile, EntryDone
  <2>2. /\ pc[s] \in Running /\ UNCHANGED <<adminByDID, snapshot, overlapped>>
        /\ \A t \in Setups : t # s => created'[t] = created[t]
    BY <1>2 DEF CreateDID, Mint, CreateAdmin, WriteDIDFile, EntryDone, Running
  <2>3. QED
    BY <2>1, <2>2, InTurnQuiet
<1>3. ASSUME NEW s \in Setups, ListAdmins(s) PROVE InTurn'
  BY <1>3 DEF ListAdmins, Running, Registry,
              ReportedIsPersisted, MapIsPersisted
<1>4. ASSUME NEW s \in Setups, SwapMap(s) PROVE InTurn'
  BY <1>4 DEF SwapMap, Running
<1>5. ASSUME NEW s \in Setups, ContextEnds(s) PROVE InTurn'
  BY <1>5 DEF ContextEnds, Running
<1>6. CASE Restart
  BY <1>6 DEF Restart, StopsAndStarts, Running, Registry,
              ReportedIsPersisted
<1>7. CASE UNCHANGED vars
  BY <1>7 DEF vars
<1>8. QED
  BY <1>1, <1>2, <1>3, <1>4, <1>5, <1>6, <1>7 DEF Next, Setup, Idle

(* Calls made in turn stay in turn.                                        *)
LEMMA InTurnInvariant == Spec => []InTurn
<1>1. Init => InTurn
  BY DEF Init, InTurn, OneRuns, SnapshotHasMap, AnsweredIsUsable, Running
<1>2. TypeOK /\ Registry /\ InTurn /\ [Next]_vars => InTurn'
  BY InTurnStep
<1>3. QED
  BY <1>1, <1>2, RegistryInvariant, PTL DEF Spec

(* Setup calls made one after another keep the endpoint's promise: after   *)
(* the 200 the new admins are usable.                                      *)
THEOREM AnsweredInTurn == Spec => []AnsweredInTurnIsUsable
<1>1. InTurn => AnsweredInTurnIsUsable
  BY DEF InTurn, AnsweredInTurnIsUsable
<1>2. QED
  BY <1>1, InTurnInvariant, PTL

(* And no admin ever stops being usable, through failures and restarts.    *)
THEOREM UsableInTurn == Spec => UsableStaysInTurn
<1>1. ASSUME TypeOK, Registry, InTurn, [Next]_vars, ~overlapped'
      PROVE  adminByDID \subseteq adminByDID'
  <2>1. ASSUME NEW s \in Setups, SwapMap(s) PROVE adminByDID \subseteq adminByDID'
    BY <1>1, <2>1 DEF SwapMap, InTurn, SnapshotHasMap
  <2>2. CASE Restart
    BY <1>1, <2>2 DEF Restart, Registry, MapIsPersisted
  <2>3. CASE UNCHANGED adminByDID
    BY <2>3
  <2>4. QED
    BY <1>1, <2>1, <2>2, <2>3
       DEF Next, Idle, vars, Setup, Begin, CreateDID, CreateAdmin, WriteDIDFile,
           ListAdmins, ContextEnds
<1>2. TypeOK /\ Registry /\ InTurn /\ [Next]_vars
        => [~overlapped' => adminByDID \subseteq adminByDID']_vars
  BY <1>1
<1>3. QED
  BY <1>2, RegistryInvariant, InTurnInvariant, PTL DEF Spec, UsableStaysInTurn
=============================================================================
