--------------------- MODULE NodeAgentReconcilerProofs ----------------------
(***************************************************************************)
(* Proofs about the node-agent reconciler, for every value of the          *)
(* constants that satisfies ConstantsAssumption.                           *)
(***************************************************************************)
EXTENDS NodeAgentReconciler, FiniteSetTheorems, TLAPS

\* The number of failing systemd calls of one phase is a natural number,
\* since the units are finitely many.
LEMMA FailedCardinality ==
    ASSUME NEW failed \in SUBSET Unit
    PROVE  Cardinality(failed) \in Nat
<1>1. IsFiniteSet(failed)
  BY ConstantsAssumption, FS_Subset
<1>2. QED
  BY <1>1, FS_CardinalityType

\* A step that records the failures of a phase keeps the failure count
\* within its bound.
LEMMA FailureBound ==
    ASSUME NEW failed \in SUBSET Unit,
           failures \in 0..MaxFailures,
           failures + Cardinality(failed) <= MaxFailures
    PROVE  failures + Cardinality(failed) \in 0..MaxFailures
BY FailedCardinality, ConstantsAssumption

-----------------------------------------------------------------------------
\* The initial states are well typed.
LEMMA TypeInit == Init => TypeOK
<1> SUFFICES ASSUME Init PROVE TypeOK
  OBVIOUS
<1>1. EmptyOSC \in OSC
  BY DEF EmptyOSC, OSC
<1>2. PICK b \in Body :
         /\ diskUnit = [u \in Unit |-> IF u = GNA THEN b ELSE None]
         /\ loaded = diskUnit
         /\ active = diskUnit
  BY DEF Init
<1>3. diskUnit \in [Unit -> Body \cup {None}]
  BY <1>2
<1>4. QED
  BY <1>1, <1>2, <1>3, ConstantsAssumption DEF Init, TypeOK, Phases

\* Every step of the reconciler, and a stutter, preserves the type invariant.
LEMMA TypeStep == TypeOK /\ [Next]_vars => TypeOK'
<1> SUFFICES ASSUME TypeOK, [Next]_vars PROVE TypeOK'
  OBVIOUS
<1> USE ConstantsAssumption DEF TypeOK
<1>1. CASE Publish
  <2>1. osc' \in OSC
    BY <1>1 DEF Publish, OSC
  <2>2. QED
    BY <1>1, <2>1 DEF Publish
<1>2. CASE StartCycle
  BY <1>2 DEF StartCycle, Phases
<1>3. CASE ApplyFiles
  BY <1>3 DEF ApplyFiles, Phases, OSC, ChangedFiles, ChangedUnits,
              DeletedUnits, BodyOf, UnitDecl
<1>4. CASE ApplyUnits
  <2>1. PICK failed \in SUBSET (ChangedUnits \cup DeletedUnits) :
               /\ failures + Cardinality(failed) <= MaxFailures
               /\ enabled' = [u \in Unit |->
                                IF u \in failed THEN enabled[u]
                                ELSE IF u \in ChangedUnits THEN EnableUnit(u)
                                ELSE IF u \in DeletedUnits THEN FALSE
                                ELSE enabled[u]]
               /\ active' = [u \in Unit |->
                               IF u \in DeletedUnits \ failed THEN None
                               ELSE active[u]]
               /\ failures' = failures + Cardinality(failed)
    BY <1>4 DEF ApplyUnits
  <2>2. failed \in SUBSET Unit
    BY DEF ChangedUnits, DeletedUnits
  <2>3. failures' \in 0..MaxFailures
    BY <2>1, <2>2, FailureBound
  <2>4. actions' \subseteq SystemdAction
    BY <1>4 DEF ApplyUnits, SystemdAction, ChangedUnits, DeletedUnits
  <2>5. pc' \in Phases
    BY <1>4 DEF ApplyUnits, Phases
  <2>6. QED
    BY <1>4, <2>1, <2>3, <2>4, <2>5 DEF ApplyUnits, EnableUnit
<1>5. CASE DaemonReload
  BY <1>5 DEF DaemonReload, Phases, SystemdAction
<1>6. CASE ExecuteCommands
  <2>1. PICK failed \in SUBSET (ChangedUnits \ {GNA}) :
               /\ failures + Cardinality(failed) <= MaxFailures
               /\ active' = [u \in Unit |->
                               IF u \in (ChangedUnits \ {GNA}) \ failed
                               THEN IF StopUnit(u) THEN None ELSE loaded[u]
                               ELSE active[u]]
               /\ failures' = failures + Cardinality(failed)
    BY <1>6 DEF ExecuteCommands
  <2>2. failed \in SUBSET Unit
    BY DEF ChangedUnits
  <2>3. failures' \in 0..MaxFailures
    BY <2>1, <2>2, FailureBound
  <2>4. actions' \subseteq SystemdAction
    BY <1>6 DEF ExecuteCommands, SystemdAction, ChangedUnits
  <2>5. QED
    BY <1>6, <2>1, <2>3, <2>4 DEF ExecuteCommands, Phases
<1>7. CASE PersistLastApplied
  BY <1>7 DEF PersistLastApplied, Phases
<1>8. CASE RestartAgent
  BY <1>8 DEF RestartAgent, Phases
<1>9. CASE Crash
  BY <1>9 DEF Crash, Phases
<1>10. CASE UNCHANGED vars
  BY <1>10 DEF vars
<1>11. QED
  BY <1>1, <1>2, <1>3, <1>4, <1>5, <1>6, <1>7, <1>8, <1>9, <1>10
     DEF Next, Reconcile

(* Type correctness: every variable always holds a value of its type, the  *)
(* systemd calls recorded are well formed and the crash, failure and       *)
(* publish counters stay within their bounds.                              *)
THEOREM TypeCorrect == Spec => []TypeOK
BY TypeInit, TypeStep, PTL DEF Spec

-----------------------------------------------------------------------------
(* The host between cycles.  With no crash and no failing systemd call,   *)
(* every step of a cycle moves the host from what last-applied says       *)
(* towards what the target says, unit by unit.                            *)

\* Unit u is on the host as the declaration d says (HostReflects, per unit).
Reflects(u, d) ==
    /\ diskUnit[u] = BodyOf(d)
    /\ loaded[u] = diskUnit[u]
    /\ enabled[u] = (d # None /\ (u = GNA \/ d.enable # "false"))
    /\ active[u] = IF d # None /\ (u = GNA \/ (d.enable # "false"
                                             /\ d.command # "stop"))
                   THEN loaded[u] ELSE None

\* The agent's own unit as bootstrap installed it, before an OSC declares it.
Boot(u) ==
    /\ u = GNA
    /\ diskUnit[u] \in Body
    /\ loaded[u] = diskUnit[u]
    /\ active[u] = loaded[u]
    /\ enabled[u] = TRUE

\* Unit u is on the host as last-applied says.
Baseline(u) ==
    IF u \in Managed(lastApplied) THEN Reflects(u, lastApplied.units[u])
                                  ELSE Boot(u)

\* The diff leaves unit u alone.
Untouched(u) == u \notin ChangedUnits \cup DeletedUnits

\* How far a cycle has moved the host, phase by phase.
PhaseInv ==
    /\ pc \in {"idle", "files"} =>
          /\ diskFile = lastApplied.files
          /\ \A u \in Unit : Baseline(u)
    /\ pc \in {"units", "reload", "commands", "persist"} =>
          /\ diskFile = target.files
          /\ \A u \in Unit : Untouched(u) => Baseline(u)
          /\ \A u \in ChangedUnits \cup DeletedUnits :
                diskUnit[u] = BodyOf(target.units[u])
    /\ pc \in {"reload", "commands", "persist"} =>
          /\ GNA \notin DeletedUnits
          /\ \A u \in ChangedUnits : enabled[u] = EnableUnit(u)
          /\ \A u \in DeletedUnits : enabled[u] = FALSE /\ active[u] = None
    /\ pc \in {"commands", "persist"} =>
          \A u \in ChangedUnits \cup DeletedUnits : loaded[u] = diskUnit[u]
    /\ pc = "persist" =>
          \A u \in ChangedUnits \ {GNA} :
             active[u] = IF StopUnit(u) THEN None ELSE loaded[u]
    /\ pc = "cancelled" =>
          /\ lastApplied.units[GNA] # None
          /\ diskFile = lastApplied.files
          /\ \A u \in Unit \ {GNA} : Baseline(u)
          /\ diskUnit[GNA] = BodyOf(lastApplied.units[GNA])
          /\ loaded[GNA] = diskUnit[GNA]
          /\ enabled[GNA] = TRUE

\* The inductive invariant behind BaselineMatchesHost.
BaselineInv == TypeOK /\ PhaseInv

\* A phase that may record no failure fails no call.
LEMMA NoFailure ==
    ASSUME NEW failed \in SUBSET Unit,
           Cardinality(failed) <= 0
    PROVE  failed = {}
<1>1. IsFiniteSet(failed)
  BY ConstantsAssumption, FS_Subset
<1>2. Cardinality(failed) = 0
  BY <1>1, FS_CardinalityType
<1>3. QED
  BY <1>1, <1>2, FS_EmptySet

\* A unit the diff leaves alone is declared alike in target and last-applied.
LEMMA UntouchedAlike ==
    ASSUME TypeOK, NEW u \in Unit, Untouched(u)
    PROVE  target.units[u] = lastApplied.units[u]
BY DEF Untouched, ChangedUnits, DeletedUnits

\* Installation: last-applied is empty, bootstrap installed the agent's unit.
LEMMA BaselineInit == Init => BaselineInv
<1> SUFFICES ASSUME Init PROVE BaselineInv
  OBVIOUS
<1>1. TypeOK
  BY TypeInit
<1>2. PICK b \in Body :
         /\ diskUnit = [u \in Unit |-> IF u = GNA THEN b ELSE None]
         /\ loaded = diskUnit
         /\ active = diskUnit
  BY DEF Init
<1>3. \A u \in Unit : Baseline(u)
  BY <1>2, ConstantsAssumption
     DEF Init, Baseline, Managed, Reflects, Boot, EmptyOSC, BodyOf
<1>4. QED
  BY <1>1, <1>3 DEF BaselineInv, PhaseInv, Init, EmptyOSC

\* A unit whose host state and declaration in last-applied a step leaves
\* alone stays as last-applied says.
LEMMA BaselineFrame ==
    ASSUME NEW u \in Unit, Baseline(u),
           lastApplied'.units[u] = lastApplied.units[u],
           u # GNA \/ lastApplied'.units[GNA] = lastApplied.units[GNA],
           diskUnit'[u] = diskUnit[u], loaded'[u] = loaded[u],
           enabled'[u] = enabled[u], active'[u] = active[u]
    PROVE  Baseline(u)'
BY DEF Baseline, Reflects, Boot, Managed

\* With no crash and no failing call, every step keeps the host where the
\* phase of the cycle says it is.
LEMMA BaselineStep ==
    ASSUME MaxCrashes = 0, MaxFailures = 0
    PROVE  BaselineInv /\ [Next]_vars => BaselineInv'
<1> SUFFICES ASSUME BaselineInv, [Next]_vars PROVE BaselineInv'
  OBVIOUS
<1> USE ConstantsAssumption
<1>0a. TypeOK
  BY DEF BaselineInv
<1>0b. TypeOK'
  BY <1>0a, TypeStep
<1>0c. PhaseInv
  BY DEF BaselineInv
<1>1. CASE Publish
  <2>1. UNCHANGED <<lastApplied, pc, target, diskFile, diskUnit, loaded,
                    enabled, active>>
    BY <1>1 DEF Publish
  <2>2. PhaseInv'
    BY <1>0c, <2>1 DEF PhaseInv, Baseline, Reflects, Boot, Managed,
                       Untouched, ChangedUnits, DeletedUnits, EnableUnit,
                       StopUnit, BodyOf
  <2>3. QED
    BY <1>0b, <2>2 DEF BaselineInv
<1>2. CASE StartCycle
  <2>1. pc = "idle" /\ pc' = "files"
    BY <1>2 DEF StartCycle
  <2>2. diskFile' = lastApplied'.files
    BY <1>0c, <1>2, <2>1 DEF StartCycle, PhaseInv
  <2>3. \A u \in Unit : Baseline(u)'
    BY <1>0c, <1>2, <2>1, BaselineFrame DEF StartCycle, PhaseInv
  <2>4. QED
    BY <1>0b, <2>1, <2>2, <2>3 DEF BaselineInv, PhaseInv
<1>3. CASE ApplyFiles
  <2>1. pc = "files" /\ pc' = "units"
    BY <1>3 DEF ApplyFiles
  <2>2. ChangedUnits' = ChangedUnits /\ DeletedUnits' = DeletedUnits
    BY <1>3 DEF ApplyFiles, ChangedUnits, DeletedUnits
  <2>3. diskFile' = target'.files
    BY <1>0a, <1>0c, <1>3, <2>1 DEF ApplyFiles, ChangedFiles, PhaseInv,
                                     TypeOK, OSC
  <2>4. \A u \in Unit : Untouched(u)' => Baseline(u)'
    <3> SUFFICES ASSUME NEW u \in Unit, Untouched(u)' PROVE Baseline(u)'
      OBVIOUS
    <3>1. Untouched(u)
      BY <2>2 DEF Untouched
    <3>2. Baseline(u)
      BY <1>0c, <2>1 DEF PhaseInv
    <3>3. QED
      BY <1>3, <3>1, <3>2, BaselineFrame DEF ApplyFiles, Untouched
  <2>5. \A u \in ChangedUnits' \cup DeletedUnits' :
           diskUnit'[u] = BodyOf(target'.units[u])
    BY <1>3, <2>2 DEF ApplyFiles, ChangedUnits, DeletedUnits
  <2>6. QED
    BY <1>0b, <2>1, <2>3, <2>4, <2>5 DEF BaselineInv, PhaseInv
<1>4. CASE ApplyUnits
  <2>1. PICK failed \in SUBSET (ChangedUnits \cup DeletedUnits) :
               /\ failures + Cardinality(failed) <= MaxFailures
               /\ enabled' = [u \in Unit |->
                                IF u \in failed THEN enabled[u]
                                ELSE IF u \in ChangedUnits THEN EnableUnit(u)
                                ELSE IF u \in DeletedUnits THEN FALSE
                                ELSE enabled[u]]
               /\ active' = [u \in Unit |->
                               IF u \in DeletedUnits \ failed THEN None
                               ELSE active[u]]
    BY <1>4 DEF ApplyUnits
  <2>2. failed = {}
    <3>1. failed \in SUBSET Unit /\ failures \in Nat
      BY <1>0a DEF ChangedUnits, DeletedUnits, TypeOK
    <3>2. Cardinality(failed) \in Nat
      BY <3>1, FailedCardinality
    <3>3. QED
      BY <2>1, <3>1, <3>2, NoFailure
  <2>3. ChangedUnits' = ChangedUnits /\ DeletedUnits' = DeletedUnits
        /\ \A u \in Unit : EnableUnit(u)' = EnableUnit(u)
    BY <1>4 DEF ApplyUnits, ChangedUnits, DeletedUnits, EnableUnit
  <2>4. pc = "units"
    BY <1>4 DEF ApplyUnits
  <2>5. CASE GNA \in DeletedUnits
    <3>1. pc' = "stopped"
      BY <1>4, <2>1, <2>2, <2>5 DEF ApplyUnits
    <3>2. QED
      BY <1>0b, <3>1 DEF BaselineInv, PhaseInv
  <2>6. CASE GNA \notin DeletedUnits
    <3>1. pc' = "reload"
      BY <1>4, <2>6 DEF ApplyUnits
    <3>2. diskFile' = target'.files
      BY <1>0c, <1>4, <2>4 DEF ApplyUnits, PhaseInv
    <3>3. \A u \in Unit : Untouched(u)' => Baseline(u)'
      <4> SUFFICES ASSUME NEW u \in Unit, Untouched(u)' PROVE Baseline(u)'
        OBVIOUS
      <4>1. Untouched(u)
        BY <2>3 DEF Untouched
      <4>2. Baseline(u)
        BY <1>0c, <2>4, <4>1 DEF PhaseInv
      <4>3. enabled'[u] = enabled[u] /\ active'[u] = active[u]
        BY <2>1, <2>2, <4>1 DEF Untouched
      <4>4. QED
        BY <1>4, <4>2, <4>3, BaselineFrame DEF ApplyUnits
    <3>4. \A u \in ChangedUnits' \cup DeletedUnits' :
             diskUnit'[u] = BodyOf(target'.units[u])
      BY <1>0c, <1>4, <2>3, <2>4 DEF ApplyUnits, PhaseInv
    <3>5. \A u \in ChangedUnits' : enabled'[u] = EnableUnit(u)'
      BY <2>1, <2>2, <2>3 DEF ChangedUnits
    <3>6. \A u \in DeletedUnits' : enabled'[u] = FALSE /\ active'[u] = None
      <4> SUFFICES ASSUME NEW u \in DeletedUnits
                   PROVE  enabled'[u] = FALSE /\ active'[u] = None
        BY <2>3
      <4>1. u \in Unit /\ u \notin ChangedUnits
        BY DEF DeletedUnits, ChangedUnits
      <4>2. QED
        BY <2>1, <2>2, <4>1
    <3>7. QED
      BY <1>0b, <2>3, <2>6, <3>1, <3>2, <3>3, <3>4, <3>5, <3>6
         DEF BaselineInv, PhaseInv
  <2>7. QED
    BY <2>5, <2>6
<1>5. CASE DaemonReload
  <2>1. pc = "reload" /\ pc' = "commands"
    BY <1>5 DEF DaemonReload
  <2>2. ChangedUnits' = ChangedUnits /\ DeletedUnits' = DeletedUnits
        /\ \A u \in Unit : EnableUnit(u)' = EnableUnit(u)
        /\ \A v \in Unit : StopUnit(v)' = StopUnit(v)
    BY <1>5 DEF DaemonReload, ChangedUnits, DeletedUnits, EnableUnit, StopUnit
  \* Units as last-applied says have their loaded definition on disk
  \* already, so the reload leaves them alone.
  <2>3. \A u \in Unit : Untouched(u) => loaded'[u] = loaded[u]
    <3> SUFFICES ASSUME NEW u \in Unit, Untouched(u)
                 PROVE  loaded'[u] = loaded[u]
      OBVIOUS
    <3>1. loaded[u] = diskUnit[u]
      BY <1>0c, <2>1 DEF PhaseInv, Baseline, Reflects, Boot
    <3>2. QED
      BY <1>5, <3>1 DEF DaemonReload
  <2>4. \A u \in ChangedUnits \cup DeletedUnits : loaded'[u] = diskUnit'[u]
    BY <1>5 DEF DaemonReload, ReloadNeeded
  <2>5. \A u \in Unit : Untouched(u)' => Baseline(u)'
    <3> SUFFICES ASSUME NEW u \in Unit, Untouched(u)' PROVE Baseline(u)'
      OBVIOUS
    <3>1. Untouched(u)
      BY <2>2 DEF Untouched
    <3>2. Baseline(u)
      BY <1>0c, <2>1, <3>1 DEF PhaseInv
    <3>3. QED
      BY <1>5, <2>3, <3>1, <3>2, BaselineFrame DEF DaemonReload
  <2>6. /\ diskFile' = target'.files
        /\ \A u \in ChangedUnits' \cup DeletedUnits' :
              diskUnit'[u] = BodyOf(target'.units[u])
    BY <1>0c, <1>5, <2>1, <2>2 DEF PhaseInv, DaemonReload
  <2>7. /\ GNA \notin DeletedUnits'
        /\ \A u \in ChangedUnits' : enabled'[u] = EnableUnit(u)'
        /\ \A u \in DeletedUnits' : enabled'[u] = FALSE /\ active'[u] = None
    BY <1>0c, <1>5, <2>1, <2>2 DEF PhaseInv, DaemonReload, ChangedUnits
  <2>8. \A u \in ChangedUnits' \cup DeletedUnits' : loaded'[u] = diskUnit'[u]
    BY <2>2, <2>4
  <2>9. QED
    BY <1>0b, <2>1, <2>5, <2>6, <2>7, <2>8 DEF BaselineInv, PhaseInv
<1>6. CASE ExecuteCommands
  <2>1. PICK failed \in SUBSET (ChangedUnits \ {GNA}) :
               /\ failures + Cardinality(failed) <= MaxFailures
               /\ active' = [u \in Unit |->
                               IF u \in (ChangedUnits \ {GNA}) \ failed
                               THEN IF StopUnit(u) THEN None ELSE loaded[u]
                               ELSE active[u]]
    BY <1>6 DEF ExecuteCommands
  <2>2. failed = {}
    <3>1. failed \in SUBSET Unit /\ failures \in Nat
      BY <1>0a DEF ChangedUnits, TypeOK
    <3>2. Cardinality(failed) \in Nat
      BY <3>1, FailedCardinality
    <3>3. QED
      BY <2>1, <3>1, <3>2, NoFailure
  <2>3. pc = "commands" /\ pc' = "persist"
    BY <1>6 DEF ExecuteCommands
  <2>4. ChangedUnits' = ChangedUnits /\ DeletedUnits' = DeletedUnits
        /\ \A u \in Unit : EnableUnit(u)' = EnableUnit(u)
        /\ \A v \in Unit : StopUnit(v)' = StopUnit(v)
    BY <1>6 DEF ExecuteCommands, ChangedUnits, DeletedUnits, EnableUnit,
                StopUnit
  <2>5. \A u \in Unit : u \notin ChangedUnits \ {GNA} => active'[u] = active[u]
    BY <2>1, <2>2
  <2>6. \A u \in Unit : Untouched(u)' => Baseline(u)'
    <3> SUFFICES ASSUME NEW u \in Unit, Untouched(u)' PROVE Baseline(u)'
      OBVIOUS
    <3>1. Untouched(u)
      BY <2>4 DEF Untouched
    <3>2. Baseline(u)
      BY <1>0c, <2>3, <3>1 DEF PhaseInv
    <3>3. QED
      BY <1>6, <2>5, <3>1, <3>2, BaselineFrame DEF ExecuteCommands, Untouched
  <2>7. /\ diskFile' = target'.files
        /\ \A u \in ChangedUnits' \cup DeletedUnits' :
              diskUnit'[u] = BodyOf(target'.units[u])
        /\ \A u \in ChangedUnits' \cup DeletedUnits' : loaded'[u] = diskUnit'[u]
    BY <1>0c, <1>6, <2>3, <2>4 DEF PhaseInv, ExecuteCommands
  <2>8. /\ GNA \notin DeletedUnits'
        /\ \A u \in ChangedUnits' : enabled'[u] = EnableUnit(u)'
        /\ \A u \in DeletedUnits' : enabled'[u] = FALSE /\ active'[u] = None
    <3>1. \A u \in DeletedUnits : u \in Unit /\ u \notin ChangedUnits
      BY DEF DeletedUnits, ChangedUnits
    <3>2. /\ GNA \notin DeletedUnits'
          /\ \A u \in ChangedUnits' : enabled'[u] = EnableUnit(u)'
      <4>1. GNA \notin DeletedUnits
            /\ \A u \in ChangedUnits : enabled[u] = EnableUnit(u)
        BY <1>0c, <2>3 DEF PhaseInv
      <4>2. enabled' = enabled
        BY <1>6 DEF ExecuteCommands
      <4>3. ChangedUnits \subseteq Unit
        BY DEF ChangedUnits
      <4>4. QED
        BY <2>4, <4>1, <4>2, <4>3
    <3>3. ASSUME NEW u \in DeletedUnits'
          PROVE  enabled'[u] = FALSE /\ active'[u] = None
      <4>1. u \in DeletedUnits /\ u \in Unit /\ u \notin ChangedUnits
        BY <2>4, <3>1
      <4>2. enabled[u] = FALSE /\ active[u] = None
        BY <1>0c, <2>3, <4>1 DEF PhaseInv
      <4>3. QED
        BY <1>6, <2>5, <4>1, <4>2 DEF ExecuteCommands
    <3>4. QED
      BY <3>2, <3>3
  <2>9. \A u \in ChangedUnits' \ {GNA} :
           active'[u] = IF StopUnit(u)' THEN None ELSE loaded'[u]
    BY <1>6, <2>1, <2>2, <2>4 DEF ExecuteCommands, ChangedUnits
  <2>10. QED
    BY <1>0b, <2>3, <2>6, <2>7, <2>8, <2>9 DEF BaselineInv, PhaseInv
<1>7. CASE PersistLastApplied
  <2>1. /\ pc = "persist" /\ lastApplied' = target
        /\ UNCHANGED <<target, diskFile, diskUnit, loaded, enabled, active>>
    BY <1>7 DEF PersistLastApplied
  <2>2. GNA \notin DeletedUnits
    BY <1>0c, <2>1 DEF PhaseInv
  \* Every unit but a changed agent unit is now as the new baseline says.
  <2>3. ASSUME NEW u \in Unit, ~(u = GNA /\ u \in ChangedUnits)
        PROVE  Baseline(u)'
    <3>1. CASE Untouched(u)
      <4>1. target.units[u] = lastApplied.units[u]
        BY <1>0a, <3>1, UntouchedAlike
      <4>2. Baseline(u)
        BY <1>0c, <2>1, <3>1 DEF PhaseInv
      <4>3. QED
        BY <2>1, <4>1, <4>2, BaselineFrame
    <3>2. CASE u \in ChangedUnits
      <4>1. u # GNA /\ target.units[u] # None
        BY <2>3, <3>2 DEF ChangedUnits
      <4>2. /\ diskUnit[u] = BodyOf(target.units[u])
            /\ loaded[u] = diskUnit[u]
            /\ enabled[u] = EnableUnit(u)
            /\ active[u] = IF StopUnit(u) THEN None ELSE loaded[u]
        BY <1>0c, <2>1, <3>2, <4>1 DEF PhaseInv
      <4>3. QED
        BY <2>1, <4>1, <4>2
           DEF Baseline, Managed, Reflects, EnableUnit, StopUnit
    <3>3. CASE u \in DeletedUnits
      <4>1. u # GNA /\ target.units[u] = None
        BY <2>2, <3>3 DEF DeletedUnits
      <4>2. /\ diskUnit[u] = BodyOf(target.units[u])
            /\ loaded[u] = diskUnit[u]
            /\ enabled[u] = FALSE /\ active[u] = None
        BY <1>0c, <2>1, <3>3 DEF PhaseInv
      <4>3. QED
        BY <2>1, <4>1, <4>2 DEF Baseline, Managed, Reflects, BodyOf
    <3>4. QED
      BY <3>1, <3>2, <3>3 DEF Untouched
  <2>4. diskFile' = lastApplied'.files
    BY <1>0c, <2>1 DEF PhaseInv
  <2>5. CASE GNA \in ChangedUnits
    <3>1. pc' = "cancelled"
      BY <1>7, <2>5 DEF PersistLastApplied
    <3>2. /\ lastApplied'.units[GNA] # None
          /\ diskUnit'[GNA] = BodyOf(lastApplied'.units[GNA])
          /\ loaded'[GNA] = diskUnit'[GNA]
          /\ enabled'[GNA] = TRUE
      BY <1>0c, <2>1, <2>5 DEF PhaseInv, ChangedUnits, EnableUnit
    <3>3. \A u \in Unit \ {GNA} : Baseline(u)'
      BY <2>3
    <3>4. QED
      BY <1>0b, <2>4, <3>1, <3>2, <3>3 DEF BaselineInv, PhaseInv
  <2>6. CASE GNA \notin ChangedUnits
    <3>1. pc' = "idle"
      BY <1>7, <2>6 DEF PersistLastApplied
    <3>2. \A u \in Unit : Baseline(u)'
      BY <2>3, <2>6
    <3>3. QED
      BY <1>0b, <2>4, <3>1, <3>2 DEF BaselineInv, PhaseInv
  <2>7. QED
    BY <2>5, <2>6
<1>8. CASE RestartAgent
  <2>1. /\ pc = "cancelled" /\ pc' = "idle"
        /\ active' = [active EXCEPT ![GNA] = loaded[GNA]]
        /\ UNCHANGED <<lastApplied, diskFile, diskUnit, loaded, enabled>>
    BY <1>8 DEF RestartAgent
  <2>2. \A u \in Unit \ {GNA} : Baseline(u)'
    BY <1>0a, <1>0c, <2>1, BaselineFrame DEF PhaseInv, TypeOK
  \* The agent comes back running the unit systemd has loaded.
  <2>3. Baseline(GNA)'
    <3>1. /\ lastApplied.units[GNA] # None
          /\ diskUnit[GNA] = BodyOf(lastApplied.units[GNA])
          /\ loaded[GNA] = diskUnit[GNA]
          /\ enabled[GNA] = TRUE
      BY <1>0c, <2>1 DEF PhaseInv
    <3>2. active'[GNA] = loaded[GNA]
      BY <1>0a, <2>1 DEF TypeOK
    <3>3. QED
      BY <2>1, <3>1, <3>2 DEF Baseline, Managed, Reflects
  <2>4. diskFile' = lastApplied'.files
    BY <1>0c, <2>1 DEF PhaseInv
  <2>5. QED
    BY <1>0b, <2>1, <2>2, <2>3, <2>4 DEF BaselineInv, PhaseInv
<1>9. CASE Crash
  BY <1>0a, <1>9 DEF Crash, TypeOK
<1>10. CASE UNCHANGED vars
  <2>1. ChangedUnits' = ChangedUnits /\ DeletedUnits' = DeletedUnits
    BY <1>10 DEF vars, ChangedUnits, DeletedUnits
  <2>2. \A u \in Unit : Baseline(u)' = Baseline(u)
    BY <1>10 DEF vars, Baseline, Reflects, Boot, Managed
  <2>3. \A u \in Unit : /\ Untouched(u)' = Untouched(u)
                       /\ EnableUnit(u)' = EnableUnit(u)
                       /\ StopUnit(u)' = StopUnit(u)
    BY <1>10, <2>1 DEF vars, Untouched, EnableUnit, StopUnit
  <2> USE <1>10 DEF vars
  <2>0. ChangedUnits \cup DeletedUnits \subseteq Unit
    BY DEF ChangedUnits, DeletedUnits
  <2>4. (pc \in {"idle", "files"} =>
          /\ diskFile = lastApplied.files
          /\ \A u \in Unit : Baseline(u))'
    BY <1>0c, <2>2 DEF PhaseInv
  <2>5. (pc \in {"units", "reload", "commands", "persist"} =>
          /\ diskFile = target.files
          /\ \A u \in Unit : Untouched(u) => Baseline(u)
          /\ \A u \in ChangedUnits \cup DeletedUnits :
                diskUnit[u] = BodyOf(target.units[u]))'
    BY <1>0c, <2>0, <2>1, <2>2, <2>3 DEF PhaseInv, BodyOf
  <2>6. (pc \in {"reload", "commands", "persist"} =>
          /\ GNA \notin DeletedUnits
          /\ \A u \in ChangedUnits : enabled[u] = EnableUnit(u)
          /\ \A u \in DeletedUnits : enabled[u] = FALSE /\ active[u] = None)'
    BY <1>0c, <2>0, <2>1, <2>3 DEF PhaseInv
  <2>7. (pc \in {"commands", "persist"} =>
          \A u \in ChangedUnits \cup DeletedUnits : loaded[u] = diskUnit[u])'
    BY <1>0c, <2>1 DEF PhaseInv
  <2>8. (pc = "persist" =>
          \A u \in ChangedUnits \ {GNA} :
             active[u] = IF StopUnit(u) THEN None ELSE loaded[u])'
    BY <1>0c, <2>0, <2>1, <2>3 DEF PhaseInv
  <2>9. (pc = "cancelled" =>
          /\ lastApplied.units[GNA] # None
          /\ diskFile = lastApplied.files
          /\ \A u \in Unit \ {GNA} : Baseline(u)
          /\ diskUnit[GNA] = BodyOf(lastApplied.units[GNA])
          /\ loaded[GNA] = diskUnit[GNA]
          /\ enabled[GNA] = TRUE)'
    BY <1>0c, <2>2 DEF PhaseInv, BodyOf
  <2>10. PhaseInv'
    BY <2>4, <2>5, <2>6, <2>7, <2>8, <2>9 DEF PhaseInv
  <2>11. QED
    BY <1>0b, <2>10 DEF BaselineInv
<1>11. QED
  BY <1>1, <1>2, <1>3, <1>4, <1>5, <1>6, <1>7, <1>8, <1>9, <1>10
     DEF Next, Reconcile

(* Between cycles the host is exactly as last-applied-osc.yaml says       *)
(* (BaselineMatchesHost), for every set of units, files, bodies and data  *)
(* and every number of OSC updates, as long as the agent does not crash   *)
(* and no systemd call fails: each phase of a cycle moves the host from   *)
(* last-applied towards the target unit by unit (PhaseInv), the reload    *)
(* lands before the restarts, and last-applied takes the target only      *)
(* when every unit is as the target says, the restart of the agent's own  *)
(* unit aside, which systemd performs before the next cycle.              *)
THEOREM BaselineHolds ==
    ASSUME MaxCrashes = 0, MaxFailures = 0
    PROVE  Spec => []BaselineMatchesHost
<1>1. BaselineInv => BaselineMatchesHost
  <2> SUFFICES ASSUME BaselineInv, pc = "idle"
               PROVE  HostReflects(lastApplied)
    BY DEF BaselineMatchesHost
  <2>1. diskFile = lastApplied.files /\ \A u \in Unit : Baseline(u)
    BY DEF BaselineInv, PhaseInv
  <2>2. \A u \in Managed(lastApplied) : Reflects(u, lastApplied.units[u])
    BY <2>1 DEF Baseline, Managed
  <2>3. QED
    BY <2>1, <2>2 DEF HostReflects, Reflects
<1>2. QED
  BY BaselineInit, BaselineStep, <1>1, PTL DEF Spec

-----------------------------------------------------------------------------
(* AgentStaysUp.  The agent's unit can leave a cycle's diff as deleted    *)
(* only if the published OSC dropped it, which only RemoveAgentUnit lets  *)
(* an update do; every other path keeps it enabled and running.           *)

\* The phases between reading the secret and writing last-applied.
InCycle == {"files", "units", "reload", "commands", "persist"}

\* How the agent's unit stays up: once applied, the published OSC keeps
\* it, a cycle never sees it deleted, and its unit file, loaded definition
\* and running body are bodies.
AgentInv ==
    /\ TypeOK
    /\ lastApplied.units[GNA] # None => osc.units[GNA] # None
    /\ pc \in InCycle /\ target.units[GNA] # None => osc.units[GNA] # None
    /\ pc \in InCycle /\ target.units[GNA] = None => lastApplied.units[GNA] = None
    /\ enabled[GNA] = TRUE
    /\ diskUnit[GNA] \in Body /\ loaded[GNA] \in Body /\ active[GNA] \in Body

\* Bootstrap leaves the agent's unit installed, enabled and running.
LEMMA AgentInit == Init => AgentInv
<1> SUFFICES ASSUME Init PROVE AgentInv
  OBVIOUS
<1>1. PICK b \in Body :
         /\ diskUnit = [u \in Unit |-> IF u = GNA THEN b ELSE None]
         /\ loaded = diskUnit
         /\ active = diskUnit
  BY DEF Init
<1>2. QED
  BY <1>1, TypeInit, ConstantsAssumption DEF Init, AgentInv, EmptyOSC

\* Every step keeps the agent's unit up when no update may drop it.
LEMMA AgentStep ==
    ASSUME ~RemoveAgentUnit
    PROVE  AgentInv /\ [Next]_vars => AgentInv'
<1> SUFFICES ASSUME AgentInv, [Next]_vars PROVE AgentInv'
  OBVIOUS
<1>0. TypeOK'
  BY TypeStep DEF AgentInv
<1> USE ConstantsAssumption DEF AgentInv, InCycle
<1>1. CASE Publish
  <2>1. osc.units[GNA] # None => osc'.units[GNA] # None
    BY <1>1 DEF Publish, TypeOK, OSC
  <2>2. QED
    BY <1>0, <1>1, <2>1 DEF Publish
<1>2. CASE StartCycle
  BY <1>0, <1>2 DEF StartCycle
<1>3. CASE ApplyFiles
  <2>1. GNA \notin DeletedUnits
    BY <1>3 DEF ApplyFiles, DeletedUnits
  <2>2. GNA \in ChangedUnits => target.units[GNA] \in UnitDecl
    BY DEF ChangedUnits, TypeOK, OSC
  <2>3. diskUnit'[GNA] \in Body
    <3>1. diskUnit'[GNA] = IF GNA \in ChangedUnits \cup DeletedUnits
                           THEN BodyOf(target.units[GNA]) ELSE diskUnit[GNA]
      BY <1>3 DEF ApplyFiles
    <3>2. CASE GNA \in ChangedUnits
      <4>1. BodyOf(target.units[GNA]) = target.units[GNA].body
        BY <3>2 DEF BodyOf, ChangedUnits
      <4>2. QED
        BY <2>2, <3>1, <3>2, <4>1 DEF UnitDecl
    <3>3. CASE GNA \notin ChangedUnits
      BY <2>1, <3>1, <3>3
    <3>4. QED
      BY <3>2, <3>3
  <2>4. QED
    BY <1>0, <1>3, <2>3 DEF ApplyFiles
<1>4. CASE ApplyUnits
  <2>1. GNA \notin DeletedUnits
    BY <1>4 DEF ApplyUnits, DeletedUnits
  <2>2. enabled'[GNA] = TRUE /\ active'[GNA] = active[GNA]
    BY <1>4, <2>1 DEF ApplyUnits, EnableUnit
  <2>3. pc' = "reload"
    BY <1>4, <2>1 DEF ApplyUnits
  <2>4. QED
    BY <1>0, <1>4, <2>2, <2>3 DEF ApplyUnits
<1>5. CASE DaemonReload
  BY <1>0, <1>5 DEF DaemonReload
<1>6. CASE ExecuteCommands
  <2>1. active'[GNA] = active[GNA]
    BY <1>6 DEF ExecuteCommands
  <2>2. QED
    BY <1>0, <1>6, <2>1 DEF ExecuteCommands
<1>7. CASE PersistLastApplied
  BY <1>0, <1>7 DEF PersistLastApplied
<1>8. CASE Crash
  BY <1>0, <1>8 DEF Crash
<1>9. CASE RestartAgent
  BY <1>0, <1>9 DEF RestartAgent, TypeOK
<1>10. CASE UNCHANGED vars
  BY <1>0, <1>10 DEF vars
<1>11. QED
  BY <1>1, <1>2, <1>3, <1>4, <1>5, <1>6, <1>7, <1>8, <1>9, <1>10
     DEF Next, Reconcile

\* When no OSC update may drop the agent's unit, the agent never disables
\* or stops itself: not for Enable: false, not in the command phase, not
\* through crashes, failing calls or its own restarts.
THEOREM AgentUp ==
    ASSUME ~RemoveAgentUnit
    PROVE  Spec => []AgentStaysUp
<1>1. AgentInv => AgentStaysUp
  BY ConstantsAssumption DEF AgentInv, AgentStaysUp
<1>2. QED
  BY AgentInit, AgentStep, <1>1, PTL DEF Spec

-----------------------------------------------------------------------------
(* Refinement of OSCApply.  Reading is the OSC the cycle in progress read: *)
(* target in the phases between StartCycle and PersistLastApplied, None    *)
(* otherwise.  StartCycle is Read, PersistLastApplied is Commit, a crash   *)
(* and the agent stopping itself are Abandon, Publish is Publish, and the  *)
(* phases in between and the restart leave the abstract state alone.       *)

\* The initial state is the abstract one: nothing applied, nothing read.
LEMMA RefinementInit == Init => Abstract!Init
BY DEF Init, Abstract!Init, Reading

\* Every step of the reconciler is a step of OSCApply or leaves its state
\* unchanged.
LEMMA RefinementStep ==
    TypeOK /\ [Next]_vars => [Abstract!Next]_Abstract!vars
<1> SUFFICES ASSUME TypeOK, [Next]_vars
             PROVE  [Abstract!Next]_Abstract!vars
  OBVIOUS
<1> USE DEF Abstract!Next, Abstract!vars, Reading
<1>1. CASE StartCycle
  BY <1>1, NoneNotOSC DEF StartCycle, Abstract!Read, TypeOK
<1>2. CASE ApplyFiles
  BY <1>2 DEF ApplyFiles
<1>3. CASE ApplyUnits
  <2>1. target # None
    BY NoneNotOSC DEF TypeOK
  <2>2. pc' \in {"stopped", "reload"} /\ UNCHANGED <<osc, lastApplied, target>>
    BY <1>3 DEF ApplyUnits
  <2>3. QED
    BY <1>3, <2>1, <2>2 DEF ApplyUnits, Abstract!Abandon
<1>4. CASE DaemonReload
  BY <1>4 DEF DaemonReload
<1>5. CASE ExecuteCommands
  BY <1>5 DEF ExecuteCommands
<1>6. CASE PersistLastApplied
  <2>1. pc' \in {"cancelled", "idle"}
    BY <1>6 DEF PersistLastApplied
  <2>2. QED
    BY <1>6, <2>1, NoneNotOSC DEF PersistLastApplied, Abstract!Commit, TypeOK
<1>7. CASE RestartAgent
  BY <1>7 DEF RestartAgent
<1>8. CASE Publish
  <2>1. osc' \in OSC
    BY <1>8, TypeStep DEF Next, TypeOK
  <2>2. osc' # osc
    <3>1. CASE \E u \in Unit, d \in UnitDecl \cup {None} :
                 d # osc.units[u] /\ osc' = [osc EXCEPT !.units[u] = d]
      <4>1. PICK u \in Unit, d \in UnitDecl \cup {None} :
                 d # osc.units[u] /\ osc' = [osc EXCEPT !.units[u] = d]
        BY <3>1
      <4>2. osc'.units[u] # osc.units[u]
        BY <4>1 DEF TypeOK, OSC
      <4>3. QED
        BY <4>2
    <3>2. CASE \E f \in File, c \in Data \cup {None} :
                 c # osc.files[f] /\ osc' = [osc EXCEPT !.files[f] = c]
      <4>1. PICK f \in File, c \in Data \cup {None} :
                 c # osc.files[f] /\ osc' = [osc EXCEPT !.files[f] = c]
        BY <3>2
      <4>2. osc'.files[f] # osc.files[f]
        BY <4>1 DEF TypeOK, OSC
      <4>3. QED
        BY <4>2
    <3>3. QED
      BY <1>8, <3>1, <3>2 DEF Publish
  <2>3. QED
    BY <1>8, <2>1, <2>2 DEF Publish, Abstract!Publish
<1>9. CASE Crash
  BY <1>9, NoneNotOSC DEF Crash, Abstract!Abandon, TypeOK, Phases
<1>10. CASE UNCHANGED vars
  BY <1>10 DEF vars
<1>11. QED
  BY <1>1, <1>2, <1>3, <1>4, <1>5, <1>6, <1>7, <1>8, <1>9, <1>10
     DEF Next, Reconcile

\* The reconciler implements OSCApply, through crashes, failing systemd
\* calls and the agent stopping itself: last-applied-osc.yaml only becomes
\* the OSC read at the start of the same cycle.
THEOREM Refinement == Spec => AbstractSpec
<1>1. QED
  BY RefinementInit, RefinementStep, TypeCorrect, PTL
     DEF Spec, AbstractSpec, Abstract!Spec

=============================================================================
