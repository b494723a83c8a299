------------------------- MODULE NodeAgentReconciler -------------------------
(***************************************************************************)
(* The operating-system-config reconciler of gardener-node-agent: one      *)
(* reconciliation cycle reads the OperatingSystemConfig (OSC) published in *)
(* the secret, diffs it against last-applied-osc.yaml, writes the files    *)
(* and units that changed, enables/disables them, stops deleted units,     *)
(* reloads systemd, restarts or stops changed units, persists the OSC as   *)
(* the new baseline and, when its own unit changed, cancels its context so *)
(* that systemd restarts it.                                               *)
(*                                                                         *)
(* Data are abstract: a unit's content, drop-ins and embedded files are    *)
(* one Body value, a file's resolved bytes and permissions one Data value. *)
(***************************************************************************)
EXTENDS Naturals, FiniteSets

CONSTANTS
    Unit,          \* unit names
    GNA,           \* gardener-node-agent.service, the agent's own unit
    File,          \* file paths
    Body,          \* abstract unit bodies (content, drop-ins, embedded files)
    Data,          \* abstract resolved file contents with permissions
    None,          \* "not declared" / "not on disk" / "not running"
    MaxPublishes,  \* bound on OSC updates published to the secret
    MaxCrashes,    \* bound on crashes of the agent in the middle of a cycle
    MaxFailures,   \* bound on failing systemd calls
    RemoveAgentUnit  \* whether an OSC may drop the agent's own unit again

ASSUME ConstantsAssumption ==
    /\ GNA \in Unit
    /\ IsFiniteSet(Unit)
    /\ None \notin Body \cup Data
    /\ Body # {}
    /\ MaxPublishes \in Nat /\ MaxCrashes \in Nat /\ MaxFailures \in Nat
    /\ RemoveAgentUnit \in BOOLEAN

Enables  == {"true", "false", "unset"}       \* Unit.Enable: *bool or nil
Commands == {"start", "stop", "unset"}       \* Unit.Command: start, stop or nil

\* A declared unit of the OSC (extensionsv1alpha1.Unit after assembly).
UnitDecl == [enable: Enables, command: Commands, body: Body]

\* An OSC after assembly: a declaration, or None, for every unit and file.
OSC == [units: [Unit -> UnitDecl \cup {None}], files: [File -> Data \cup {None}]]

\* None, the "no cycle in progress" of the refinement, is no OSC.
ASSUME NoneNotOSC == None \notin OSC

\* The "no previous OSC" baseline.
EmptyOSC == [units |-> [u \in Unit |-> None], files |-> [f \in File |-> None]]

\* The systemd calls recorded by the D-Bus adapter (fakedbus.SystemdAction).
SystemdAction == [op: {"enable", "disable", "stop", "restart"}, unit: Unit]
                    \cup {[op |-> "daemon-reload"]}

Phases == {"idle", "files", "units", "reload", "commands", "persist",
           "cancelled", "stopped"}

VARIABLES
    osc,          \* the OSC currently published in the secret
    lastApplied,  \* /var/lib/gardener-node-agent/last-applied-osc.yaml
    pc,           \* where the agent is in its reconciliation cycle
    target,       \* the OSC read from the secret at the start of the cycle
    diskFile,     \* content of every file path on the host
    diskUnit,     \* /etc/systemd/system/<unit> and <unit>.d/ on the host
    loaded,       \* unit definitions systemd has loaded (as of last reload)
    enabled,      \* systemd enablement of every unit
    active,       \* the loaded body a unit runs with, None when stopped
    actions,      \* systemd calls issued in the current cycle
    publishes, crashes, failures

vars == <<osc, lastApplied, pc, target, diskFile, diskUnit, loaded, enabled,
          active, actions, publishes, crashes, failures>>

-----------------------------------------------------------------------------
(* Diff of the target OSC against the last-applied one.                    *)

\* Mutant: the whole declaration is written instead of its content.
BodyOfMutant(d) == d

BodyOf(d) == IF d = None THEN None ELSE d.body

ChangedUnits == {u \in Unit : target.units[u] # None
                              /\ target.units[u] # lastApplied.units[u]}
DeletedUnits == {u \in Unit : target.units[u] = None
                              /\ lastApplied.units[u] # None}
ChangedFiles == {f \in File : target.files[f] # lastApplied.files[f]}

\* The agent enables its own unit whatever the OSC says, every other changed
\* unit unless Enable is false.
EnableUnit(u) == u = GNA \/ target.units[u].enable # "false"

\* A changed unit is stopped when it has Command stop or Enable false, and
\* restarted otherwise, also when no command is declared.
StopUnit(u) == target.units[u].command = "stop" \/ target.units[u].enable = "false"

\* Mutant: only changed units trigger the reload, deleted ones do not.
ReloadNeededMutant == ChangedUnits # {}

\* systemd must reload when a unit file was written or removed.
ReloadNeeded == ChangedUnits \cup DeletedUnits # {}

-----------------------------------------------------------------------------
Init ==
    /\ osc = EmptyOSC
    /\ lastApplied = EmptyOSC
    /\ pc = "idle"
    /\ target = EmptyOSC
    /\ diskFile = [f \in File |-> None]
    \* bootstrap installed and started the agent's own unit
    /\ \E b \in Body :
          /\ diskUnit = [u \in Unit |-> IF u = GNA THEN b ELSE None]
          /\ loaded = diskUnit
          /\ active = diskUnit
    /\ enabled = [u \in Unit |-> u = GNA]
    /\ actions = {}
    /\ publishes = 0 /\ crashes = 0 /\ failures = 0

\* The secret is updated with a new OSC (one unit or one file changed).
Publish ==
    /\ publishes < MaxPublishes
    /\ \/ \E u \in Unit, d \in UnitDecl \cup {None} :
             /\ d # osc.units[u]
             /\ u = GNA /\ d = None => RemoveAgentUnit
             /\ osc' = [osc EXCEPT !.units[u] = d]
       \/ \E f \in File, c \in Data \cup {None} :
             /\ c # osc.files[f]
             /\ osc' = [osc EXCEPT !.files[f] = c]
    /\ publishes' = publishes + 1
    /\ UNCHANGED <<lastApplied, pc, target, diskFile, diskUnit, loaded,
                   enabled, active, actions, crashes, failures>>

\* Reconcile is triggered: read the secret, start with no systemd calls.
StartCycle ==
    /\ pc = "idle"
    /\ pc' = "files"
    /\ target' = osc
    /\ actions' = {}
    /\ UNCHANGED <<osc, lastApplied, diskFile, diskUnit, loaded, enabled,
                   active, publishes, crashes, failures>>

\* Write changed files and units (unit file and drop-ins), remove deleted
\* files and the unit files and drop-in directories of deleted units.
ApplyFiles ==
    /\ pc = "files"
    /\ diskFile' = [f \in File |-> IF f \in ChangedFiles THEN target.files[f]
                                                      ELSE diskFile[f]]
    /\ diskUnit' = [u \in Unit |->
                      IF u \in ChangedUnits \cup DeletedUnits
                      THEN BodyOf(target.units[u]) ELSE diskUnit[u]]
    /\ pc' = "units"
    /\ UNCHANGED <<osc, lastApplied, target, loaded, enabled, active, actions,
                   publishes, crashes, failures>>

\* Enable or disable changed units; disable and stop deleted units.  The
\* calls in failed fail and leave systemd unchanged.  Stopping the agent's
\* own unit ends the agent's process for good.
ApplyUnits ==
    /\ pc = "units"
    /\ \E failed \in SUBSET (ChangedUnits \cup DeletedUnits) :
          /\ failures + Cardinality(failed) <= MaxFailures
          /\ enabled' = [u \in Unit |->
                           IF u \in failed THEN enabled[u]
                           ELSE IF u \in ChangedUnits THEN EnableUnit(u)
                           ELSE IF u \in DeletedUnits THEN FALSE
                           ELSE enabled[u]]
          /\ active' = [u \in Unit |->
                          IF u \in DeletedUnits \ failed THEN None ELSE active[u]]
          /\ failures' = failures + Cardinality(failed)
    /\ actions' = {[op |-> IF EnableUnit(u) THEN "enable" ELSE "disable", unit |-> u]
                      : u \in ChangedUnits}
                  \cup {[op |-> "disable", unit |-> u] : u \in DeletedUnits}
                  \cup {[op |-> "stop", unit |-> u] : u \in DeletedUnits}
    /\ pc' = IF GNA \in DeletedUnits /\ active'[GNA] = None
              THEN "stopped" ELSE "reload"
    /\ UNCHANGED <<osc, lastApplied, target, diskFile, diskUnit, loaded,
                   publishes, crashes>>

\* Mutant: last-applied-osc.yaml is written right after the reload, before
\* the unit commands ran.
DaemonReloadMutant ==
    /\ pc = "reload"
    /\ IF ReloadNeeded
       THEN /\ loaded' = diskUnit
            /\ actions' = actions \cup {[op |-> "daemon-reload"]}
       ELSE UNCHANGED <<loaded, actions>>
    /\ lastApplied' = target
    /\ pc' = "commands"
    /\ UNCHANGED <<osc, target, diskFile, diskUnit, enabled,
                   active, publishes, crashes, failures>>

\* systemctl daemon-reload when a unit was changed or deleted.
DaemonReload ==
    /\ pc = "reload"
    /\ IF ReloadNeeded
       THEN /\ loaded' = diskUnit
            /\ actions' = actions \cup {[op |-> "daemon-reload"]}
       ELSE UNCHANGED <<loaded, actions>>
    /\ pc' = "commands"
    /\ UNCHANGED <<osc, lastApplied, target, diskFile, diskUnit, enabled,
                   active, publishes, crashes, failures>>

\* Mutant: the agent's own unit is not skipped in the command phase.
ExecuteCommandsSelfMutant ==
    /\ pc = "commands"
    /\ \E failed \in SUBSET ChangedUnits :
          /\ failures + Cardinality(failed) <= MaxFailures
          /\ active' = [u \in Unit |->
                          IF u \in ChangedUnits \ failed
                          THEN IF StopUnit(u) THEN None ELSE loaded[u]
                          ELSE active[u]]
          /\ failures' = failures + Cardinality(failed)
    /\ actions' = actions \cup
          {[op |-> IF StopUnit(u) THEN "stop" ELSE "restart", unit |-> u]
              : u \in ChangedUnits}
    /\ pc' = "persist"
    /\ UNCHANGED <<osc, lastApplied, target, diskFile, diskUnit, loaded,
                   enabled, publishes, crashes>>

\* Restart or stop every changed unit except the agent's own.
ExecuteCommands ==
    /\ pc = "commands"
    /\ \E failed \in SUBSET (ChangedUnits \ {GNA}) :
          /\ failures + Cardinality(failed) <= MaxFailures
          /\ active' = [u \in Unit |->
                          IF u \in (ChangedUnits \ {GNA}) \ failed
                          THEN IF StopUnit(u) THEN None ELSE loaded[u]
                          ELSE active[u]]
          /\ failures' = failures + Cardinality(failed)
    /\ actions' = actions \cup
          {[op |-> IF StopUnit(u) THEN "stop" ELSE "restart", unit |-> u]
              : u \in ChangedUnits \ {GNA}}
    /\ pc' = "persist"
    /\ UNCHANGED <<osc, lastApplied, target, diskFile, diskUnit, loaded,
                   enabled, publishes, crashes>>

\* Mutant: CancelContext is called and the cycle returns before the
\* last-applied OSC is written.
PersistLastAppliedMutant ==
    /\ pc = "persist"
    /\ IF GNA \in ChangedUnits
       THEN pc' = "cancelled" /\ UNCHANGED lastApplied
       ELSE pc' = "idle" /\ lastApplied' = target
    /\ UNCHANGED <<osc, target, diskFile, diskUnit, loaded, enabled, active,
                   actions, publishes, crashes, failures>>

\* Mutant: the secret is read again when last-applied is written.
PersistLastAppliedRereadMutant ==
    /\ pc = "persist"
    /\ lastApplied' = osc
    /\ pc' = IF GNA \in ChangedUnits THEN "cancelled" ELSE "idle"
    /\ UNCHANGED <<osc, target, diskFile, diskUnit, loaded, enabled, active,
                   actions, publishes, crashes, failures>>

\* Write last-applied-osc.yaml; when the agent's own unit changed, call
\* CancelContext so that the process exits.
PersistLastApplied ==
    /\ pc = "persist"
    /\ lastApplied' = target
    /\ pc' = IF GNA \in ChangedUnits THEN "cancelled" ELSE "idle"
    /\ UNCHANGED <<osc, target, diskFile, diskUnit, loaded, enabled, active,
                   actions, publishes, crashes, failures>>

\* The agent process dies in the middle of a cycle.
Crash ==
    /\ pc \notin {"idle", "cancelled", "stopped"}
    /\ crashes < MaxCrashes
    /\ crashes' = crashes + 1
    /\ pc' = "cancelled"
    /\ UNCHANGED <<osc, lastApplied, target, diskFile, diskUnit, loaded,
                   enabled, active, actions, publishes, failures>>

\* systemd restarts the exited agent from its loaded unit.
RestartAgent ==
    /\ pc = "cancelled"
    /\ active' = [active EXCEPT ![GNA] = loaded[GNA]]
    /\ pc' = "idle"
    /\ UNCHANGED <<osc, lastApplied, target, diskFile, diskUnit, loaded,
                   enabled, actions, publishes, crashes, failures>>

Reconcile ==
    \/ StartCycle \/ ApplyFiles \/ ApplyUnits \/ DaemonReload
    \/ ExecuteCommands \/ PersistLastApplied

Next == Reconcile \/ RestartAgent \/ Publish \/ Crash

\* The sync period re-triggers the reconciler and systemd restarts the
\* exited agent; publishing and crashing are never forced.
Fairness == WF_vars(Reconcile) /\ WF_vars(RestartAgent)

Spec == Init /\ [][Next]_vars /\ Fairness

-----------------------------------------------------------------------------
TypeOK ==
    /\ osc \in OSC /\ lastApplied \in OSC /\ target \in OSC
    /\ pc \in Phases
    /\ diskFile \in [File -> Data \cup {None}]
    /\ diskUnit \in [Unit -> Body \cup {None}]
    /\ loaded \in [Unit -> Body \cup {None}]
    /\ enabled \in [Unit -> BOOLEAN]
    /\ active \in [Unit -> Body \cup {None}]
    /\ actions \subseteq SystemdAction
    /\ publishes \in 0..MaxPublishes
    /\ crashes \in 0..MaxCrashes
    /\ failures \in 0..MaxFailures

\* The units the OSC c manages: all but the agent's own, which bootstrap
\* installed and which counts once c declares it.
Managed(c) == {u \in Unit : u # GNA \/ c.units[GNA] # None}

\* The host is in the state the OSC c describes: files and unit files on
\* disk, systemd's loaded definitions current, enablement as declared, and
\* every unit running the loaded body exactly when it should run (the agent
\* always runs).
HostReflects(c) ==
    /\ diskFile = c.files
    /\ \A u \in Managed(c) :
          LET d == c.units[u] IN
          /\ diskUnit[u] = BodyOf(d)
          /\ loaded[u] = diskUnit[u]
          /\ enabled[u] = (d # None /\ (u = GNA \/ d.enable # "false"))
          /\ active[u] = IF d # None /\ (u = GNA \/ (d.enable # "false"
                                                   /\ d.command # "stop"))
                         THEN loaded[u] ELSE None

(* Between cycles the host is exactly as last-applied-osc.yaml says.  The *)
(* next cycle diffs against that file and not against the host, so any    *)
(* difference here is never repaired: files, unit writes, enablement,     *)
(* the stop of deleted units, the reload and the restarts must all have   *)
(* landed before the baseline is written.                                 *)
BaselineMatchesHost == pc = "idle" => HostReflects(lastApplied)

(* Once publishing stops, the agent converges: the baseline equals the    *)
(* published OSC and the host reflects it, and it stays so.  A restart of *)
(* the agent for its own unit must not repeat forever.                    *)
Convergence == <>[](lastApplied = osc /\ HostReflects(osc))

(* Spec 4.4, command phase: a changed unit is restarted only when its     *)
(* Command is start; units without a command are left running or stopped *)
(* as they are.                                                           *)
RestartOnlyOnStartCommand ==
    [][\A a \in actions' \ actions :
          a.op = "restart" => target.units[a.unit].command = "start"]_vars

(* Unless an OSC may drop the agent's own unit, the agent never disables  *)
(* or stops itself: its unit stays enabled with a loaded body running,    *)
(* although the OSC declares it Enable: false (test lines 156, 446), across *)
(* crashes, failing systemd calls and its own restarts.  Stopping it from  *)
(* the command phase would end the cycle before last-applied is written.  *)
AgentStaysUp ==
    ~RemoveAgentUnit => enabled[GNA] /\ active[GNA] # None

-----------------------------------------------------------------------------
(* Refinement: the OSC a cycle in progress read from the secret.          *)
Reading == IF pc \in {"files", "units", "reload", "commands", "persist"}
           THEN target ELSE None

Abstract == INSTANCE OSCApply
                WITH OSCValue <- OSC, Initial <- EmptyOSC,
                     applied <- lastApplied, reading <- Reading

(* The reconciler implements OSCApply: last-applied-osc.yaml only ever    *)
(* becomes the OSC the same cycle read at its start, never one published  *)
(* while the cycle ran, through crashes, failing systemd calls, the self- *)
(* restart and the agent stopping itself.                                 *)
AbstractSpec == Abstract!Spec

=============================================================================
