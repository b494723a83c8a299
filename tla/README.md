# Formal models of gardener: node-agent reconciler, etcd encryption, fake clientset

This directory holds TLA+ models of the repository, the TLC configurations that
check them, and TLAPS proofs about them. The repository is `spec.md` plus the
sources under `src/`.

## 1. Inventory

### What `src/` contains

| source | what it is |
|---|---|
| `src/unnamed/part_000` | Integration test of the node-agent `operatingsystemconfig.Reconciler`. It has three scenarios: no previous OSC, an update of a previous OSC, and a change of the agent's own unit. It asserts the exact set of systemd calls, the files on disk, the `last-applied-osc.yaml` write and whether `CancelContext` was called. |
| `src/hack/check-license-header.sh` | Lines 1-41 are the license-check script. Lines 42-1306 are the shoot-maintenance integration test: machine-image and Kubernetes version auto-update. |
| `src/landscaper/.../flow_etcd_encryption.go` | `GetOrGenerateEncryptionConfiguration`: reuse the etcd encryption config stored in a runtime secret, or generate a new one. |
| `src/pkg/.../nodeinit/nodeinit_test.go` | Lines 1-217 are the test of `nodeinit.Config`, which renders units and files. Lines 218-646 are the metrics-server component (`Deploy`, `Destroy`, `computeResourcesData`). |
| `src/unnamed/part_001` | Table test of the Kubernetes version constraints. |
| `src/pkg/client/.../fake_backupentry.go` | Generated fake clientset. |

The two implementation files under `src/` are `flow_etcd_encryption.go` and
`fake_backupentry.go`. Both are modelled line by line, in `EtcdEncryptionConfig`
and `FakeBackupEntries`. The core that spec.md describes is the
reconciliation engine. Its implementation is **not** under `src/`; only its
integration test is. The models translate the
behaviour that test pins down: which systemd calls a change produces, the order
of the last-applied write and the cancel. Where the test is silent, the models
follow spec.md 4.3-4.6: the order of the phases, the reload condition, failures
and crashes. Those definitions are marked `spec_modelled` in `PROJECT.json`.

### Components, state, operations, interactions

* **Reconciliation cycle** (spec 4.3, 4.4, 4.6). State: the published OSC
  (secret), `last-applied-osc.yaml`, and the host: files, unit files and
  drop-ins, systemd's loaded definitions, enablement, and running units.
  A cycle has these steps, in this order:
  1. read the secret;
  2. diff against last-applied;
  3. write and remove files and units;
  4. enable or disable the changed units, and disable and stop the deleted ones;
  5. `daemon-reload`;
  6. restart or stop the changed units;
  7. write last-applied.

  The cycle talks to systemd (D-Bus calls) and to the filesystem. It is
  triggered by secret events and by `SyncPeriod`.
* **Self-supervision gate** (spec 4.5). When the agent's own unit
  (`gardener-node-agent.service`) changed, the agent writes and enables it,
  reloads, skips its restart, writes last-applied, and calls `CancelContext`.
  systemd then restarts the process.
* **Desired-state assembler** (spec 4.2). Merges the `Spec` and `Status`
  (extension) lists of files and units. A drop-in-only unit is merged into the
  base unit of the same name. The test accepts a drop-in-only unit that has no
  base (`unit3`), although spec 4.2 calls that an error.
* **Content resolver** (spec 4.1). Decodes inline and base64 data and extracts
  files from images.
* **Shoot maintenance**. Picks machine-image and Kubernetes versions per update
  strategy (major, minor, patch), architecture and expiration.
* **Etcd encryption configuration**. Reuses the stored config, or generates a
  new one. It distinguishes NotFound from other errors.
* **Fake BackupEntries clientset**. Each method records a client-go testing
  action through `Fake.Invokes`. The reaction chain answers: first the
  reactors a test prepended, then client-go's object tracker.
* **metrics-server component**. `Deploy`: generate the server certificate, get
  the CA, create the managed resource, delete the legacy secret. `Destroy`:
  delete the managed resource.

### What is hard

* The agent can crash between the file phase and the last-applied write. The
  diff is against last-applied, never against the host.
* One systemd call of a cycle can fail while the others succeed.
* The secret can change while a cycle is running.
* The agent restarts itself. It must persist before cancelling, or it restarts
  forever. An OSC that drops its own unit makes it stop itself.
* `daemon-reload` must come after all unit writes and before the restarts.
* Etcd encryption: a transient Get error must not be taken for NotFound,
  because a fresh key makes existing data unreadable. A run that generated a
  key and then aborted loses that key, so the next run must generate again.
* Fake clientset: the methods are thin wrappers around `Fake.Invokes`, so
  what can go wrong is what they promise in their doc comments and fail to
  do.

### Properties that make the components correct

* **Reconciler.** Between cycles, the host is what last-applied says
  (`BaselineMatchesHost`). Once publishing stops, the agent converges and does
  not restart itself forever (`Convergence`). Unless an OSC may drop its
  unit, the agent never disables or stops itself (`AgentStaysUp`). Changed
  units are restarted only
  for a start command (`RestartOnlyOnStartCommand`, spec 4.4).
* **Assembler.** There is exactly one unit per name. Drop-ins keep owner order,
  then extension order. Drop-in-only units are handled as the code does.
* **Etcd encryption.** A deployed key is never replaced
  (`KeyNeverReplaced`). The secret and every later import hold that key
  (`DeployedKeyStored`). Repeated runs end with a stored, deployed key
  (`EventuallyEncrypted`).
* **Fake clientset.** List honours both selectors
  (`ListHonoursFieldSelector`), and DeleteCollection deletes what it selects
  (`DeleteCollectionDeletes`), as their doc comments say. The code does
  neither: see the two violation runs. A property of List's label filter or
  of the nil guard alone would restate their definitions, so none is
  checked.
* **Maintenance.** The chosen version is never lower than the current one, is
  allowed by the strategy, and is forced only when the current one has expired.

## 2. Plan

Done:

1. `NodeAgentReconciler`: the cycle, self-restart, crashes and failures.
2. `OSCApply`: the abstract cycle that the reconciler refines.
3. `EtcdEncryptionConfig` and `FakeBackupEntries`: the two implementation
   files.
4. Proofs, in `NodeAgentReconcilerProofs` and `EtcdEncryptionConfigProofs`.

Left:

1. `OSCAssembler`: the merge as a fold over unit sequences, with a violation
   run for the orphan drop-in divergence.
2. `VersionMaintenance`: version selection against the maintenance test's
   table.
3. `MetricsServerDeploy`: the Deploy/Destroy sequence with failures.
4. A refinement of the host state itself ("apply atomically"), beyond the
   last-applied bookkeeping that `OSCApply` covers.

## 3. Modules and correspondence

### `NodeAgentReconciler.tla`

The OSC is abstracted. For each unit it holds a declaration, or `None`. A
declaration is `enable` (true/false/unset), `command` (start/stop/unset) and
`body`. `body` is one value for content, drop-ins and embedded files. This is
enough: the test shows that a unit whose embedded file changed (`unit7`) or
whose drop-ins changed (`unit5`) is restarted like any changed unit. Each file
holds one `Data` value.

| TLA+ | code / test |
|---|---|
| `osc`, `Publish` | the OSC secret and its update (part_000 331-361) |
| `lastApplied` | `/var/lib/gardener-node-agent/last-applied-osc.yaml` |
| `ChangedUnits`, `DeletedUnits`, `ChangedFiles` | the diff against last-applied (test scenario 2) |
| `ApplyFiles` | files, unit files and drop-ins written; deleted ones and drop-in directories removed |
| `ApplyUnits` | enable/disable of changed units (`EnableUnit`); disable and stop of deleted units |
| `DaemonReload` | `daemon-reload` when a unit was changed or deleted |
| `ExecuteCommands` | restart, or stop when Command is stop or Enable is false (`StopUnit`); never the agent's own unit |
| `PersistLastApplied` | write last-applied, then `CancelContext` if the agent's unit changed (scenario 3) |
| `RestartAgent` | systemd restarting the exited agent from its loaded unit |
| `Crash` | the agent dying in the middle of a cycle |
| `actions` | `fakeDBus.Actions` of the current cycle |

The agent's own unit is enabled whatever `Enable` says. The test expects
`Enable` for `gnaUnit`, which declares `Enable: false` (lines 446 and 156).
The failing calls of a phase are a nondeterministic subset, bounded by
`MaxFailures`. As spec 4.4/4.6 prescribe, the cycle still commits.

### `OSCApply.tla` and the refinement mapping

`OSCApply` is the abstract promise of a cycle, with three variables:

* `osc`, the published OSC;
* `applied`, last-applied;
* `reading`, the OSC that the cycle in progress read, or `None`.

It has four steps:

* `Publish`;
* `Read`, taken only when no cycle is in progress;
* `Commit`, which sets `applied` to exactly what was read;
* `Abandon`.

`NodeAgentReconciler` instantiates it as `Abstract`, with `applied <-
lastApplied` and `reading <- Reading`. `Reading` is `target` in the phases
files..persist, and `None` otherwise. The steps map as follows:

| reconciler step | abstract step |
|---|---|
| `StartCycle` | `Read` |
| `PersistLastApplied` | `Commit` |
| `Crash`, and `ApplyUnits` stopping the agent | `Abandon` |
| the middle phases and `RestartAgent` | stutter |

### `EtcdEncryptionConfig.tla` (flow_etcd_encryption.go)

The secret is abstracted to what the function tells apart:

* `absent` (NotFound);
* `nokey` (no data key);
* `corrupt` (the data does not load);
* a key in `Key` (a loadable configuration).

| TLA+ | code |
|---|---|
| `GetFailed` | Get error other than NotFound: return err (34-37) |
| `SecretFound`, `ContainsEncryptionConfig` | `secret != nil`, the data-key lookup (33-48) |
| `Generate`, `GenerateKey` | `generateEncryptionConfiguration`, `AddNewEncryptionKey` (50-57, 71-87) |
| `Reuse`, `LoadFailed` | `etcdencryption.Load` succeeding or failing (60-68) |
| `GetOrGenerateEncryptionConfiguration` | the whole function (32-69) |

The rest of the landscaper run is not in `src/`. It is modelled as two
environment steps:

* `ApplyConfiguration`: deploy the API server with the imported
  configuration and store it in the secret;
* `AbortRun`: a later step fails and the imports are lost.

Failing calls are bounded by `MaxErrors`, and aborts by `MaxAborts`.

### `FakeBackupEntries.tla` (fake_backupentry.go)

An entry is abstracted to a label and an opaque content. The model has these
parts:

* `store`: the object tracker, keyed by namespace and name.
* `reactor`: the head of the reaction chain for each verb. It is the
  tracker, or a prepended reactor answering (nil, err) or (nil, nil).
* `Invokes`: the chain's answer.

Each method is one action: Get, List, Watch, Create, Update, UpdateStatus,
Delete, DeleteCollection and Patch. `Write` holds what Create, Update,
UpdateStatus and Patch share. List filters on the label selector only; the
code drops the field selector (line 62). The tracker does not handle
DeleteCollection, so the call answers success and changes nothing. The
tracker and `Invokes` are client-go, not `src/`, and are the environment.
Watch events are not modelled.

## 4. Runs

Every reconciler run uses these constants: units `{u1, gna}`, one file `f1`, unit bodies
`{b1, b2}`, and file data `{d1}`. `Publish` changes one unit or one file per
update, to any declaration: 3 × 3 enable/command combinations × 2 bodies, or
absent. Three updates reach every combination of two differing units and a file.
That covers added, modified, deleted, enable-only, command-only and body-only
changes of an ordinary unit and of the agent's unit, published before, during or
after a cycle.

| run | cfg | expect | shows |
|---|---|---|---|
| reconcile_safety | MCNodeAgentReconciler.cfg | pass (1.27M states) | `TypeOK`, `BaselineMatchesHost` over 3 updates, with no crash or failure |
| reconcile_convergence | MCReconcilerConvergence.cfg | pass | `Convergence` over 2 updates, including the self-restart |
| crash_recovery | MCReconcilerCrashRecovery.cfg | pass | 2 crashes anywhere in a cycle are repaired when the OSC is not reverted (1 update); `AgentStaysUp`: the agent never disables or stops its own unit, also when the update declares it `Enable: false` |
| crash_revert | MCReconcilerCrashRevert.cfg | violation | crash after the file phase plus a reverting update: stale unit file forever |
| partial_failure | MCReconcilerPartialFailure.cfg | violation | a failed systemd call is committed and never retried |
| remove_agent_unit | MCReconcilerRemoveAgent.cfg | violation | dropping the agent's unit makes it stop itself mid-cycle |
| command_phase | MCReconcilerCommandPhase.cfg | violation | units without a command are restarted (test), against spec 4.4 |
| reconcile_refinement | MCReconcilerRefinement.cfg | pass (403k states) | `AbstractSpec`: the reconciler implements `OSCApply` with 2 updates, 1 crash, 1 failing call and `RemoveAgentUnit`; deadlock is not checked because the self-stopped agent really stops |
| etcd_encryption | MCEtcdEncryptionConfig.cfg | pass (356 states) | `TypeOK`, `DeployedKeyStored`, `KeyNeverReplaced`, `EventuallyEncrypted` |
| fake_field_selector | MCFakeFieldSelector.cfg | violation | List ignores the field selector its doc comment promises |
| fake_delete_collection | MCFakeDeleteCollection.cfg | violation | DeleteCollection reports success and leaves an entry its label and field selectors select |

The etcd run uses these bounds:

* keys `{k1, k2, k3}`;
* every initial secret state;
* `MaxErrors = 3`, so a Get error, a generation error and a load error can
  all occur in one behaviour;
* `MaxAborts = 2`, so a generated key can be lost twice.

Three keys are enough for two lost keys and a third that is deployed.

The fake runs use names `{n1, n2}`, namespaces `{ns1, ns2}` and labels
`{l1, l2}`. Two labels make a selector that matches some entries and not
others. Up to 2 calls and 1 prepended reactor are allowed. The fake runs do
not check deadlock: once the call bound is reached, a test simply ends.

**Fairness.** `WF_vars(Reconcile)` holds because `SyncPeriod` re-triggers the
reconciler. `WF_vars(RestartAgent)` holds because systemd restarts the exited
agent. `Publish` and `Crash` carry no fairness. In the etcd model,
`GetOrGenerateEncryptionConfiguration` and `ApplyConfiguration` are weakly
fair, because the landscaper is rerun until it succeeds. Errors and aborts are
bounded, so they end.

**Mutants.** Each property of the passing runs is shown to catch a plausible
bug:

* a unit written as its whole declaration: `TypeOK`;
* the reload skipped when units were only deleted: `BaselineMatchesHost`;
* cancelling before last-applied is written, so the agent restarts forever:
  `Convergence`;
* last-applied written before the unit commands: `Convergence` under crashes;
* the secret re-read when last-applied is written: `AbstractSpec`;
* the agent's own unit not skipped in the command phase: `AgentStaysUp`;
* the Load error ignored: `TypeOK` of the etcd model;
* unloadable data taken for a missing key: `DeployedKeyStored`;
* a Get error taken for NotFound: `KeyNeverReplaced`;
* NotFound returned as an error: `EventuallyEncrypted`.

**Findings.** The violation runs record disagreements between the code and
the spec, a comment or a test. Each is listed in `PROJECT.json`:

* crash_revert, partial_failure, remove_agent_unit and command_phase, for the
  reconciler;
* fake_field_selector: `List`'s doc comment promises field selectors, and
  line 62 drops them;
* fake_delete_collection: `DeleteCollection` answers success without
  deleting, lines 125-130.

## 5. Proofs

Every theorem holds for every value of the constants. It is checked by tlapm
to the last leaf.

### `NodeAgentReconcilerProofs.tla`

**`TypeCorrect`** (`Spec => []TypeOK`). It assumes `ConstantsAssumption`:
`Unit` is finite. There is one step per action. `FailedCardinality` and
`FailureBound` keep the failure counter in `0..MaxFailures`.

**`BaselineHolds`** (`Spec => []BaselineMatchesHost`). It assumes
`MaxCrashes = 0` and `MaxFailures = 0`; crashes and failures really break the
property, as the violation runs show. `BaselineMatchesHost` is not inductive,
because in the middle of a cycle the host is half-way between `lastApplied`
and `target`. The strengthening `BaselineInv` is `TypeOK /\ PhaseInv`. For
each phase, `PhaseInv` states how far the host has moved:

* **idle and files**: every unit is at its `Baseline`, and the files are
  those of `lastApplied`. `Baseline` is the unit as last-applied declares it,
  or as bootstrap installed the agent.
* **units onwards**: the files are those of `target`. Untouched units are at
  their baseline, and touched units have their target body on disk.
* **reload onwards**: the enablement of changed and deleted units is as the
  target says, and deleted units are stopped. The agent's own unit is never
  deleted.
* **commands onwards**: systemd has loaded the bodies on disk.
* **persist**: changed units other than the agent are running or stopped as
  `StopUnit` says.
* **cancelled**: as idle, except that the agent's own unit is not running.

`BaselineInv` was model-checked as an invariant before it was proved. The
proof rests on these lemmas:

* `BaselineInit`;
* `BaselineStep`, with one step per action;
* `BaselineFrame`: a unit whose last-applied declaration and host state are
  unchanged stays at its baseline;
* `UntouchedAlike`;
* `NoFailure`.

**`Refinement`** (`Spec => AbstractSpec`). There are no assumptions on crashes
or failures. `RefinementInit` shows that the initial state maps to
`OSCApply`'s. `RefinementStep` shows, from `TypeOK`, that every step maps to a
step or a stutter as in the table of section 3. It needs `NoneNotOSC`: `None`
is not an OSC.

**`AgentUp`** (`Spec => []AgentStaysUp`). It assumes `~RemoveAgentUnit`,
which is the property's own premise. Crashes and failures are allowed. The
inductive invariant `AgentInv` records why the agent's unit is never in a
cycle's `DeletedUnits`:

* once last-applied holds the unit, the published OSC does too, because
  `Publish` may drop it only under `RemoveAgentUnit`;
* a cycle whose target holds the unit read it from an OSC that still holds it;
* a cycle whose target lacks the unit started from a last-applied that lacks
  it too.

It also keeps the unit enabled, since `EnableUnit(GNA)` is always true. Its
disk, loaded and active bodies stay bodies: `ExecuteCommands` skips the
agent, and `RestartAgent` runs the loaded body. `AgentInv` was model-checked
before it was proved, with 2 updates, 1 crash and 1 failing call (400k states).

### `EtcdEncryptionConfigProofs.tla`

`TypeCorrect`, `KeyStored` (`[]DeployedKeyStored`) and `KeyNeverReplacedThm`
all rest on the inductive invariant `TypeOK /\ DeployedKeyStored`. The key
point is that the generate branch runs only when no key is deployed.

A deployed key is stored in the secret, or the secret is corrupt. In both
cases `ContainsEncryptionConfig` holds, so the function reuses or fails; it
never generates. A Get error aborts the run. Hence the only step that changes
`apiKey`, `ApplyConfiguration`, deploys the key that is already deployed.
This needs `EtcdConstantsAssumption`: keys are distinct from the abstract
secret states.

### Left to TLC

These are out of the prover's reach:

* `Convergence`, `EventuallyEncrypted` and the other liveness properties;
* anything about ENABLED;
* induction over data.

## 6. Not modelled

The content resolver is abstracted to `Data`. Node annotations and the
checksum are external. Nodeinit rendering is text formatting. In the fake clientset, Watch event
delivery and client-go's tracker internals (resource versions, defaulting) are
not modelled. The license script is tooling. Host edits made
outside the agent are not modelled either (the hazard at part_000:329).
