-------------------- MODULE EtcdEncryptionConfigProofs ----------------------
(***************************************************************************)
(* Proofs about GetOrGenerateEncryptionConfiguration across landscaper     *)
(* runs, for every set of keys and every bound.                            *)
(***************************************************************************)
EXTENDS EtcdEncryptionConfig, TLAPS

\* The inductive invariant: the type invariant and DeployedKeyStored.
IInv == TypeOK /\ DeployedKeyStored

\* Installation states satisfy the invariant.
LEMMA InitIInv == Init => IInv
<1> SUFFICES ASSUME Init PROVE IInv
  OBVIOUS
<1> USE EtcdConstantsAssumption
<1>1. TypeOK
  BY DEF Init, TypeOK, SecretState, RunPhases
<1>2. DeployedKeyStored
  BY DEF Init, DeployedKeyStored
<1>3. QED
  BY <1>1, <1>2 DEF IInv

\* Every step of a landscaper run, and a stutter, preserves the invariant.
LEMMA NextIInv == IInv /\ [Next]_vars => IInv'
<1> SUFFICES ASSUME IInv, [Next]_vars PROVE IInv'
  OBVIOUS
<1> USE EtcdConstantsAssumption DEF IInv, TypeOK, DeployedKeyStored,
        SecretState, RunPhases
<1>1. CASE GetOrGenerateEncryptionConfiguration
  <2>1. CASE GetFailed /\ UNCHANGED <<imports, used, pc>>
    BY <1>1, <2>1 DEF GetOrGenerateEncryptionConfiguration, GetFailed
  <2>2. CASE SecretFound /\ ContainsEncryptionConfig /\ Reuse
    BY <1>1, <2>2 DEF GetOrGenerateEncryptionConfiguration, Reuse
  <2>3. CASE SecretFound /\ ContainsEncryptionConfig /\ LoadFailed
    BY <1>1, <2>3 DEF GetOrGenerateEncryptionConfiguration, LoadFailed
  \* Generating happens only while no key is deployed.
  <2>4. CASE ~(SecretFound /\ ContainsEncryptionConfig) /\ Generate
    <3>1. apiKey = None
      BY <2>4 DEF SecretFound, ContainsEncryptionConfig
    <3>2. QED
      BY <1>1, <2>4, <3>1 DEF GetOrGenerateEncryptionConfiguration, Generate,
             GenerateKey
  <2>5. QED
    BY <1>1, <2>1, <2>2, <2>3, <2>4
       DEF GetOrGenerateEncryptionConfiguration
<1>2. CASE ApplyConfiguration
  BY <1>2 DEF ApplyConfiguration
<1>3. CASE AbortRun
  BY <1>3 DEF AbortRun
<1>4. CASE UNCHANGED vars
  BY <1>4 DEF vars
<1>5. QED
  BY <1>1, <1>2, <1>3, <1>4 DEF Next

\* Type correctness of the landscaper's encryption state.
THEOREM TypeCorrect == Spec => []TypeOK
<1>1. IInv => TypeOK
  BY DEF IInv
<1>2. QED
  BY InitIInv, NextIInv, <1>1, PTL DEF Spec

\* The secret always holds the deployed key (or unloadable data), and a
\* run reusing the configuration imports that key.
THEOREM KeyStored == Spec => []DeployedKeyStored
<1>1. IInv => DeployedKeyStored
  BY DEF IInv
<1>2. QED
  BY InitIInv, NextIInv, <1>1, PTL DEF Spec

\* No landscaper run replaces the key the API server encrypts with: the
\* only step that changes it deploys the imported key, which equals the
\* deployed one by the invariant.
THEOREM KeyNeverReplacedThm == Spec => KeyNeverReplaced
<1>1. IInv /\ [Next]_vars => [apiKey # None => apiKey' = apiKey]_apiKey
  <2> SUFFICES ASSUME IInv, [Next]_vars, apiKey # None
               PROVE  apiKey' = apiKey
    OBVIOUS
  <2> USE DEF IInv, DeployedKeyStored
  <2>1. CASE ApplyConfiguration
    BY <2>1 DEF ApplyConfiguration
  <2>2. CASE ~ApplyConfiguration
    BY <2>2 DEF Next, vars, GetOrGenerateEncryptionConfiguration, AbortRun
  <2>3. QED
    BY <2>1, <2>2
<1>2. QED
  BY InitIInv, NextIInv, <1>1, PTL DEF Spec, KeyNeverReplaced

=============================================================================
