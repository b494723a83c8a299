------------------------- MODULE EtcdEncryptionConfig -------------------------
(***************************************************************************)
(* The landscaper's etcd encryption configuration of the Gardener API      *)
(* server (flow_etcd_encryption.go).  Every landscaper run calls           *)
(* GetOrGenerateEncryptionConfiguration: it reads the secret               *)
(* gardener-apiserver-encryption-configuration from the runtime cluster    *)
(* and reuses the configuration stored there, or generates one with a      *)
(* fresh key when the secret or its data key is missing.  The rest of the  *)
(* run (deploying the API server with the imported configuration and       *)
(* storing it in the secret) is outside this file and is one environment   *)
(* step, ApplyConfiguration, that may also not happen (the run aborts).    *)
(*                                                                         *)
(* The secret is abstracted to what the function tells apart: absent,      *)
(* present without the data key, present with data that does not load,     *)
(* or present with a loadable configuration whose key is a member of Key.  *)
(***************************************************************************)
EXTENDS Naturals, FiniteSets

CONSTANTS
    Key,          \* encryption keys (aescbc secrets) a configuration can hold
    None,         \* no configuration imported / deployed
    SecretInit,   \* the states the runtime secret may be in at installation
    MaxErrors,    \* bound on failing calls: Get errors, key generation errors
    MaxAborts     \* bound on runs that abort after this function returned

ASSUME EtcdConstantsAssumption ==
    /\ IsFiniteSet(Key)
    /\ None \notin Key
    /\ Key \cap {"absent", "nokey", "corrupt"} = {}
    /\ SecretInit \subseteq {"absent", "nokey", "corrupt", "stored"}
    /\ MaxErrors \in Nat /\ MaxAborts \in Nat

\* What Get of the secret finds, and what secret.Data[etcd key] holds.
SecretState == {"absent", "nokey", "corrupt"} \cup Key

RunPhases == {"idle", "imported"}

VARIABLES
    secret,     \* the runtime secret gardener-apiserver-encryption-configuration
    imports,    \* o.imports.GardenerAPIServer.ComponentConfiguration.Encryption
    apiKey,     \* the key the running Gardener API server encrypts etcd data with
    used,       \* keys generated so far (AddNewEncryptionKey draws fresh ones)
    pc,         \* idle: between runs; imported: the function returned nil
    errors, aborts

vars == <<secret, imports, apiKey, used, pc, errors, aborts>>

-----------------------------------------------------------------------------
\* An installation never run (secret absent or created without the key), or
\* one whose earlier run stored and deployed a key (possibly corrupted since).
Init ==
    /\ \/ "absent" \in SecretInit /\ secret = "absent" /\ apiKey = None
       \/ "nokey" \in SecretInit /\ secret = "nokey" /\ apiKey = None
       \/ \E k \in Key :
            /\ \/ "stored" \in SecretInit /\ secret = k
               \/ "corrupt" \in SecretInit /\ secret = "corrupt"
            /\ apiKey = k
    /\ used = IF apiKey = None THEN {} ELSE {apiKey}
    /\ imports = None
    /\ pc = "idle"
    /\ errors = 0 /\ aborts = 0

\* Get fails with an error other than NotFound: the run returns the error.
GetFailed ==
    /\ errors < MaxErrors
    /\ errors' = errors + 1

\* Get succeeded, or failed with NotFound (secret = nil).
SecretFound == secret # "absent"

\* Mutant: data that does not load is taken for a missing data key.
ContainsEncryptionConfigMutant == secret \in Key

\* data, containsEncryptionConfig = secret.Data[secretDataKeyEtcdEncryption]
ContainsEncryptionConfig == secret \in Key \cup {"corrupt"}

\* generateEncryptionConfiguration: AddNewEncryptionKey draws a random key,
\* one never drawn before.
GenerateKey == Key \ used

\* The generate branch: the new configuration is imported, or the run
\* returns AddNewEncryptionKey's error.
Generate ==
    \/ /\ errors < MaxErrors
       /\ errors' = errors + 1
       /\ UNCHANGED <<imports, used, pc>>
    \/ \E k \in GenerateKey :
          /\ imports' = k
          /\ used' = used \cup {k}
          /\ pc' = "imported"
          /\ UNCHANGED errors

\* Mutant: the error of etcdencryption.Load ignored.
ReuseMutant ==
    /\ secret \in Key \cup {"corrupt"}
    /\ imports' = secret
    /\ pc' = "imported"
    /\ UNCHANGED <<used, errors>>

\* etcdencryption.Load(data) succeeds: the stored configuration is imported.
Reuse ==
    /\ secret \in Key
    /\ imports' = secret
    /\ pc' = "imported"
    /\ UNCHANGED <<used, errors>>

\* etcdencryption.Load(data) of data that does not parse: the run returns
\* the error and changes nothing.
LoadFailed ==
    /\ secret = "corrupt"
    /\ UNCHANGED <<imports, used, pc, errors>>

\* Mutant: a Get error is taken for NotFound (the IsNotFound check dropped).
GetOrGenerateEncryptionConfigurationMutant ==
    /\ pc = "idle"
    /\ \/ /\ errors < MaxErrors
          /\ errors' = errors + 1
          /\ \E k \in Key \ used :
                imports' = k /\ used' = used \cup {k} /\ pc' = "imported"
       \/ SecretFound /\ ContainsEncryptionConfig /\ (Reuse \/ LoadFailed)
       \/ ~(SecretFound /\ ContainsEncryptionConfig) /\ Generate
    /\ UNCHANGED <<secret, apiKey, aborts>>

\* Mutant: NotFound is returned like any other Get error.
GetOrGenerateNotFoundMutant ==
    /\ pc = "idle"
    /\ \/ GetFailed /\ UNCHANGED <<imports, used, pc>>
       \/ ~SecretFound /\ UNCHANGED <<imports, used, pc, errors>>
       \/ SecretFound /\ ContainsEncryptionConfig /\ (Reuse \/ LoadFailed)
       \/ SecretFound /\ ~ContainsEncryptionConfig /\ Generate
    /\ UNCHANGED <<secret, apiKey, aborts>>

\* One call of GetOrGenerateEncryptionConfiguration in a fresh run (imports
\* are those of a new operation, so None on entry).
GetOrGenerateEncryptionConfiguration ==
    /\ pc = "idle"
    /\ \/ GetFailed /\ UNCHANGED <<imports, used, pc>>
       \/ SecretFound /\ ContainsEncryptionConfig /\ (Reuse \/ LoadFailed)
       \/ ~(SecretFound /\ ContainsEncryptionConfig) /\ Generate
    /\ UNCHANGED <<secret, apiKey, aborts>>

\* The rest of the landscaper run: the API server is deployed with the
\* imported configuration, which is stored in the secret.
ApplyConfiguration ==
    /\ pc = "imported"
    /\ apiKey' = imports
    /\ secret' = imports
    /\ imports' = None
    /\ pc' = "idle"
    /\ UNCHANGED <<used, errors, aborts>>

\* A later step of the run fails: the imported configuration is lost with
\* the operation, nothing was deployed or stored.
AbortRun ==
    /\ pc = "imported"
    /\ aborts < MaxAborts
    /\ aborts' = aborts + 1
    /\ imports' = None
    /\ pc' = "idle"
    /\ UNCHANGED <<secret, apiKey, used, errors>>

Next ==
    \/ GetOrGenerateEncryptionConfiguration
    \/ ApplyConfiguration
    \/ AbortRun

\* The landscaper is rerun until it succeeds.
Spec == Init /\ [][Next]_vars
             /\ WF_vars(GetOrGenerateEncryptionConfiguration)
             /\ WF_vars(ApplyConfiguration)

-----------------------------------------------------------------------------
TypeOK ==
    /\ secret \in SecretState
    /\ imports \in Key \cup {None}
    /\ apiKey \in Key \cup {None}
    /\ used \subseteq Key
    /\ pc \in RunPhases
    /\ errors \in 0..MaxErrors /\ aborts \in 0..MaxAborts

\* Once the API server encrypts etcd data with a key, no later landscaper
\* run deploys it with another one: a transient Get error, a data key that
\* does not load, or a run aborted after generating must never make
\* GetOrGenerateEncryptionConfiguration hand out a fresh key, since the data
\* already written would become unreadable.
KeyNeverReplaced ==
    [][apiKey # None => apiKey' = apiKey]_apiKey

\* Once a key is deployed, the secret holds it (or data that no longer
\* loads), and a run that imported a configuration imported that key: what
\* GetOrGenerateEncryptionConfiguration reads back is what the previous
\* successful run stored, across Get errors, load errors and aborted runs.
DeployedKeyStored ==
    /\ pc = "imported" => imports \in Key
    /\ apiKey # None => secret \in {apiKey, "corrupt"}
    /\ apiKey # None /\ pc = "imported" => imports = apiKey

\* Unless the stored configuration is corrupt, repeated landscaper runs
\* eventually leave the API server encrypting with the key held in the
\* secret, and keep it so.
EventuallyEncrypted ==
    (secret # "corrupt") => <>[](apiKey \in Key /\ secret = apiKey)

=============================================================================
