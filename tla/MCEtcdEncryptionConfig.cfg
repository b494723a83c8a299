CONSTANTS
    k1 = k1
    k2 = k2
    k3 = k3
    None = None
    Key <- MCKey
    SecretInit = {"absent", "nokey", "corrupt", "stored"}
    MaxErrors = 3
    MaxAborts = 2

SPECIFICATION Spec
INVARIANT TypeOK
INVARIANT DeployedKeyStored
PROPERTY KeyNeverReplaced
PROPERTY EventuallyEncrypted
