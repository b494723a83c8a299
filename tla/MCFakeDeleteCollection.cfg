CONSTANTS
    n1 = n1
    n2 = n2
    ns1 = ns1
    ns2 = ns2
    l1 = l1
    l2 = l2
    c1 = c1
    None = None
    Name <- MCName
    Namespace <- MCNamespace
    Label <- MCLabel
    Content <- MCContent
    MaxCalls = 2
    MaxPrepends = 1

SPECIFICATION Spec
CHECK_DEADLOCK FALSE
INVARIANT DeleteCollectionDeletes
