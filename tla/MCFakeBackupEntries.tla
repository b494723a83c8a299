------------------------- MODULE MCFakeBackupEntries -------------------------
EXTENDS FakeBackupEntries, TLC

CONSTANTS n1, n2, ns1, ns2, l1, l2, c1

MCName == {n1, n2}
MCNamespace == {ns1, ns2}
MCLabel == {l1, l2}
MCContent == {c1}

=============================================================================
