--------------------------- MODULE MCWalletLocks ---------------------------
EXTENDS WalletLocks
CONSTANTS b, c1, m1, m2
NobodyTorn == {{}}
SomeTorn == {{}, {"manual"}, {"bot", "manual", "cleanup"}}
NoneSlow == {{}}
SomeSlow == {{}, {"cleanup", "manual"}}
=============================================================================
