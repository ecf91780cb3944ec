---------------------------- MODULE MCPsiSection ----------------------------
EXTENDS PsiSection, TLC

CONSTANTS short, long

MCLength == (short :> 3) @@ (long :> 10)
=============================================================================
