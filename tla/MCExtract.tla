----------------------------- MODULE MCExtract -----------------------------
EXTENDS Extract

Compiled == INSTANCE MCCompiled
Scripts  == INSTANCE MCScripts

\* A repository has files of no stanza too.
WithDoc == LET p == CHOOSE p \in Compiled!GoPrograms : Len(p) > 1 IN [p EXCEPT ![Len(p)].ext = "md"]

MCPrograms == {WithDoc} \cup Compiled!CompiledPrograms \cup Scripts!ScriptPrograms

\* Programs whose names the stanzas do not tell apart, by the way they meet.
MCShadowedLocals  == Compiled!ShadowedLocals \cup Scripts!ShadowedLocals
MCShadowedImports == Compiled!ShadowedImports \cup Scripts!ShadowedImports
MCHomonyms        == Compiled!Homonyms \cup Scripts!Homonyms
MCCollisions      == MCShadowedLocals \cup MCShadowedImports \cup MCHomonyms
=============================================================================
