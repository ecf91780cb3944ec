----------------------------- MODULE MCPgOutput -----------------------------
(* Instances of PgOutput.  Module 0 stands for mod_fileout (one file, no   *)
(* forceclose hook), module 1 for mod_cmdexec (pipes, a forceclose hook, a *)
(* report of the drop counters), module 2 for a module without outputs.    *)
EXTENDS PgOutput, TLC

PipeOnly         == {0 :> 1}
FileAndPipes     == {0 :> 1 @@ 1 :> n : n \in {0, 2}} \cup {0 :> 0 @@ 1 :> 0}
WithSilentModule == {0 :> 1 @@ 1 :> n @@ 2 :> 0 : n \in {0, 1}}
=============================================================================
