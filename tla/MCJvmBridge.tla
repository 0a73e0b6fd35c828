---------------------------- MODULE MCJvmBridge ------------------------------
(***************************************************************************)
(* Small processes for JvmBridge.                                           *)
(***************************************************************************)
EXTENDS JvmBridge

CONSTANTS t1, t2

TwoThreads == {t1, t2}

(* A provider for every stage that can fail, and good ones; each starts no  *)
(* threads, or one wherever its code runs.                                  *)
AllPlugins ==
    {[fails |-> s, spawns |-> p] :
        s \in Stages \cup {"nowhere"}, p \in {{}, RunsJava}}
=============================================================================
