--------------------------- MODULE MCJavaBinding -----------------------------
(***************************************************************************)
(* Two Java threads for JavaBinding.                                        *)
(***************************************************************************)
EXTENDS JavaBinding, TLC

CONSTANTS t1, t2

OneThread == {t1}
TwoThreads == {t1, t2}

(* A first class, a second one, a method.                                   *)
ThreeFaults == {"ArrayList", "ProviderInfo", "add"}
=============================================================================
