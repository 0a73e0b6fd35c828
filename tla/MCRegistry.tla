----------------------------- MODULE MCRegistry ------------------------------
(***************************************************************************)
(* Small installations for Registry.                                        *)
(***************************************************************************)
EXTENDS Registry, TLC

CONSTANTS t1, t2, o1, o2

E(so, desc, eval) == [dir |-> TRUE, so |-> so, desc |-> desc, eval |-> eval]

Absent    == [E("none", "missing", FALSE) EXCEPT !.dir = FALSE]
Native    == E("ok", "native", TRUE)
JavaOnly  == E("none", "java", FALSE)
JavaWithSo == E("ok", "java", FALSE)
NoEval    == E("ok", "native", FALSE)
Broken    == E("broken", "native", FALSE)
NoSo      == E("none", "native", FALSE)
NoDesc    == E("ok", "missing", TRUE)
IllTyped  == E("ok", "illTyped", TRUE)
Malformed == E("none", "malformed", FALSE)
NotObject == E("ok", "notObject", TRUE)

(* One entry for every way through ProviderInfo's constructor.              *)
AllEntries == {Absent, Native, JavaOnly, JavaWithSo, NoEval, Broken, NoSo,
               NoDesc, IllTyped, Malformed, NotObject}

(* For an installation that changes: not there, there, breaking the scan.   *)
Upgrades == {Absent, Native, Malformed}

OneThread == {t1}
TwoThreads == {t1, t2}
OneObject == {o1}
TwoObjects == {o1, o2}

Symmetry == Permutations(Threads) \cup Permutations(Objects)
=============================================================================
