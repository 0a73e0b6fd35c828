---------------------------- MODULE MCEvaluation -----------------------------
(***************************************************************************)
(* Small registries for Evaluation.                                         *)
(***************************************************************************)
EXTENDS Evaluation

CONSTANTS A, B, C, face, iris

AllNames == {A, B, C}
AllModalities == {face, iris}

P(n, m, java, alloc, free) ==
    [name |-> n, modality |-> m, java |-> java, alloc |-> alloc,
     exportsFree |-> free]

NativeArray(n, m) == P(n, m, FALSE, "array", FALSE)
NativeOwn(n, m) == P(n, m, FALSE, "own", TRUE)
JavaWithSo(n, m) == P(n, m, TRUE, "array", TRUE)

(* No provider; one of each kind; two of one name, in one and in two        *)
(* modalities.                                                              *)
SomeRegistries ==
    {<<>>,
     <<NativeArray(A, face), NativeOwn(B, face), JavaWithSo(C, face)>>,
     <<NativeOwn(A, face), NativeArray(A, face), NativeArray(B, iris)>>,
     <<NativeArray(A, iris), NativeOwn(A, face), JavaWithSo(A, face)>>}

SomeCodes == {-1, 0, 7}
=============================================================================
