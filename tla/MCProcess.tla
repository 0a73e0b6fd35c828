------------------------------ MODULE MCProcess ------------------------------
(***************************************************************************)
(* Small processes for Process: native providers beside Java providers with *)
(* different faults, in both orders.                                        *)
(***************************************************************************)
EXTENDS Process

CONSTANTS N, J, K, Lost, Bare, NoVm, face, iris, t1

AllNames == {N, J, K, Lost, Bare, NoVm}
AllModalities == {face, iris}
SomeCodes == {0, 7}

(* J: nothing is wrong; K: starts threads and throws; Lost: its static      *)
(* initialiser does; Bare: its constructor throws; NoVm: its class path is  *)
(* refused.                                                                 *)
PluginOfName ==
    [n \in AllNames |->
        [fails |-> IF n = K THEN "answer"
                   ELSE IF n = Lost THEN "class"
                   ELSE IF n = Bare THEN "object"
                   ELSE IF n = NoVm THEN "create"
                   ELSE "nowhere",
         spawns |-> IF n = K THEN {"object", "answer"}
                    ELSE IF n = Lost THEN {"class"}
                    ELSE {}]]

Native(n, m) == [name |-> n, modality |-> m, java |-> FALSE, alloc |-> "own",
                 exportsFree |-> TRUE]
Java(n, m) == [name |-> n, modality |-> m, java |-> TRUE, alloc |-> "array",
               exportsFree |-> FALSE]

SomeRegistries ==
    {<<Native(N, face), Java(J, face)>>,
     <<Java(NoVm, face), Java(J, face), Native(N, face)>>,
     <<Java(J, iris), Java(K, face), Native(N, face)>>,
     <<Java(Lost, face), Native(N, face), Java(J, iris)>>,
     <<Java(Bare, face), Native(N, iris)>>}

NativeAndJava == {<<Native(N, face), Java(J, face)>>}
=============================================================================
