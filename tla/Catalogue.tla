------------------------------ MODULE Catalogue ------------------------------
(***************************************************************************)
(* What a BIQT object promises its callers about the list of providers: a   *)
(* write-once snapshot.  The list an object shows is settled in one step,   *)
(* once it shows a provider it never changes again, and every call of       *)
(* getProviders on the object answers with exactly that list.               *)
(* Registry implements this specification step by step.                     *)
(***************************************************************************)
EXTENDS Naturals

CONSTANTS
    Threads,    \* the threads of the host program
    Objects,    \* the identities of BIQT objects
    Libs,       \* the provider libraries an installation can hold
    NoObject    \* "this thread has not asked yet"

VARIABLES
    state,      \* state[o]: "unborn", "live" or "gone"
    listed,     \* listed[o]: the libraries object o shows
    answer      \* answer[t]: what the last getProviders of thread t returned

catVars == <<state, listed, answer>>

NoAnswer == [obj |-> NoObject, libs |-> {}]

Init ==
    /\ state = [o \in Objects |-> "unborn"]
    /\ listed = [o \in Objects |-> {}]
    /\ answer = [t \in Threads |-> NoAnswer]

(* The constructor returns with whatever S it could load.                   *)
Create(o, S) ==
    /\ state[o] = "unborn"
    /\ state' = [state EXCEPT ![o] = "live"]
    /\ listed' = [listed EXCEPT ![o] = S]
    /\ UNCHANGED answer

(* The constructor ends in an exception: there is no object.                *)
Abort(o) ==
    /\ state[o] = "unborn"
    /\ state' = [state EXCEPT ![o] = "gone"]
    /\ UNCHANGED <<listed, answer>>

(* getProviders: a list that is not empty is returned as it is, an empty    *)
(* one may be looked for again.                                             *)
Ask(t, o, S) ==
    /\ state[o] = "live"
    /\ listed[o] # {} => S = listed[o]
    /\ listed' = [listed EXCEPT ![o] = S]
    /\ answer' = [answer EXCEPT ![t] = [obj |-> o, libs |-> S]]
    /\ UNCHANGED state

(* A getProviders that looked again and ended in an exception.              *)
Fail(o, S) ==
    /\ state[o] = "live"
    /\ listed[o] = {}
    /\ listed' = [listed EXCEPT ![o] = S]
    /\ UNCHANGED <<state, answer>>

Retire(o) ==
    /\ state[o] = "live"
    /\ state' = [state EXCEPT ![o] = "gone"]
    /\ listed' = [listed EXCEPT ![o] = {}]
    /\ UNCHANGED answer

Next ==
    \E o \in Objects :
        \/ Abort(o)
        \/ Retire(o)
        \/ \E S \in SUBSET Libs :
              \/ Create(o, S)
              \/ Fail(o, S)
              \/ \E t \in Threads : Ask(t, o, S)

Spec == Init /\ [][Next]_catVars
=============================================================================
