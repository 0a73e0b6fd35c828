------------------------------- MODULE Process --------------------------------
(***************************************************************************)
(* A process that runs its native and its Java providers again and again:   *)
(* Evaluation, whose evaluation of a Java provider is a call of JvmBridge.  *)
(* The biqt program evaluates each file of a list this way, a Java program  *)
(* each file it hands to class BIQT.                                        *)
(* Source: src/cxx/BIQT.cpp (ProviderInfo::evaluate).                       *)
(***************************************************************************)
EXTENDS Integers, Sequences

CONSTANTS
    Names, Modalities, Registries, Codes, Garbage,  \* see Evaluation
    Thread,         \* the thread that runs providers
    NoThread,
    PluginOf,       \* how the evaluation of the Java provider of a name goes
    MaxEvaluations  \* bound: a request starts while its evaluations fit

ASSUME PluginAssumption == Names \subseteq DOMAIN PluginOf
ASSUME BoundAssumption == MaxEvaluations \in Nat /\ Thread # NoThread

VARIABLES
    registry, call, heap, results, log,         \* of Evaluation
    jvm, creator, spawned, bridge, answers,     \* of JvmBridge
    past        \* history: the evaluations of the requests before this one

E == INSTANCE Evaluation
B == INSTANCE JvmBridge WITH
        Threads <- {Thread},
        Plugins <- {PluginOf[n] : n \in Names},
        MaxCalls <- MaxEvaluations,
        call <- bridge,
        log <- answers

evaluationVars == <<registry, call, heap, results, log>>
bridgeVars == <<jvm, creator, spawned, bridge, answers>>
vars == <<registry, call, heap, results, log, jvm, creator, spawned, bridge,
          answers, past>>

(* The current request is at the evaluation of a Java provider.             *)
AtJava == call.pc = "eval" /\ registry[call.at].java
Plugin(i) == PluginOf[registry[i].name]

-----------------------------------------------------------------------------
Init == E!Init /\ B!Init /\ past = <<>>

(* An evaluation, without how the text parsed.                              *)
Seen(e) == [prov |-> e.prov, answered |-> e.text # E!Null]
SeenOf(l) == [i \in DOMAIN l |-> Seen(l[i])]
Life == past \o SeenOf(log)

(* The next file, or the next call of the Java program.                     *)
Request ==
    /\ Len(Life) + Len(registry) <= MaxEvaluations
    /\ E!Request
    /\ past' = Life
    /\ UNCHANGED bridgeVars

NativeStep ==
    /\ ~AtJava
    /\ E!Step
    /\ UNCHANGED <<bridgeVars, past>>

(* evaluate enters java_provider_eval.                                      *)
EnterJava ==
    /\ AtJava
    /\ B!Enter(Thread, Plugin(call.at))
    /\ UNCHANGED <<evaluationVars, past>>

InJava ==
    /\ B!Step(Thread)
    /\ answers' = answers
    /\ UNCHANGED <<evaluationVars, past>>

(* evaluate returns what java_provider_eval does: a null pointer with a     *)
(* message, or the text.                                                    *)
JavaReturns ==
    /\ AtJava
    /\ B!Step(Thread)
    /\ answers' # answers
    /\ IF answers'[Len(answers')].text = B!Copy
       THEN \E x \in E!Texts : E!Evaluate(x)
       ELSE E!EvaluateNull
    /\ UNCHANGED past

JavaThreadEnds == B!JavaThreadEnds /\ UNCHANGED <<evaluationVars, past>>

Step == NativeStep \/ EnterJava \/ InJava \/ JavaReturns

(* A process that crashed does nothing more.                                *)
Next == jvm # "crashed" /\ (Step \/ JavaThreadEnds \/ Request)

Spec == Init /\ [][Next]_vars

(* The running thread is scheduled, every evaluation of a native provider   *)
(* ends, and so do the threads that Java providers start.                   *)
FairSpec ==
    /\ Spec
    /\ WF_vars(jvm # "crashed" /\ Step)
    /\ WF_vars(jvm # "crashed" /\ JavaThreadEnds)

-----------------------------------------------------------------------------
(* Properties.                                                              *)

(* Which Java provider answers is decided by the order of the registry and  *)
(* of the requests: the one whose evaluation gets the process's only        *)
(* machine.  Every Java provider evaluated before it was refused a machine, *)
(* none answers after it, on this file or on a later one, and none ever     *)
(* does in a program that runs on a Java machine itself.                    *)
FirstMachineAnswers ==
    \A f \in DOMAIN Life :
        registry[Life[f].prov].java /\ Life[f].answered =>
            /\ jvm # "host"
            /\ \A e \in DOMAIN Life :
                  e # f /\ registry[Life[e].prov].java =>
                      /\ ~Life[e].answered
                      /\ e < f => Plugin(Life[e].prov).fails = "create"

(* An evaluation did not find its provider's class, whose static            *)
(* initialiser had started a thread before it threw.                        *)
Missed ==
    \E i \in DOMAIN answers :
        /\ answers[i].created
        /\ answers[i].plugin.fails = "class"
        /\ "class" \in answers[i].plugin.spawns

(* Java code that runs while a native provider does, while a result is      *)
(* parsed or when the caller has its answer comes of such an evaluation,    *)
(* which leaves its machine behind: every other one, whatever fails in it,  *)
(* outlasts the threads its provider started.                               *)
OnlyMissedOutlast == spawned /\ ~AtJava => Missed

(* Every request returns, whatever its providers do and although they share *)
(* one machine, unless a Java provider crashed the process.                 *)
RequestReturns ==
    call.pc # "idle" ~> call.pc = "idle" \/ jvm = "crashed"

(* "Evaluates the given file using all of the providers associated with the *)
(* given modality" and, with a file list, every file of it (BIQT-cli.cpp):  *)
(* in a native program a provider nothing is wrong with gives its answer.   *)
ReadyProviderAnswers ==
    jvm # "host" =>
        \A e \in DOMAIN Life :
            LET p == Life[e].prov
            IN  registry[p].java /\ Plugin(p).fails = "nowhere" =>
                    Life[e].answered
=============================================================================
