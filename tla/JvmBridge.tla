------------------------------ MODULE JvmBridge ------------------------------
(***************************************************************************)
(* Evaluating a Java provider: java_provider_eval creates a Java virtual    *)
(* machine for every evaluation, looks the provider up, calls it, copies    *)
(* the text of its answer and destroys the machine.                         *)
(* Source: src/java/src/c/java_provider.cpp, src/java/src/c/jnihelper.c.    *)
(*                                                                          *)
(* The virtual machine is external.  What is modelled of it: a process gets *)
(* one machine in its life (JNI_CreateJavaVM fails while one is there and   *)
(* after it was destroyed); DestroyJavaVM waits for the threads Java code   *)
(* started; a JNI call made while an exception is pending, or on a null     *)
(* object, is undefined: it fails or ends the process.  A provider is       *)
(* abstracted to the first stage of an evaluation that fails for it, and to *)
(* the stages at which its code starts a thread.                            *)
(***************************************************************************)
EXTENDS Naturals, Sequences

CONSTANTS
    Threads,    \* threads of the host program
    NoThread,   \* not a thread
    Plugins,    \* the Java providers, see Plugin
    MaxCalls    \* bound: no call starts once this many have returned

(* The stages of java_provider_eval, each named for what it obtains: the    *)
(* machine, the provider's class, constructor and evaluate method, the      *)
(* provider object, its answer, JSONObject and its toString method, the     *)
(* answer's text, the characters of the text.                               *)
Stages == {"create", "class", "ctor", "method", "object", "answer", "json",
           "tostring", "text", "chars"}

(* Mutant of After: the text is not asked for.                              *)
AfterWithoutText ==
    [class |-> "ctor", ctor |-> "method", method |-> "object",
     object |-> "answer", answer |-> "json", json |-> "tostring",
     tostring |-> "characters", text |-> "chars", chars |-> "destroy"]

After == [class |-> "ctor", ctor |-> "method", method |-> "object",
          object |-> "answer", answer |-> "json", json |-> "tostring",
          tostring |-> "text", text |-> "chars", chars |-> "destroy"]

(* The stages that run Java code: static initialisers (FindClass), the      *)
(* provider's constructor and evaluate method, toString of its answer.      *)
RunsJava == {"class", "object", "answer", "json", "text"}

Plugin == [fails : Stages \cup {"nowhere"}, spawns : SUBSET RunsJava]

ASSUME PluginsAssumption == Plugins \subseteq Plugin
ASSUME NoThreadAssumption == NoThread \notin Threads
ASSUME BoundAssumption == MaxCalls \in Nat

VARIABLES
    jvm,        \* "absent", "host", "running", "gone" or "crashed"
    creator,    \* the thread that created the machine
    spawned,    \* does a thread started by Java code still run?
    call,       \* call[t]: the java_provider_eval t is in
    log         \* history: the evaluations that returned

vars == <<jvm, creator, spawned, call, log>>

(* What java_provider_eval returns: a null pointer, or new char[].          *)
Null == "null"
Copy == "new char[]"

(* pending: an exception is pending in the thread's JNI environment.        *)
CallType == [pc : Stages \cup {"idle", "destroy"}, plugin : Plugin,
             pending : BOOLEAN, text : {Null, Copy}]

(* created: the call created the machine.                                   *)
LogType == [plugin : Plugin, created : BOOLEAN, text : {Null, Copy}]

CallAt(pc, p, pending, text) ==
    [pc |-> pc, plugin |-> p, pending |-> pending, text |-> text]
Idle == CallAt("idle", [fails |-> "nowhere", spawns |-> {}], FALSE, Null)

Fails(t) == call[t].plugin.fails = call[t].pc

(* What a stage leaves running, whether it fails or not.                    *)
MaySpawn(t) == spawned' = (spawned \/ call[t].pc \in call[t].plugin.spawns)

Goto(t, pc, pending, text) ==
    call' = [call EXCEPT ![t] = CallAt(pc, call[t].plugin, pending, text)]

Returns(t, created, text) ==
    /\ call' = [call EXCEPT ![t] = Idle]
    /\ log' = Append(log, [plugin |-> call[t].plugin, created |-> created,
                           text |-> text])

-----------------------------------------------------------------------------
(* host: the process is itself a Java program that uses the BIQT class.     *)
Init ==
    /\ jvm \in {"absent", "host"}
    /\ creator = NoThread
    /\ spawned = FALSE
    /\ call = [t \in Threads |-> Idle]
    /\ log = <<>>

Enter(t, p) ==
    /\ call[t].pc = "idle"
    /\ Len(log) < MaxCalls
    /\ call' = [call EXCEPT ![t] = CallAt("create", p, FALSE, Null)]
    /\ UNCHANGED <<jvm, creator, spawned, log>>

(* JNI_CreateJavaVM succeeds.                                               *)
Create(t) ==
    /\ call[t].pc = "create"
    /\ jvm = "absent"
    /\ ~Fails(t)
    /\ jvm' = "running"
    /\ creator' = t
    /\ Goto(t, "class", FALSE, Null)
    /\ UNCHANGED <<spawned, log>>

(* Mutants of CreateRefused: rc is not tested; creation is tried again.     *)
CreateUnchecked(t) ==
    /\ call[t].pc = "create"
    /\ jvm # "absent" \/ Fails(t)
    /\ Goto(t, "class", FALSE, Null)
    /\ UNCHANGED <<jvm, creator, spawned, log>>

CreateRetried(t) ==
    /\ call[t].pc = "create"
    /\ jvm # "absent" \/ Fails(t)
    /\ UNCHANGED vars

(* rc # JNI_OK: init_jvm gives up.                                          *)
CreateRefused(t) ==
    /\ call[t].pc = "create"
    /\ jvm # "absent" \/ Fails(t)
    /\ Returns(t, FALSE, Null)
    /\ UNCHANGED <<jvm, creator, spawned>>

(* A stage that obtains what it asks for.                                   *)
Obtain(t) ==
    /\ call[t].pc \in DOMAIN After
    /\ ~Fails(t)
    /\ ~call[t].pending
    /\ Goto(t, After[call[t].pc], FALSE,
            IF call[t].pc = "chars" THEN Copy ELSE Null)
    /\ MaySpawn(t)
    /\ UNCHANGED <<jvm, creator, log>>

(* Mutant of ClassMissing: the machine is destroyed as well.                *)
ClassMissingDestroys(t) ==
    /\ call[t].pc = "class"
    /\ Fails(t)
    /\ Goto(t, "destroy", TRUE, Null)
    /\ MaySpawn(t)
    /\ UNCHANGED <<jvm, creator, log>>

(* FindClass returns null: there is no such class, or its static            *)
(* initialiser threw.  init_jvm fails after the machine was created, and    *)
(* nobody destroys it, whatever the initialiser started.                    *)
ClassMissing(t) ==
    /\ call[t].pc = "class"
    /\ Fails(t)
    /\ Returns(t, TRUE, Null)
    /\ MaySpawn(t)
    /\ UNCHANGED <<jvm, creator>>

(* jni_get_method finds no method, which leaves an exception pending, and   *)
(* throws another one, which takes more JNI calls.                          *)
MethodMissing(t) ==
    /\ call[t].pc \in {"ctor", "method", "tostring"}
    /\ Fails(t)
    /\ jvm' \in {"running", "crashed"}
    /\ Goto(t, "destroy", TRUE, Null)
    /\ UNCHANGED <<creator, spawned, log>>

(* NewObject fails, and nothing tests whether it did.                       *)
ObjectFails(t) ==
    /\ call[t].pc = "object"
    /\ Fails(t)
    /\ Goto(t, "answer", TRUE, Null)
    /\ MaySpawn(t)
    /\ UNCHANGED <<jvm, creator, log>>

(* CallObjectMethod on the null object, with the exception pending.  When   *)
(* it returns, the exception check ends the evaluation.                     *)
AnswerUndefined(t) ==
    /\ call[t].pc = "answer"
    /\ call[t].pending
    /\ jvm' \in {"running", "crashed"}
    /\ Goto(t, "destroy", FALSE, Null)
    /\ UNCHANGED <<creator, spawned, log>>

(* Mutant of CallFails: the function returns without destroying the machine.  *)
CallFailsKeepsJvm(t) ==
    /\ call[t].pc \in {"answer", "text"}
    /\ Fails(t)
    /\ Returns(t, TRUE, Null)
    /\ MaySpawn(t)
    /\ UNCHANGED <<jvm, creator>>

(* evaluate or toString throws or returns null: the exception is cleared.   *)
CallFails(t) ==
    /\ call[t].pc \in {"answer", "text"}
    /\ Fails(t)
    /\ ~call[t].pending
    /\ Goto(t, "destroy", FALSE, Null)
    /\ MaySpawn(t)
    /\ UNCHANGED <<jvm, creator, log>>

(* FindClass of JSONObject, or GetStringUTFChars, returns null.             *)
ReadFails(t) ==
    /\ call[t].pc \in {"json", "chars"}
    /\ Fails(t)
    /\ Goto(t, "destroy", TRUE, Null)
    /\ MaySpawn(t)
    /\ UNCHANGED <<jvm, creator, log>>

(* Mutant of Destroy: the machine is taken down without waiting for other   *)
(* threads.                                                                 *)
DestroyAtOnce(t) ==
    /\ call[t].pc = "destroy"
    /\ jvm' = "gone"
    /\ Returns(t, TRUE, call[t].text)
    /\ UNCHANGED <<creator, spawned>>

(* destroy_jvm, which waits for other threads of Java code, and the return. *)
Destroy(t) ==
    /\ call[t].pc = "destroy"
    /\ ~spawned
    /\ jvm' = "gone"
    /\ Returns(t, TRUE, call[t].text)
    /\ UNCHANGED <<creator, spawned>>

JavaThreadEnds ==
    /\ spawned
    /\ spawned' = FALSE
    /\ UNCHANGED <<jvm, creator, call, log>>

Step(t) ==
    \/ Create(t)
    \/ CreateRefused(t)
    \/ Obtain(t)
    \/ ClassMissing(t)
    \/ MethodMissing(t)
    \/ ObjectFails(t)
    \/ AnswerUndefined(t)
    \/ CallFails(t)
    \/ ReadFails(t)
    \/ Destroy(t)

(* A process that crashed does nothing more.                                *)
Next ==
    /\ jvm # "crashed"
    /\ \/ \E t \in Threads : Step(t) \/ \E p \in Plugins : Enter(t, p)
       \/ JavaThreadEnds

Spec == Init /\ [][Next]_vars

(* A thread in a call is scheduled again and again, and the threads that    *)
(* providers start end.                                                     *)
FairSpec ==
    /\ Spec
    /\ \A t \in Threads : WF_vars(jvm # "crashed" /\ Step(t))
    /\ WF_vars(jvm # "crashed" /\ JavaThreadEnds)

-----------------------------------------------------------------------------
(* Properties.                                                              *)

(* Every variable keeps its type.                                           *)
TypeOK ==
    /\ jvm \in {"absent", "host", "running", "gone", "crashed"}
    /\ creator \in Threads \cup {NoThread}
    /\ spawned \in BOOLEAN
    /\ call \in [Threads -> CallType]
    /\ log \in Seq(LogType)

(* java_provider_eval has no lock, and the threads of the host may enter it *)
(* together.  The test of JNI_CreateJavaVM's result is what keeps them      *)
(* apart: every JNI call comes from the thread that created the machine,    *)
(* and from nobody before its creation or after its destruction.            *)
Inside(t) == call[t].pc \notin {"idle", "create"}
OnlyCreatorInside ==
    \A t \in Threads :
        Inside(t) => jvm \in {"running", "crashed"} /\ creator = t

(* In a Java program that uses BIQT the program's own machine is neither    *)
(* entered nor destroyed, whatever Java providers are asked for.            *)
HostJvmStays == [][jvm = "host" => jvm' = "host"]_vars

(* A process gets at most one answer from its Java providers.  The caller   *)
(* sees the other evaluations as errors.                                    *)
AnswersOnce ==
    \A i, j \in DOMAIN log :
        log[i].text = Copy /\ log[j].text = Copy => i = j

(* A machine that runs while no evaluation does was left by one that did    *)
(* not find its provider's class; every other failure destroys it.          *)
NoJvmLeftBehind ==
    jvm = "running" /\ (\A t \in Threads : ~Inside(t)) =>
        \E i \in DOMAIN log : log[i].created /\ log[i].plugin.fails = "class"

(* Every evaluation returns, with one machine for all threads, unless the   *)
(* process crashed.                                                         *)
EvalReturns ==
    \A t \in Threads :
        call[t].pc # "idle" ~> call[t].pc = "idle" \/ jvm = "crashed"

(* Strengthening of AnswersOnce: once an evaluation that created the        *)
(* machine has returned, nobody is inside and nobody creates another one.   *)
OnceInv ==
    /\ OnlyCreatorInside
    /\ AnswersOnce
    /\ \A i \in DOMAIN log :
          log[i].text = Copy =>
              jvm # "absent" /\ \A t \in Threads : ~Inside(t)
=============================================================================
