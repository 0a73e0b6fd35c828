---------------------------- MODULE JavaBinding ------------------------------
(***************************************************************************)
(* The Java class BIQT and its native methods: the life of the C++ object   *)
(* behind a Java object, the lookups of getProviders through JNI, and what  *)
(* becomes of the answers for a list of files.                              *)
(* Source: src/java/src/c/org_mitre_biqt_BIQT.cpp, src/java/src/c/          *)
(* jnihelper.c, src/java/src/main/java/org/mitre/biqt/BIQT.java.            *)
(*                                                                          *)
(* One Java object is modelled, shared by threads.  Its program may call    *)
(* initialize, which is public, again, and calls destroy as the             *)
(* documentation demands, when it is finished with the object: perhaps more *)
(* than once, and from several threads at once, for its container calls it  *)
(* too (@PreDestroy).  C++ objects are numbered.  A text is abstracted to   *)
(* the number of JSON objects it is made of: json-simple parses it when     *)
(* that is one.                                                             *)
(***************************************************************************)
EXTENDS Integers, Sequences

CONSTANTS
    Threads,        \* Java threads
    NumFiles,       \* length of the longest list of input files
    NumProviders,   \* providers of the largest modality
    MaxObjects,     \* bound on the C++ objects created
    Faults,         \* the lookups that may fail
    WideLong        \* is a C long as wide as a pointer?  Not on 64-bit Windows

(* The lookups of the native getProviders, in their order.                  *)
Lookups == <<"ArrayList", "ProviderInfo", "ArrayList()", "add",
             "ProviderInfo()">>
Names == {Lookups[i] : i \in DOMAIN Lookups}
Classes == {"ArrayList", "ProviderInfo"}
ClassOf(l) == IF l = "ProviderInfo()" THEN "ProviderInfo" ELSE "ArrayList"

ASSUME SizesAssumption ==
    /\ NumFiles \in Nat /\ NumProviders \in Nat \ {0} /\ MaxObjects \in Nat
    /\ Faults \subseteq Names
    /\ WideLong \in BOOLEAN

(* A pointer value that is the address of no object.                        *)
Wild == -1

(* What jni_set_pointer may keep of the address of object o: it casts the   *)
(* pointer to long, which cuts off the upper half of an address that does   *)
(* not fit.                                                                 *)
Kept(o) == IF WideLong THEN {o} ELSE {o, Wild}

VARIABLES
    ptr,            \* biqt_ptr: 0, the number of a C++ object, or Wild
    born,           \* how many C++ objects have been created
    deleted,        \* those that have been deleted
    replaced,       \* history: those whose pointer was overwritten or cut
    together,       \* history: have two threads been in destroy at once?
    finished,       \* has the program called destroy?
    missing,        \* the lookups that fail
    call,           \* call[t]: the method of BIQT the thread is in
    answer,         \* answer[t]: what its run of a list has returned so far
    java            \* the program: "runs", or how it has ended

objects == <<ptr, born, deleted, replaced, together>>
vars == <<ptr, born, deleted, replaced, together, finished, missing, call,
          answer, java>>

(* pc: idle; run: at the loop over the files; providers, destroy: about to  *)
(* enter the native method; create, store, native, lookup, delete, clear:   *)
(* in it; parse: back in Java with a text.  used: the pointer the native    *)
(* method works on.  one: runProvider, whose text is always one object.     *)
(* file, of: the file at hand and how many there are.  objects: what the    *)
(* text is made of.  at: the lookup at hand.  null: the classes whose       *)
(* pointer is null; jni_throw_exception was called for each.                *)
CallType ==
    [pc : {"idle", "run", "providers", "destroy", "create", "store", "native",
           "lookup", "delete", "clear", "parse"},
     used : Nat, one : BOOLEAN, file : Nat \ {0}, of : Nat,
     objects : Nat, at : 1..(Len(Lookups) + 1), null : SUBSET Classes]

Leaving == {"destroy", "delete", "clear"}

(* list: the files whose result was added, in order; some: those for which  *)
(* a provider succeeded.                                                    *)
AnswerType == [list : Seq(Nat \ {0}), some : SUBSET (Nat \ {0})]

Idle == [pc |-> "idle", used |-> 0, one |-> FALSE, file |-> 1, of |-> 0,
         objects |-> 0, at |-> 1, null |-> {}]
NoAnswer == [list |-> <<>>, some |-> {}]

Becomes(t, c) == call' = [call EXCEPT ![t] = c]

-----------------------------------------------------------------------------
(* The constructor has run initialize.                                      *)
Init ==
    /\ ptr \in Kept(1)
    /\ born = 1
    /\ deleted = {}
    /\ replaced = {1} \ {ptr}
    /\ together = FALSE
    /\ finished = FALSE
    /\ missing \in SUBSET Faults
    /\ call = [t \in Threads |-> Idle]
    /\ answer = [t \in Threads |-> NoAnswer]
    /\ java = "runs"

Begin(t, c) ==
    /\ call[t].pc = "idle"
    /\ ~finished
    /\ Becomes(t, c)
    /\ answer' = [answer EXCEPT ![t] = NoAnswer]
    /\ UNCHANGED <<objects, finished, missing, java>>

GetProviders(t) == Begin(t, [Idle EXCEPT !.pc = "providers"])

Initialize(t) == born < MaxObjects /\ Begin(t, [Idle EXCEPT !.pc = "create"])

(* runProvider and runModality of a list of n files.                        *)
RunList(t, one, n) ==
    Begin(t, [Idle EXCEPT !.pc = "run", !.one = one, !.of = n])

(* destroy, by a program none of whose threads is in another method.        *)
(* Nothing in destroy or cleanup keeps a second thread out.                 *)
Destroy(t) ==
    /\ call[t].pc = "idle"
    /\ \A u \in Threads : call[u].pc \in Leaving \cup {"idle"}
    /\ finished' = TRUE
    /\ together' = (together \/ \E u \in Threads : call[u].pc \in Leaving)
    /\ Becomes(t, [Idle EXCEPT !.pc = "destroy"])
    /\ UNCHANGED <<ptr, born, deleted, replaced, missing, answer, java>>

(* initialize: new BIQT(), which may throw, and jni_set_pointer.            *)
Construct(t) ==
    /\ call[t].pc = "create"
    /\ born' = born + 1
    /\ Becomes(t, [call[t] EXCEPT !.pc = "store", !.used = born + 1])
    /\ UNCHANGED <<ptr, deleted, replaced, together, finished, missing, answer,
                   java>>

Store(t) ==
    /\ call[t].pc = "store"
    /\ ptr' \in Kept(call[t].used)
    /\ replaced' = replaced \cup ({ptr, call[t].used} \ {ptr', Wild})
    /\ Becomes(t, Idle)
    /\ UNCHANGED <<born, deleted, together, finished, missing, answer, java>>

(* The scan for providers throws, in the constructor or while the registry  *)
(* is still empty, and the exception reaches the Java machine.              *)
ScanThrows(t) ==
    /\ \/ call[t].pc = "create"
       \/ call[t].pc = "native" /\ ~call[t].one
       \/ call[t].pc = "lookup" /\ call[t].at = 1
    /\ java' = "aborted"
    /\ UNCHANGED <<objects, finished, missing, call, answer>>

(* jni_get_pointer, with which every other native method starts.            *)
ReadPointer(t, from, to) ==
    /\ call[t].pc = from
    /\ ptr # Wild
    /\ Becomes(t, [call[t] EXCEPT !.pc = to, !.used = ptr])
    /\ UNCHANGED <<objects, finished, missing, answer, java>>

EnterNative(t) ==
    \/ ReadPointer(t, "providers", "lookup")
    \/ ReadPointer(t, "destroy", "delete")
    \/ call[t].file <= call[t].of /\ ReadPointer(t, "run", "native")

BeforeNative(t) ==
    \/ call[t].pc \in {"providers", "destroy"}
    \/ call[t].pc = "run" /\ call[t].file <= call[t].of

(* A native method works on, or deletes, what is no object.                 *)
ReadWild(t) ==
    /\ BeforeNative(t)
    /\ ptr = Wild
    /\ java' = "undefined"
    /\ UNCHANGED <<objects, finished, missing, call, answer>>

(* app->runProvider or app->runModality, and the text of k results.         *)
RunNative(t, k) ==
    /\ call[t].pc = "native"
    /\ call[t].one => k = 1
    /\ Becomes(t, [call[t] EXCEPT !.pc = "parse", !.used = 0, !.objects = k])
    /\ UNCHANGED <<objects, finished, missing, answer, java>>

(* Mutants of Answered: the result is added in front; the file is numbered   *)
(* by what is done before it.                                               *)
AnsweredInFront(a, c) ==
    [list |-> IF c.objects = 1 THEN <<c.file>> \o a.list ELSE a.list,
     some |-> IF c.objects > 0 THEN a.some \cup {c.file} ELSE a.some]

AnsweredFromZero(a, c) ==
    [list |-> IF c.objects = 1 THEN Append(a.list, c.file - 1) ELSE a.list,
     some |-> IF c.objects > 0 THEN a.some \cup {c.file - 1} ELSE a.some]

(* JSONParser.parse: no text, and more than one object, end in a            *)
(* ParseException, which is logged.                                         *)
Answered(a, c) ==
    [list |-> IF c.objects = 1 THEN Append(a.list, c.file) ELSE a.list,
     some |-> IF c.objects > 0 THEN a.some \cup {c.file} ELSE a.some]

(* Mutant of Parse: a text that does not parse is asked for again.          *)
ParseAgain(t) ==
    LET c == call[t]
    IN  /\ c.pc = "parse"
        /\ answer' = [answer EXCEPT ![t] = Answered(@, c)]
        /\ Becomes(t, [c EXCEPT !.pc = "run",
                                !.file = IF c.objects = 1 THEN @ + 1 ELSE @])
        /\ UNCHANGED <<objects, finished, missing, java>>

(* Whatever became of the text, the loop goes on with the next file.        *)
Parse(t) ==
    LET c == call[t]
    IN  /\ c.pc = "parse"
        /\ answer' = [answer EXCEPT ![t] = Answered(@, c)]
        /\ Becomes(t, [c EXCEPT !.pc = "run", !.file = @ + 1])
        /\ UNCHANGED <<objects, finished, missing, java>>

ReturnList(t) ==
    /\ call[t].pc = "run"
    /\ call[t].file > call[t].of
    /\ Becomes(t, [call[t] EXCEPT !.pc = "idle"])
    /\ UNCHANGED <<objects, finished, missing, answer, java>>

-----------------------------------------------------------------------------
(* The native getProviders.                                                 *)

Lookup(t) == Lookups[call[t].at]
AtLookup(t) == call[t].pc = "lookup" /\ call[t].at \in DOMAIN Lookups

(* jni_get_method returns at once when it is given no class.                *)
CallsJni(t) == Lookup(t) \in Classes \/ ClassOf(Lookup(t)) \notin call[t].null

(* The lookup finds nothing, or an exception is pending already: then what  *)
(* its call of JNI does is undefined.                                       *)
MayFail(t) == Lookup(t) \in missing \/ call[t].null # {}

(* JNI called although an exception is pending, by the lookup or by         *)
(* jni_throw_exception after it: it need not come back.                     *)
LookUpLate(t) ==
    /\ AtLookup(t)
    /\ CallsJni(t)
    /\ MayFail(t)
    /\ java' = "undefined"
    /\ UNCHANGED <<objects, finished, missing, call, answer>>

LookUp(t) ==
    /\ AtLookup(t)
    /\ CallsJni(t)
    /\ Lookup(t) \notin missing
    /\ Becomes(t, [call[t] EXCEPT !.at = @ + 1])
    /\ UNCHANGED <<objects, finished, missing, answer, java>>

(* jni_get_class throws and returns null, which nothing tests.              *)
ClassMissing(t) ==
    /\ AtLookup(t)
    /\ Lookup(t) \in Classes
    /\ MayFail(t)
    /\ Becomes(t, [call[t] EXCEPT !.at = @ + 1, !.null = @ \cup {Lookup(t)}])
    /\ UNCHANGED <<objects, finished, missing, answer, java>>

(* jni_get_method returns null: so does getProviders.                       *)
MethodMissing(t) ==
    /\ AtLookup(t)
    /\ Lookup(t) \notin Classes
    /\ CallsJni(t) => MayFail(t)
    /\ Becomes(t, Idle)
    /\ UNCHANGED <<objects, finished, missing, answer, java>>

(* The loop that fills the list from a copy of the C++ object's vector.     *)
FillList(t) ==
    /\ call[t].pc = "lookup"
    /\ call[t].at > Len(Lookups)
    /\ Becomes(t, Idle)
    /\ UNCHANGED <<objects, finished, missing, answer, java>>

-----------------------------------------------------------------------------
(* cleanup.                                                                 *)

(* Mutant of Delete: the object stays.                                      *)
DeleteNothing(t) ==
    /\ call[t].pc = "delete"
    /\ Becomes(t, [call[t] EXCEPT !.pc = "clear"])
    /\ UNCHANGED <<objects, finished, missing, answer, java>>

(* delete of a null pointer does nothing.                                   *)
Delete(t) ==
    LET o == call[t].used
    IN  /\ call[t].pc = "delete"
        /\ o \notin deleted
        /\ deleted' = deleted \cup ({o} \ {0})
        /\ Becomes(t, [call[t] EXCEPT !.pc = "clear"])
        /\ UNCHANGED <<ptr, born, replaced, together, finished, missing,
                       answer, java>>

(* delete of an object that is no more.                                     *)
DeleteAgain(t) ==
    /\ call[t].pc = "delete"
    /\ call[t].used \in deleted
    /\ java' = "double free"
    /\ UNCHANGED <<objects, finished, missing, call, answer>>

(* Mutant of Clear: the pointer stays.                                      *)
ClearNothing(t) ==
    /\ call[t].pc = "clear"
    /\ Becomes(t, Idle)
    /\ UNCHANGED <<objects, finished, missing, answer, java>>

Clear(t) ==
    /\ call[t].pc = "clear"
    /\ ptr' = 0
    /\ Becomes(t, Idle)
    /\ UNCHANGED <<born, deleted, replaced, together, finished, missing, answer,
                   java>>

Step(t) ==
    \/ Construct(t)
    \/ Store(t)
    \/ ScanThrows(t)
    \/ EnterNative(t)
    \/ ReadWild(t)
    \/ \E k \in 0..NumProviders : RunNative(t, k)
    \/ Parse(t)
    \/ ReturnList(t)
    \/ LookUp(t)
    \/ LookUpLate(t)
    \/ ClassMissing(t)
    \/ MethodMissing(t)
    \/ FillList(t)
    \/ Delete(t)
    \/ DeleteAgain(t)
    \/ Clear(t)

Next ==
    /\ java = "runs"
    /\ \E t \in Threads :
          \/ Step(t)
          \/ Initialize(t)
          \/ GetProviders(t)
          \/ \E one \in BOOLEAN, n \in 0..NumFiles : RunList(t, one, n)
          \/ Destroy(t)

Spec == Init /\ [][Next]_vars

(* A thread that is in a method is scheduled again and again.               *)
FairSpec == Spec /\ \A t \in Threads : WF_vars(java = "runs" /\ Step(t))

-----------------------------------------------------------------------------
(* Properties.                                                              *)

(* Every variable keeps its type.                                           *)
TypeOK ==
    /\ ptr \in Nat \cup {Wild} /\ born \in Nat
    /\ deleted \subseteq Nat /\ replaced \subseteq Nat
    /\ together \in BOOLEAN
    /\ finished \in BOOLEAN
    /\ missing \subseteq Faults
    /\ call \in [Threads -> CallType]
    /\ answer \in [Threads -> AnswerType]
    /\ java \in {"runs", "undefined", "double free", "aborted"}

(* Under the documented use of destroy, and although initialize may be      *)
(* called by any thread at any time before and destroy again by any thread  *)
(* at any time: no native method works on a deleted C++ object, one is      *)
(* deleted twice only if two threads have been in destroy at once, which    *)
(* nothing in cleanup prevents, and biqt_ptr dangles only between the       *)
(* delete and the clearing of cleanup.                                      *)
Live == (1..born) \ deleted
InNative(t) == call[t].pc \in {"store", "native", "lookup"}
ObjectLives ==
    /\ java = "double free" => together
    /\ \A t \in Threads : InNative(t) => call[t].used \in Live
    /\ ptr \in Live \cup {0, Wild} \/ \E t \in Threads : call[t].pc = "clear"

(* cleanup "cleans up any allocated memory" but for two cases: while no     *)
(* method runs, exactly the object biqt_ptr points to, those whose pointer  *)
(* a further initialize has overwritten and those whose pointer was cut off *)
(* are still there.                                                         *)
OnlyReplacedLeak ==
    (\A t \in Threads : call[t].pc = "idle") =>
        Live = replaced \cup ({ptr} \ {0, Wild})

(* The list of results is in the order of the input files, with at most one *)
(* for each, and no file is passed over because of one before it: for       *)
(* runProvider there is one result for every file that is done.             *)
Done(t) == IF call[t].pc = "idle" THEN call[t].of ELSE call[t].file - 1
ListFollowsFiles ==
    \A t \in Threads :
        LET list == answer[t].list
        IN  /\ \A i, j \in DOMAIN list : i < j => list[i] < list[j]
            /\ call[t].one => Len(list) = Done(t)

(* Every method returns, whatever texts its native methods give it, unless  *)
(* the program has ended in it.                                             *)
MethodReturns ==
    \A t \in Threads : call[t].pc # "idle" ~> call[t].pc = "idle" \/ java # "runs"

(* "@return A list of JSONObjects containing the provider results"          *)
(* (BIQT.java): each file for which a provider of the modality succeeded    *)
(* has its results in the list.                                             *)
EveryResultReturned ==
    \A t \in Threads : call[t].pc = "idle" =>
        answer[t].some \subseteq {answer[t].list[i] : i \in DOMAIN answer[t].list}

(* Strengthening that makes ListFollowsFiles inductive: what a call c knows *)
(* about its answer a while it is in the loop over the files.               *)
InList == {"run", "native", "parse"}
Follows(c, a) ==
    /\ \A i, j \in DOMAIN a.list : i < j => a.list[i] < a.list[j]
    /\ c.pc \in InList => \A i \in DOMAIN a.list : a.list[i] < c.file
    /\ c.pc = "run" => c.file <= c.of + 1
    /\ c.pc \in {"native", "parse"} => c.file <= c.of
    /\ c.one => /\ c.pc \in InList \cup {"idle"}
                /\ c.pc = "parse" => c.objects = 1
                /\ Len(a.list) = IF c.pc = "idle" THEN c.of ELSE c.file - 1

ListInv == \A t \in Threads : Follows(call[t], answer[t])
=============================================================================
