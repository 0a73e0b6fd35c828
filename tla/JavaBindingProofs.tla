-------------------------- MODULE JavaBindingProofs --------------------------
(***************************************************************************)
(* The C++ objects behind a Java object are not used once deleted, and not  *)
(* deleted again but by overlapping destroys; none but those whose pointer  *)
(* was overwritten or cut is left behind; and the results of a list are in  *)
(* the order of its files: for any number of threads, files, providers and  *)
(* objects.                                                                 *)
(***************************************************************************)
EXTENDS JavaBinding, TLAPS

LEMMA IdleRight == Idle \in CallType /\ Idle.pc = "idle" /\ Idle.used = 0
BY DEF Idle, CallType, Lookups

LEMMA WildRight == Wild \notin Nat /\ Wild # 0
BY DEF Wild

LEMMA NamesRight == Len(Lookups) = 5 /\ DOMAIN Lookups = 1..5
BY DEF Lookups

(* TypeOK, with what it says of the pointer apart.                          *)
LEMMA TypeParts == TypeOK =>
    /\ ptr # Wild => ptr \in Nat
    /\ born \in Nat /\ deleted \subseteq Nat /\ replaced \subseteq Nat
    /\ together \in BOOLEAN /\ finished \in BOOLEAN
    /\ call \in [Threads -> CallType]
    /\ answer \in [Threads -> AnswerType]
BY Zenon DEF TypeOK

(* What a move of thread t does to the calls.                               *)
LEMMA BecomesRight ==
    ASSUME TypeOK, NEW t \in Threads, NEW c \in CallType, Becomes(t, c)
    PROVE  /\ call' \in [Threads -> CallType]
           /\ call'[t] = c
           /\ \A u \in Threads : u # t => call'[u] = call[u]
BY DEF TypeOK, Becomes

-----------------------------------------------------------------------------
(* Every step of the program is one of nine kinds, by what it does to the   *)
(* pointer, the objects and the place of its thread.                        *)

Plain == {"run", "providers", "native", "lookup", "parse"}
Working == Plain \cup {"create", "store"}
Object == <<ptr, born, deleted, replaced, together, finished>>

Begins(t) ==
    /\ call[t].pc = "idle" /\ ~finished
    /\ call'[t].pc \in {"run", "providers", "create"}
    /\ UNCHANGED Object

Constructs(t) ==
    /\ call[t].pc = "create"
    /\ call'[t].pc = "store" /\ call'[t].used = born + 1
    /\ born' = born + 1
    /\ UNCHANGED <<ptr, deleted, replaced, together, finished>>

Stores(t) ==
    /\ call[t].pc = "store"
    /\ call'[t].pc = "idle"
    /\ ptr' \in {call[t].used, Wild}
    /\ replaced' = replaced \cup ({ptr, call[t].used} \ {ptr', Wild})
    /\ UNCHANGED <<born, deleted, together, finished>>

Works(t) ==
    /\ call[t].pc \in Plain
    /\ call'[t].pc \in Plain \cup {"idle"}
    /\ call'[t].pc \in {"native", "lookup"} =>
          \/ call'[t].used = ptr /\ ptr # Wild
          \/ InNative(t) /\ call'[t].used = call[t].used
    /\ UNCHANGED Object

StartsDestroy(t) ==
    /\ call[t].pc = "idle"
    /\ \A u \in Threads : call[u].pc \in Leaving \cup {"idle"}
    /\ call'[t].pc = "destroy"
    /\ finished' = TRUE
    /\ together' = (together \/ \E u \in Threads : call[u].pc \in Leaving)
    /\ UNCHANGED <<ptr, born, deleted, replaced>>

Reads(t) ==
    /\ call[t].pc = "destroy"
    /\ ptr # Wild
    /\ call'[t].pc = "delete" /\ call'[t].used = ptr
    /\ UNCHANGED Object

Deletes(t) ==
    /\ call[t].pc = "delete"
    /\ call'[t].pc = "clear"
    /\ call[t].used \notin deleted
    /\ deleted' = deleted \cup ({call[t].used} \ {0})
    /\ UNCHANGED <<ptr, born, replaced, together, finished>>

Clears(t) ==
    /\ call[t].pc = "clear"
    /\ call'[t].pc = "idle"
    /\ ptr' = 0
    /\ UNCHANGED <<born, deleted, replaced, together, finished>>

Rests(t) == call' = call /\ UNCHANGED Object

Kinds(t) ==
    /\ call' \in [Threads -> CallType]
    /\ \A u \in Threads : u # t => call'[u] = call[u]
    /\ \/ Begins(t)
       \/ Constructs(t)
       \/ Stores(t)
       \/ Works(t)
       \/ StartsDestroy(t)
       \/ Reads(t)
       \/ Deletes(t)
       \/ Clears(t)
       \/ Rests(t)

LEMMA AnyStep == Next => \E t \in Threads :
                    \/ Step(t)
                    \/ Initialize(t)
                    \/ GetProviders(t)
                    \/ \E one \in BOOLEAN, n \in 0..NumFiles : RunList(t, one, n)
                    \/ Destroy(t)
BY DEF Next

LEMMA BeginsRight ==
    ASSUME TypeOK, NEW t \in Threads, NEW c \in CallType,
           c.pc \in {"run", "providers", "create"}, Begin(t, c)
    PROVE  Kinds(t)
BY BecomesRight DEF Begin, Kinds, Begins, Object, objects

LEMMA EntersRight ==
    ASSUME TypeOK, NEW t \in Threads, EnterNative(t)
    PROVE  Kinds(t)
<1>1. call[t] \in CallType /\ (ptr # Wild => ptr \in Nat)
      BY DEF TypeOK
<1>2. ASSUME NEW from, NEW to \in {"lookup", "delete", "native"},
             ReadPointer(t, from, to)
      PROVE  /\ call' \in [Threads -> CallType]
             /\ \A u \in Threads : u # t => call'[u] = call[u]
             /\ call[t].pc = from /\ call'[t].pc = to /\ call'[t].used = ptr
             /\ ptr # Wild
             /\ UNCHANGED Object
  <2> DEFINE c == [call[t] EXCEPT !.pc = to, !.used = ptr]
  <2>1. c \in CallType /\ c.pc = to /\ c.used = ptr
        BY <1>1, <1>2 DEF CallType, ReadPointer
  <2>2. Becomes(t, c) /\ call[t].pc = from /\ ptr # Wild /\ UNCHANGED Object
        BY <1>2 DEF ReadPointer, Object, objects
  <2> HIDE DEF c
  <2> QED BY <2>1, <2>2, BecomesRight
<1>3. CASE ReadPointer(t, "providers", "lookup")
      BY <1>2, <1>3 DEF Kinds, Works, Plain
<1>4. CASE ReadPointer(t, "destroy", "delete")
      BY <1>2, <1>4 DEF Kinds, Reads
<1>5. CASE ReadPointer(t, "run", "native")
      BY <1>2, <1>5 DEF Kinds, Works, Plain
<1> QED BY <1>3, <1>4, <1>5 DEF EnterNative

(* A thread at work moves to the call c, which is not a native one, or is   *)
(* the one it was in.                                                       *)
LEMMA WorksRight ==
    ASSUME TypeOK, NEW t \in Threads, NEW c \in CallType, Becomes(t, c),
           call[t].pc \in Plain, UNCHANGED Object,
           \/ c.pc \in {"run", "parse", "idle"}
           \/ c.pc = "lookup" /\ InNative(t) /\ c.used = call[t].used
    PROVE  Kinds(t)
BY BecomesRight DEF Kinds, Works, Plain

LEMMA StepKinds ==
    ASSUME SizesAssumption, TypeOK, NEW t \in Threads, Step(t)
    PROVE  Kinds(t)
<1>0. call \in [Threads -> CallType] /\ call[t] \in CallType
      BY DEF TypeOK
<1>1. CASE EnterNative(t)
      BY <1>1, EntersRight
<1>2. ASSUME NEW k \in 0..NumProviders, RunNative(t, k) PROVE Kinds(t)
  <2> DEFINE c == [call[t] EXCEPT !.pc = "parse", !.used = 0, !.objects = k]
  <2>1. k \in Nat
        BY SizesAssumption DEF SizesAssumption
  <2>2. c \in CallType /\ c.pc = "parse"
        BY <1>0, <2>1 DEF CallType
  <2>3. Becomes(t, c) /\ call[t].pc \in Plain /\ UNCHANGED Object
        BY <1>2 DEF RunNative, Plain, Object, objects
  <2> HIDE DEF c
  <2> QED BY <2>2, <2>3, WorksRight
<1>3. CASE Parse(t)
  <2> DEFINE c == [call[t] EXCEPT !.pc = "run", !.file = @ + 1]
  <2>0. call[t].file + 1 \in Nat \ {0}
        BY <1>0 DEF CallType
  <2>1. c \in CallType /\ c.pc = "run"
        BY <1>0, <2>0 DEF CallType
  <2>2. Becomes(t, c) /\ call[t].pc \in Plain /\ UNCHANGED Object
        BY <1>3 DEF Parse, Plain, Object, objects
  <2> HIDE DEF c
  <2> QED BY <2>1, <2>2, WorksRight
<1>4. CASE ReturnList(t)
  <2> DEFINE c == [call[t] EXCEPT !.pc = "idle"]
  <2>1. c \in CallType /\ c.pc = "idle"
        BY <1>0 DEF CallType
  <2>2. Becomes(t, c) /\ call[t].pc \in Plain /\ UNCHANGED Object
        BY <1>4 DEF ReturnList, Plain, Object, objects
  <2> HIDE DEF c
  <2> QED BY <2>1, <2>2, WorksRight
<1>5. CASE LookUp(t)
  <2> DEFINE c == [call[t] EXCEPT !.at = @ + 1]
  <2>1. call[t].pc = "lookup" /\ call[t].at \in 1..5
        BY <1>5, NamesRight DEF LookUp, AtLookup
  <2>a. call[t].at + 1 \in 1..(Len(Lookups) + 1)
        BY <2>1, NamesRight
  <2>2. c \in CallType /\ c.pc = "lookup" /\ c.used = call[t].used
        BY <1>0, <2>1, <2>a DEF CallType
  <2>3. Becomes(t, c) /\ UNCHANGED Object
        BY <1>5 DEF LookUp, Object, objects
  <2> HIDE DEF c
  <2> QED BY <2>1, <2>2, <2>3, WorksRight DEF Plain, InNative
<1>6. CASE LookUpLate(t) \/ ScanThrows(t) \/ ReadWild(t) \/ DeleteAgain(t)
      BY <1>0, <1>6 DEF LookUpLate, ScanThrows, ReadWild, DeleteAgain, Kinds,
         Rests, Object, objects
<1>7. CASE ClassMissing(t)
  <2> DEFINE c == [call[t] EXCEPT !.at = @ + 1, !.null = @ \cup {Lookup(t)}]
  <2>1. call[t].pc = "lookup" /\ call[t].at \in 1..5
        BY <1>7, NamesRight DEF ClassMissing, AtLookup
  <2>a. call[t].at + 1 \in 1..(Len(Lookups) + 1)
        BY <2>1, NamesRight
  <2>b. call[t].null \cup {Lookup(t)} \in SUBSET Classes
        BY <1>0, <1>7 DEF ClassMissing, CallType
  <2>2. c \in CallType /\ c.pc = "lookup" /\ c.used = call[t].used
        BY <1>0, <2>1, <2>a, <2>b DEF CallType
  <2>3. Becomes(t, c) /\ UNCHANGED Object
        BY <1>7 DEF ClassMissing, Object, objects
  <2> HIDE DEF c
  <2> QED BY <2>1, <2>2, <2>3, WorksRight DEF Plain, InNative
<1>8. CASE MethodMissing(t) \/ FillList(t)
  <2>1. Becomes(t, Idle) /\ call[t].pc \in Plain /\ UNCHANGED Object
        BY <1>8 DEF MethodMissing, FillList, AtLookup, Plain, Object, objects
  <2> QED BY <2>1, IdleRight, WorksRight
<1>9. CASE Delete(t)
  <2> DEFINE c == [call[t] EXCEPT !.pc = "clear"]
  <2>1. c \in CallType /\ c.pc = "clear"
        BY <1>0 DEF CallType
  <2>2. Becomes(t, c)
        BY <1>9 DEF Delete
  <2> HIDE DEF c
  <2> QED BY <1>9, <2>1, <2>2, BecomesRight DEF Delete, Kinds, Deletes
<1>10. CASE Clear(t)
       BY <1>10, IdleRight, BecomesRight DEF Clear, Kinds, Clears
<1>11. CASE Construct(t)
  <2> DEFINE c == [call[t] EXCEPT !.pc = "store", !.used = born + 1]
  <2>0. born + 1 \in Nat
        BY TypeParts
  <2>1. c \in CallType /\ c.pc = "store" /\ c.used = born + 1
        BY <1>0, <2>0 DEF CallType
  <2>2. Becomes(t, c)
        BY <1>11 DEF Construct
  <2> HIDE DEF c
  <2> QED BY <1>11, <2>1, <2>2, BecomesRight DEF Construct, Kinds, Constructs
<1>12. CASE Store(t)
       BY <1>12, IdleRight, BecomesRight DEF Store, Kinds, Stores, Kept
<1> QED BY <1>1, <1>2, <1>3, <1>4, <1>5, <1>6, <1>7, <1>8, <1>9, <1>10, <1>11,
           <1>12 DEF Step

LEMMA NextKinds ==
    ASSUME SizesAssumption, TypeOK, Next
    PROVE  \E t \in Threads : Kinds(t)
<1>1. PICK t \in Threads :
          \/ Step(t)
          \/ Initialize(t)
          \/ GetProviders(t)
          \/ \E one \in BOOLEAN, n \in 0..NumFiles : RunList(t, one, n)
          \/ Destroy(t)
      BY AnyStep
<1>2. CASE Step(t)
      BY <1>2, StepKinds
<1>3. CASE GetProviders(t)
  <2> DEFINE c == [Idle EXCEPT !.pc = "providers"]
  <2>1. c \in CallType /\ c.pc = "providers"
        BY IdleRight DEF CallType
  <2>2. Begin(t, c)
        BY <1>3 DEF GetProviders
  <2> HIDE DEF c
  <2> QED BY <2>1, <2>2, BeginsRight
<1>4. ASSUME NEW one \in BOOLEAN, NEW n \in 0..NumFiles, RunList(t, one, n)
      PROVE  Kinds(t)
  <2> DEFINE c == [Idle EXCEPT !.pc = "run", !.one = one, !.of = n]
  <2>1. n \in Nat
        BY SizesAssumption DEF SizesAssumption
  <2>2. c \in CallType /\ c.pc = "run"
        BY IdleRight, <2>1 DEF CallType
  <2>3. Begin(t, c)
        BY <1>4 DEF RunList
  <2> HIDE DEF c
  <2> QED BY <2>2, <2>3, BeginsRight
<1>5. CASE Destroy(t)
  <2> DEFINE c == [Idle EXCEPT !.pc = "destroy"]
  <2>1. c \in CallType /\ c.pc = "destroy"
        BY IdleRight DEF CallType
  <2>2. Becomes(t, c)
        BY <1>5 DEF Destroy
  <2> HIDE DEF c
  <2> QED BY <1>5, <2>1, <2>2, BecomesRight DEF Destroy, Kinds, StartsDestroy,
              objects
<1>6. CASE Initialize(t)
  <2> DEFINE c == [Idle EXCEPT !.pc = "create"]
  <2>1. c \in CallType /\ c.pc = "create"
        BY IdleRight DEF CallType
  <2>2. Begin(t, c)
        BY <1>6 DEF Initialize
  <2> HIDE DEF c
  <2> QED BY <2>1, <2>2, BeginsRight
<1> QED BY <1>1, <1>2, <1>3, <1>4, <1>5, <1>6

-----------------------------------------------------------------------------
(* Type correctness.                                                        *)

LEMMA InitType == SizesAssumption /\ Init => TypeOK
<1>1. NoAnswer \in AnswerType
      BY DEF NoAnswer, AnswerType
<1>2. SizesAssumption /\ Init => /\ call \in [Threads -> CallType]
                               /\ answer \in [Threads -> AnswerType]
      BY <1>1, IdleRight DEF Init
<1>3. SizesAssumption /\ Init => together \in BOOLEAN /\ finished \in BOOLEAN
      BY DEF Init
<1>4. Init => ptr \in Nat \cup {Wild} /\ replaced \subseteq Nat
      BY DEF Init, Kept
<1> QED BY <1>2, <1>3, <1>4 DEF Init, TypeOK

LEMMA AnsweredRight ==
    ASSUME NEW a \in AnswerType, NEW c \in CallType
    PROVE  Answered(a, c) \in AnswerType
<1>1. c.file \in Nat \ {0}
      BY DEF CallType
<1>2. a.list \in Seq(Nat \ {0}) /\ a.some \in SUBSET (Nat \ {0})
      BY DEF AnswerType
<1>3. Append(a.list, c.file) \in Seq(Nat \ {0})
      BY <1>1, <1>2
<1> QED BY <1>1, <1>2, <1>3 DEF Answered, AnswerType

JavaStates == {"runs", "undefined", "double free", "aborted"}

(* The rest of the state; what frees memory twice.                          *)
LEMMA RestKeepsType ==
    ASSUME TypeOK, NEW t \in Threads,
           \/ Step(t)
           \/ Initialize(t)
           \/ GetProviders(t)
           \/ \E one \in BOOLEAN, n \in 0..NumFiles : RunList(t, one, n)
           \/ Destroy(t)
    PROVE  /\ answer' \in [Threads -> AnswerType]
           /\ missing' = missing /\ java' \in JavaStates
           /\ java' = "double free" =>
                \/ java = "double free"
                \/ call[t].pc = "delete" /\ call[t].used \in deleted
<1>1. answer \in [Threads -> AnswerType] /\ call[t] \in CallType
         /\ java \in JavaStates
      BY DEF TypeOK, JavaStates
<1>2. NoAnswer \in AnswerType
      BY DEF NoAnswer, AnswerType
<1>3. CASE Parse(t)
  <2>1. Answered(answer[t], call[t]) \in AnswerType
        BY <1>1, AnsweredRight
  <2> QED BY <1>1, <1>3, <2>1 DEF Parse
<1>4. ASSUME NEW c, Begin(t, c)
      PROVE  /\ answer' \in [Threads -> AnswerType]
             /\ missing' = missing /\ java' = java
      BY <1>1, <1>2, <1>4 DEF Begin
<1>5. CASE EnterNative(t)
      BY <1>1, <1>5 DEF EnterNative, ReadPointer
<1>6. CASE LookUpLate(t) \/ ScanThrows(t) \/ ReadWild(t) \/ DeleteAgain(t)
      BY <1>1, <1>6 DEF LookUpLate, ScanThrows, ReadWild, DeleteAgain, JavaStates
<1>7. CASE \/ \E k \in 0..NumProviders : RunNative(t, k)
           \/ ReturnList(t) \/ LookUp(t) \/ ClassMissing(t)
           \/ MethodMissing(t) \/ FillList(t) \/ Delete(t) \/ Clear(t)
           \/ Construct(t) \/ Store(t) \/ Destroy(t)
      BY <1>1, <1>7 DEF RunNative, ReturnList, LookUp, ClassMissing,
             MethodMissing, FillList, Delete, Clear, Construct, Store, Destroy
<1>8. CASE GetProviders(t) \/ Initialize(t)
      BY <1>1, <1>4, <1>8 DEF GetProviders, Initialize
<1>9. CASE \E one \in BOOLEAN, n \in 0..NumFiles : RunList(t, one, n)
      BY <1>1, <1>4, <1>9 DEF RunList
<1> QED BY <1>3, <1>5, <1>6, <1>7, <1>8, <1>9 DEF Step

LEMMA NextType == SizesAssumption /\ TypeOK /\ [Next]_vars => TypeOK'
<1> SUFFICES ASSUME SizesAssumption, TypeOK, [Next]_vars PROVE TypeOK'
    OBVIOUS
<1>1. CASE UNCHANGED vars
      BY <1>1 DEF TypeOK, vars
<1>2. CASE Next
  <2>1. PICK t \in Threads : Kinds(t)
        BY <1>2, NextKinds
  <2>2. /\ answer' \in [Threads -> AnswerType]
        /\ missing' = missing /\ java' \in JavaStates
        BY <1>2, AnyStep, RestKeepsType
  <2>3. /\ ptr' \in Nat \cup {Wild} /\ born' \in Nat
        /\ deleted' \subseteq Nat /\ replaced' \subseteq Nat
        /\ together' \in BOOLEAN /\ finished' \in BOOLEAN
    <3>1. /\ ptr # Wild => ptr \in Nat
          /\ born \in Nat /\ born + 1 \in Nat
          /\ deleted \subseteq Nat /\ replaced \subseteq Nat
          /\ together \in BOOLEAN /\ finished \in BOOLEAN
          /\ call[t].used \in Nat
          BY TypeParts DEF CallType
    <3>2. /\ ptr' \in {ptr, 0, call[t].used, Wild}
          /\ born' \in {born, born + 1}
          /\ deleted' \subseteq deleted \cup {call[t].used}
          /\ replaced' \subseteq replaced \cup ({ptr, call[t].used} \ {Wild})
          /\ finished' = finished \/ finished' = TRUE
      <4>1. CASE Deletes(t) \/ Stores(t)
            BY <4>1 DEF Deletes, Stores
      <4>2. CASE ~Deletes(t) /\ ~Stores(t)
            BY <2>1, <4>2 DEF Kinds, Begins, Constructs, Works, StartsDestroy,
               Reads, Clears, Rests, Object
      <4> QED BY <4>1, <4>2
    <3>3. together' \in BOOLEAN
      <4>1. CASE StartsDestroy(t)
            BY <4>1 DEF StartsDestroy
      <4>2. CASE together' = together
            BY <3>1, <4>2
      <4> QED BY <2>1, <4>1, <4>2 DEF Kinds, Begins, Constructs, Stores, Works,
                 Reads, Deletes, Clears, Rests, Object
    <3>4. ptr' \in Nat \cup {Wild}
      <4>1. 0 \in Nat
            OBVIOUS
      <4>2. ptr' = ptr \/ ptr' = 0 \/ ptr' = call[t].used \/ ptr' = Wild
            BY <3>2, Zenon
      <4> QED BY <3>1, <4>1, <4>2, Zenon
    <3>5. born' \in Nat
          BY <3>1, <3>2
    <3>6. deleted' \subseteq Nat /\ replaced' \subseteq Nat
      <4>1. {ptr, call[t].used} \ {Wild} \subseteq Nat
            BY <3>1, Zenon
      <4> QED BY <3>1, <3>2, <4>1, Zenon
    <3>7. finished' \in BOOLEAN
          BY <3>1, <3>2
    <3> QED BY <3>3, <3>4, <3>5, <3>6, <3>7, Zenon
  <2>4. call' \in [Threads -> CallType] /\ missing \subseteq Faults
        BY <2>1 DEF Kinds, TypeOK
  <2> QED BY <2>2, <2>3, <2>4 DEF TypeOK, JavaStates
<1> QED BY <1>1, <1>2

(* The state of the binding has its type.                                   *)
THEOREM TypeCorrect == Spec => []TypeOK
<1>1. Init => TypeOK
      BY SizesAssumption, InitType
<1>2. TypeOK /\ [Next]_vars => TypeOK'
      BY SizesAssumption, NextType
<1> QED BY <1>1, <1>2, PTL DEF Spec

-----------------------------------------------------------------------------
(* The objects behind the pointer.                                          *)

(* destroy is called when no other method runs, and none starts after it.   *)
(* Unless two threads have been in destroy at once, one in it is alone, and *)
(* deletes what biqt_ptr points to.  The pointer is dangling only while a   *)
(* thread is between delete and the clearing.                               *)
Finishing == \A t \in Threads :
    /\ call[t].pc \in Leaving => finished
    /\ call[t].pc \in Working => ~finished
Alone == ~together =>
    \A t, u \in Threads : {call[t].pc, call[u].pc} \subseteq Leaving => t = u
Unfinished == ~finished => ptr \in Live \cup {Wild}
WorkingOnLive == \A t \in Threads : InNative(t) => call[t].used \in Live
Dangling ==
    /\ ptr \in (0..born) \cup {Wild}
    /\ ptr \in Live \cup {0, Wild} \/ \E t \in Threads : call[t].pc = "clear"
HoldsPointer == \A t \in Threads : call[t].pc = "delete" =>
    /\ call[t].used \in 0..born /\ ptr \in {call[t].used, 0}
    /\ ~together => ptr = call[t].used

LifeInv ==
    /\ deleted \subseteq 1..born
    /\ Finishing
    /\ Alone
    /\ Unfinished
    /\ WorkingOnLive
    /\ Dangling
    /\ HoldsPointer

LEMMA InitLife == Init => LifeInv
<1> SUFFICES ASSUME Init PROVE LifeInv
    OBVIOUS
<1>1. /\ deleted = {} /\ born = 1 /\ ptr \in {1, Wild} /\ Live = {1}
      /\ \A t \in Threads : call[t].pc = "idle"
      BY IdleRight DEF Init, Kept, Live
<1>2. 0..born = {0, 1}
      BY <1>1
<1> QED BY <1>1, <1>2 DEF LifeInv, Finishing, Alone, Unfinished, WorkingOnLive,
           Dangling, HoldsPointer, Working, Plain, Leaving, InNative

(* A step that leaves the objects alone.                                    *)
LEMMA SameLive == ASSUME UNCHANGED <<born, deleted>> PROVE Live' = Live
BY DEF Live

(* A step of a thread that is in no destroy, and does not start one.        *)
LEMMA LifeBefore ==
    ASSUME TypeOK, LifeInv, NEW t \in Threads,
           \A u \in Threads : u # t => call'[u] = call[u],
           ~finished, UNCHANGED <<deleted, together, finished>>,
           Live \subseteq Live', ptr' \in Live' \cup {Wild},
           deleted' \subseteq 1..born',
           call'[t].pc \notin Leaving,
           call'[t].pc \in {"store", "native", "lookup"} => call'[t].used \in Live'
    PROVE  LifeInv'
<1>1. \A u \in Threads : call'[u].pc \notin Leaving
      BY DEF LifeInv, Finishing
<1>2. Finishing' /\ Alone' /\ Unfinished' /\ Dangling'
      BY <1>1 DEF Finishing, Alone, Unfinished, Dangling, Live
<1>3. WorkingOnLive'
      BY DEF LifeInv, WorkingOnLive, InNative
<1>4. HoldsPointer'
      BY <1>1 DEF HoldsPointer, Leaving
<1> QED BY <1>2, <1>3, <1>4 DEF LifeInv

LEMMA LifeStep ==
    ASSUME TypeOK, LifeInv, NEW t \in Threads, Kinds(t)
    PROVE  LifeInv'
<1> USE DEF LifeInv, Kinds
<1>0. /\ ptr \in Nat \cup {Wild} /\ born \in Nat
      /\ \A u \in Threads : call[u].used \in Nat
      /\ \A u \in Threads : u # t => call'[u] = call[u]
      BY DEF TypeOK, CallType
<1>a. call[t].pc \in Working => ~finished /\ ptr \in Live \cup {Wild}
      BY DEF Finishing, Unfinished
<1>b. ASSUME finished PROVE \A u \in Threads : call[u].pc \notin Working
      BY <1>b DEF Finishing
<1>1. CASE Rests(t)
  <2>1. UNCHANGED Object /\ call' = call /\ Live' = Live
        BY <1>1, SameLive DEF Rests, Object
  <2> QED BY <2>1 DEF Object, Finishing, Alone, Unfinished, WorkingOnLive,
             Dangling, HoldsPointer, InNative
<1>2. CASE Begins(t)
  <2>1. /\ UNCHANGED <<ptr, born, deleted, together, finished>> /\ Live' = Live
        /\ ~finished
        /\ call'[t].pc \notin Leaving \cup {"store", "native", "lookup"}
        BY <1>2, SameLive DEF Begins, Object, Leaving
  <2> QED BY <1>0, <2>1, LifeBefore DEF Unfinished
<1>3. CASE Works(t)
  <2>1. /\ UNCHANGED <<ptr, born, deleted, together, finished>> /\ Live' = Live
        /\ call[t].pc \in Working
        BY <1>3, SameLive DEF Works, Object, Working
  <2>2. /\ call'[t].pc \notin Leaving /\ call'[t].pc # "store"
        /\ call'[t].pc \in {"native", "lookup"} => call'[t].used \in Live
        BY <1>3, <1>a, <2>1 DEF Works, Leaving, Plain, WorkingOnLive
  <2> QED BY <1>0, <1>a, <2>1, <2>2, LifeBefore
<1>4. CASE StartsDestroy(t)
  <2>1. /\ UNCHANGED <<ptr, born, deleted>> /\ finished' = TRUE
        /\ Live' = Live
        /\ call[t].pc = "idle" /\ call'[t].pc = "destroy"
        /\ \A u \in Threads : call[u].pc \in Leaving \cup {"idle"}
        /\ ~together' => ~together
                         /\ \A u \in Threads : call[u].pc \notin Leaving
        BY <1>4, SameLive DEF StartsDestroy
  <2>2. \A u \in Threads : call'[u].pc \in Leaving \cup {"idle"}
        BY <1>0, <2>1 DEF Leaving
  <2>3. Finishing' /\ WorkingOnLive' /\ Unfinished'
        BY <2>1, <2>2 DEF Finishing, WorkingOnLive, Unfinished, Working, Plain,
           Leaving, InNative
  <2>4. Alone'
        BY <1>0, <2>1 DEF Alone
  <2>5. Dangling'
        BY <1>0, <2>1 DEF Dangling
  <2>6. HoldsPointer'
        BY <1>0, <2>1 DEF HoldsPointer
  <2> QED BY <1>0, <2>1, <2>3, <2>4, <2>5, <2>6
<1>5. CASE Reads(t)
  <2>1. /\ UNCHANGED <<ptr, born, deleted, together, finished>> /\ Live' = Live
        /\ call'[t].pc = "delete" /\ call'[t].used = ptr
        /\ call[t].pc = "destroy" /\ finished
        BY <1>5, SameLive DEF Reads, Object, Finishing, Leaving
  <2>2. \A u \in Threads : call'[u].pc \in Leaving <=> call[u].pc \in Leaving
        BY <1>0, <2>1 DEF Leaving
  <2>3. \A u \in Threads : call'[u].pc \notin Working
        BY <1>0, <1>b, <2>1 DEF Working, Plain
  <2>4. Finishing' /\ WorkingOnLive' /\ Unfinished'
        BY <2>1, <2>3 DEF Finishing, WorkingOnLive, Unfinished, Working, Plain,
           InNative
  <2>5. Alone'
        BY <2>1, <2>2 DEF Alone
  <2>5a. ptr \in 0..born
        BY <1>5, WildRight DEF Reads, Dangling
  <2>5b. Dangling'
        BY <1>0, <2>1 DEF Dangling
  <2>6. HoldsPointer'
        BY <1>0, <2>1, <2>5a DEF HoldsPointer
  <2> QED BY <2>1, <2>4, <2>5, <2>5b, <2>6
<1>6. CASE Deletes(t)
  <2>1. /\ UNCHANGED <<ptr, born, together, finished>>
        /\ call'[t].pc = "clear" /\ call[t].pc = "delete" /\ finished
        /\ call[t].used \notin deleted
        /\ deleted' = deleted \cup ({call[t].used} \ {0})
        BY <1>6 DEF Deletes, Finishing, Leaving
  <2>2. \A u \in Threads : call'[u].pc \in Leaving <=> call[u].pc \in Leaving
        BY <1>0, <2>1 DEF Leaving
  <2>3. \A u \in Threads : call'[u].pc \notin Working
        BY <1>0, <1>b, <2>1 DEF Working, Plain
  <2>4. Finishing' /\ WorkingOnLive' /\ Unfinished'
        BY <2>1, <2>3 DEF Finishing, WorkingOnLive, Unfinished, Working, Plain,
           InNative
  <2>5. Alone'
        BY <2>1, <2>2 DEF Alone
  <2>6. Dangling' /\ HoldsPointer'
        BY <1>0, <2>1 DEF Dangling, HoldsPointer
  <2>7. deleted' \subseteq 1..born'
    <3>1. call[t].used \in 0..born
          BY <2>1 DEF HoldsPointer
    <3>2. {call[t].used} \ {0} \subseteq 1..born
          BY <1>0, <3>1
    <3> QED BY <2>1, <3>2
  <2> QED BY <2>4, <2>5, <2>6, <2>7
<1>7. CASE Clears(t)
  <2>1. /\ UNCHANGED <<born, deleted, together, finished>> /\ ptr' = 0
        /\ call[t].pc = "clear" /\ call'[t].pc = "idle" /\ finished
        /\ Live' = Live
        BY <1>7, SameLive DEF Clears, Finishing, Leaving
  <2>2. \A u \in Threads : call'[u].pc \in Leaving => call[u].pc \in Leaving /\ u # t
        BY <1>0, <2>1 DEF Leaving
  <2>3. \A u \in Threads : call'[u].pc \notin Working
        BY <1>0, <1>b, <2>1 DEF Working, Plain
  <2>4. Finishing' /\ WorkingOnLive' /\ Unfinished'
        BY <2>1, <2>3 DEF Finishing, WorkingOnLive, Unfinished, Working, Plain,
           InNative
  <2>4a. 0 \in 0..born
        BY <1>0
  <2>4b. Dangling'
        BY <2>1, <2>4a, Zenon DEF Dangling
  <2>5. Alone'
        BY <2>1, <2>2 DEF Alone
  <2>6. HoldsPointer'
    <3>1. ASSUME NEW u \in Threads, call'[u].pc = "delete", ~together
          PROVE  FALSE
          BY <1>0, <2>1, <3>1 DEF Alone, Leaving
    <3> QED BY <2>1, <3>1 DEF HoldsPointer
  <2> QED BY <2>1, <2>4, <2>4b, <2>5, <2>6
<1>8. CASE Constructs(t)
  <2>1. /\ UNCHANGED <<ptr, deleted, together, finished>>
        /\ call[t].pc \in Working /\ born' = born + 1
        /\ call'[t].pc = "store" /\ call'[t].used = born + 1
        BY <1>8 DEF Constructs, Working
  <2>2. Live \subseteq Live' /\ born + 1 \in Live' /\ deleted' \subseteq 1..born'
        BY <1>0, <2>1 DEF Live
  <2>3. call'[t].pc \notin Leaving
        BY <2>1 DEF Leaving
  <2> QED BY <1>0, <1>a, <2>1, <2>2, <2>3, LifeBefore
<1>9. CASE Stores(t)
  <2>1. /\ UNCHANGED <<born, deleted, together, finished>> /\ Live' = Live
        /\ call[t].pc \in Working /\ ptr' \in Live \cup {Wild}
        /\ call'[t].pc = "idle"
        BY <1>9, SameLive DEF Stores, WorkingOnLive, Working, InNative
  <2>2. call'[t].pc \notin Leaving
        BY <2>1 DEF Leaving
  <2> QED BY <1>0, <1>a, <2>1, <2>2, LifeBefore
<1> QED BY <1>1, <1>2, <1>3, <1>4, <1>5, <1>6, <1>7, <1>8, <1>9

LEMMA NextLife == SizesAssumption /\ TypeOK /\ LifeInv /\ [Next]_vars => LifeInv'
<1> SUFFICES ASSUME SizesAssumption, TypeOK, LifeInv, [Next]_vars PROVE LifeInv'
    OBVIOUS
<1>1. CASE UNCHANGED vars
      BY <1>1 DEF vars, LifeInv, Finishing, Alone, Unfinished, WorkingOnLive,
             Dangling, HoldsPointer, InNative, Live
<1>2. CASE Next
      BY <1>2, NextKinds, LifeStep
<1> QED BY <1>1, <1>2

(* A double free takes two threads that were in destroy at once: alone in   *)
(* it, a thread deletes what biqt_ptr points to, which is there, or nothing. *)
InTurn == java = "double free" => together

LEMMA NotAlone ==
    ASSUME TypeOK, LifeInv, NEW t \in Threads,
           call[t].pc = "delete", call[t].used \in deleted
    PROVE  together
<1> SUFFICES ASSUME ~together PROVE FALSE
    BY DEF TypeOK
<1>1. ptr = call[t].used /\ ptr \in Nat
      BY DEF LifeInv, HoldsPointer, TypeOK, CallType
<1>2. \A u \in Threads : call[u].pc # "clear"
      BY DEF LifeInv, Alone, Leaving
<1>3. ptr \in Live \cup {0}
      BY <1>1, <1>2, WildRight DEF LifeInv, Dangling
<1>4. 0 \notin deleted
      BY TypeParts DEF LifeInv
<1> QED BY <1>1, <1>3, <1>4 DEF Live

LEMMA NextInTurn ==
    SizesAssumption /\ TypeOK /\ LifeInv /\ InTurn /\ [Next]_vars => InTurn'
<1> SUFFICES ASSUME SizesAssumption, TypeOK, LifeInv, InTurn, [Next]_vars
             PROVE  InTurn'
    OBVIOUS
<1>1. CASE UNCHANGED vars
      BY <1>1 DEF vars, InTurn
<1>2. CASE Next
  <2>1. PICK t \in Threads : java' = "double free" =>
            \/ java = "double free"
            \/ call[t].pc = "delete" /\ call[t].used \in deleted
        BY <1>2, AnyStep, RestKeepsType
  <2>2. together => together'
    <3>1. PICK u \in Threads : Kinds(u)
          BY <1>2, NextKinds
    <3> QED BY <3>1 DEF Kinds, Begins, Constructs, Stores, Works, StartsDestroy,
               Reads, Deletes, Clears, Rests, Object
  <2> QED BY <2>1, <2>2, NotAlone DEF InTurn
<1> QED BY <1>1, <1>2

LEMMA LifeImplies == LifeInv /\ InTurn => ObjectLives
BY DEF LifeInv, InTurn, WorkingOnLive, Dangling, ObjectLives

LEMMA LifeHolds == Spec => [](TypeOK /\ LifeInv)
<1>1. Init => LifeInv
      BY InitLife
<1>2. TypeOK /\ LifeInv /\ [Next]_vars => LifeInv'
      BY SizesAssumption, NextLife
<1> QED BY <1>1, <1>2, TypeCorrect, PTL DEF Spec

(* Under the documented use of destroy no native method works on a deleted  *)
(* object, an object is deleted twice only when two destroys overlap, and   *)
(* biqt_ptr dangles only within cleanup.                                    *)
THEOREM DeletedInTurn == Spec => []ObjectLives
<1>1. Init => InTurn
      BY DEF Init, InTurn
<1>2. TypeOK /\ LifeInv /\ InTurn /\ [Next]_vars => InTurn'
      BY SizesAssumption, NextInTurn
<1> QED BY <1>1, <1>2, LifeHolds, LifeImplies, PTL DEF Spec

-----------------------------------------------------------------------------
(* The objects that are left behind.                                        *)

(* A live object has been replaced or cut off, is the one the pointer       *)
(* points to, or is about to be stored; it is but one of the three.  What   *)
(* is about to be deleted is not a replaced one, and once it is deleted the *)
(* pointer, if not cleared by another thread, points to it.                 *)
Storing(t) == call[t].pc = "store"
Accounted == \A o \in Live :
    \/ o \in replaced
    \/ o = ptr
    \/ \E t \in Threads : Storing(t) /\ call[t].used = o
Apart ==
    /\ replaced \subseteq Live
    /\ ptr \notin replaced
    /\ \A t \in Threads : Storing(t) =>
          /\ call[t].used \notin replaced \cup {ptr}
          /\ \A u \in Threads : Storing(u) /\ u # t => call[u].used # call[t].used
    /\ \A t \in Threads : call[t].pc = "delete" => call[t].used \notin replaced
Clearing == \A t \in Threads : call[t].pc = "clear" => ptr \in deleted \cup {0}
LeakInv == Accounted /\ Apart /\ Clearing

LEMMA NoObject == TypeOK => 0 \notin Live /\ Wild \notin Live
BY WildRight, TypeParts DEF Live

LEMMA InitLeak == Init => LeakInv
<1> SUFFICES ASSUME Init PROVE LeakInv
    OBVIOUS
<1>1. \A t \in Threads : call[t].pc = "idle"
      BY IdleRight DEF Init
<1>2. ptr \in {1, Wild} /\ replaced = {1} \ {ptr} /\ Live = {1}
      BY DEF Init, Kept, Live
<1> QED BY <1>1, <1>2 DEF LeakInv, Accounted, Apart, Clearing, Storing

(* A step that leaves the objects alone, and none of whose threads starts   *)
(* or ends a store or a clearing.                                           *)
LEMMA LeakSame ==
    ASSUME LeakInv, UNCHANGED <<ptr, born, deleted, replaced>>,
           NEW t \in Threads, \A u \in Threads : u # t => call'[u] = call[u],
           \/ call'[t] = call[t]
           \/ /\ {call[t].pc, call'[t].pc} \cap {"store", "clear"} = {}
              /\ call'[t].pc = "delete" => call'[t].used = ptr
    PROVE  LeakInv'
<1>1. Live' = Live
      BY SameLive
<1>2. \A u \in Threads : /\ Storing(u)' <=> Storing(u)
                         /\ Storing(u) => call'[u].used = call[u].used
                         /\ call'[u].pc = "clear" <=> call[u].pc = "clear"
      BY DEF Storing
<1>3. Accounted' /\ Clearing'
      BY <1>1, <1>2 DEF LeakInv, Accounted, Clearing
<1>4. Apart'
      BY <1>1, <1>2 DEF LeakInv, Apart
<1> QED BY <1>3, <1>4 DEF LeakInv

LEMMA LeakStep ==
    ASSUME TypeOK, LifeInv, LeakInv, NEW t \in Threads, Kinds(t)
    PROVE  LeakInv'
<1>0. /\ ptr \in Nat \cup {Wild} /\ born \in Nat
      /\ \A u \in Threads : u # t => call'[u] = call[u]
      /\ \A u \in Threads : call[u].used \in Nat
      /\ 0 \notin Live /\ Wild \notin Live /\ Wild \notin Nat
      BY NoObject, WildRight DEF TypeOK, CallType, Kinds
<1>a. ASSUME ~finished PROVE \A u \in Threads : call[u].pc \notin Leaving
      BY <1>a DEF LifeInv, Finishing
<1>b. ASSUME finished PROVE \A u \in Threads : ~Storing(u)
      BY <1>b DEF LifeInv, Finishing, Working, Storing
<1>1. CASE Begins(t) \/ Works(t) \/ StartsDestroy(t) \/ Reads(t) \/ Rests(t)
  <2>1. UNCHANGED <<ptr, born, deleted, replaced>>
        BY <1>1 DEF Begins, Works, StartsDestroy, Reads, Rests, Object
  <2>2. \/ call'[t] = call[t]
        \/ /\ {call[t].pc, call'[t].pc} \cap {"store", "clear"} = {}
           /\ call'[t].pc = "delete" => call'[t].used = ptr
        BY <1>1 DEF Begins, Works, StartsDestroy, Reads, Rests, Plain
  <2> QED BY <1>0, <2>1, <2>2, LeakSame
<1>2. CASE Constructs(t)
  <2>1. /\ call[t].pc = "create" /\ call'[t].pc = "store"
        /\ call'[t].used = born + 1 /\ born' = born + 1
        /\ UNCHANGED <<ptr, deleted, replaced>>
        BY <1>2 DEF Constructs
  <2>2. Live' = Live \cup {born + 1} /\ born + 1 \notin Live
        BY <1>0, <2>1 DEF Live, LifeInv
  <2>3. \A u \in Threads : /\ Storing(u)' <=> Storing(u) \/ u = t
                           /\ u # t => call'[u].used = call[u].used
        BY <1>0, <2>1 DEF Storing
  <2>4. Accounted'
        BY <2>1, <2>2, <2>3 DEF LeakInv, Accounted, Storing
  <2>5. ~finished /\ ptr \in Live \cup {Wild}
        BY <2>1 DEF LifeInv, Finishing, Unfinished, Working
  <2>6. \A u \in Threads : call'[u].pc \notin {"delete", "clear"}
        BY <1>0, <1>a, <2>1, <2>5 DEF Leaving
  <2>7. born + 1 \notin replaced \cup {ptr}
        BY <1>0, <2>2, <2>5 DEF LeakInv, Apart
  <2>8. \A u \in Threads : Storing(u) => call[u].used # born + 1
        BY <2>2 DEF LifeInv, WorkingOnLive, InNative, Storing
  <2>9. Apart' /\ Clearing'
        BY <2>1, <2>2, <2>3, <2>6, <2>7, <2>8 DEF LeakInv, Apart, Clearing, Storing
  <2> QED BY <2>4, <2>9 DEF LeakInv
<1>3. CASE Stores(t)
  <2>1. /\ call[t].pc = "store" /\ call'[t].pc = "idle"
        /\ ptr' \in {call[t].used, Wild}
        /\ replaced' = replaced \cup ({ptr, call[t].used} \ {ptr', Wild})
        /\ UNCHANGED <<born, deleted>>
        BY <1>3 DEF Stores
  <2>2. Live' = Live
        BY <2>1, SameLive
  <2>3. \A u \in Threads : /\ Storing(u)' <=> Storing(u) /\ u # t
                           /\ u # t => call'[u].used = call[u].used
        BY <1>0, <2>1 DEF Storing
  <2>4. ~finished /\ ptr \in Live \cup {Wild} /\ call[t].used \in Live
        BY <2>1 DEF LifeInv, Finishing, WorkingOnLive, Unfinished, Working, InNative
  <2>5. \A u \in Threads : call'[u].pc \notin {"delete", "clear"}
        BY <1>0, <1>a, <2>1, <2>4 DEF Leaving
  <2>6. Storing(t)
        BY <2>1 DEF Storing
  <2>7. Accounted'
        BY <1>0, <2>1, <2>2, <2>3, <2>6 DEF LeakInv, Accounted
  <2>8. replaced' \subseteq Live /\ ptr' \notin replaced'
        BY <1>0, <2>1, <2>4, <2>6 DEF LeakInv, Apart
  <2>9. \A u \in Threads : Storing(u) /\ u # t =>
            call[u].used \notin replaced' \cup {ptr'}
        BY <1>0, <2>1, <2>6 DEF LeakInv, Apart
  <2>10. Apart' /\ Clearing'
        BY <2>2, <2>3, <2>5, <2>8, <2>9 DEF LeakInv, Apart, Clearing
  <2> QED BY <2>7, <2>10 DEF LeakInv
<1>4. CASE Deletes(t)
  <2>1. /\ call[t].pc = "delete" /\ call'[t].pc = "clear" /\ finished
        /\ deleted' = deleted \cup ({call[t].used} \ {0})
        /\ UNCHANGED <<ptr, born, replaced>>
        BY <1>4 DEF Deletes, LifeInv, Finishing, Leaving
  <2>2. \A u \in Threads : ~Storing(u) /\ ~Storing(u)'
        BY <1>0, <1>b, <2>1 DEF Storing
  <2>3. Live' = Live \ {call[t].used}
        BY <1>0, <2>1 DEF Live
  <2>4. Accounted'
        BY <2>1, <2>2, <2>3 DEF LeakInv, Accounted
  <2>5. Apart'
        BY <1>0, <2>1, <2>2, <2>3 DEF LeakInv, Apart
  <2>6. ptr \in deleted' \cup {0}
        BY <2>1 DEF LifeInv, HoldsPointer
  <2>7. Clearing'
        BY <2>1, <2>6 DEF Clearing
  <2> QED BY <2>4, <2>5, <2>7 DEF LeakInv
<1>5. CASE Clears(t)
  <2>1. /\ call[t].pc = "clear" /\ call'[t].pc = "idle" /\ ptr' = 0
        /\ finished /\ UNCHANGED <<born, deleted, replaced>>
        BY <1>5 DEF Clears, LifeInv, Finishing, Leaving
  <2>2. \A u \in Threads : ~Storing(u) /\ ~Storing(u)'
        BY <1>0, <1>b, <2>1 DEF Storing
  <2>3. Live' = Live /\ ptr \notin Live
        BY <1>0, <2>1, SameLive DEF LeakInv, Clearing, Live
  <2>4. Accounted'
        BY <2>1, <2>2, <2>3 DEF LeakInv, Accounted
  <2>5. Apart' /\ Clearing'
        BY <1>0, <2>1, <2>2, <2>3 DEF LeakInv, Apart, Clearing
  <2> QED BY <2>4, <2>5 DEF LeakInv
<1> QED BY <1>1, <1>2, <1>3, <1>4, <1>5 DEF Kinds

LEMMA LeakImplies == TypeOK /\ LifeInv /\ LeakInv => OnlyReplacedLeak
<1> SUFFICES ASSUME TypeOK, LifeInv, LeakInv,
                    \A t \in Threads : call[t].pc = "idle"
             PROVE  Live = replaced \cup ({ptr} \ {0, Wild})
    BY DEF OnlyReplacedLeak
<1>1. ptr \in Live \cup {0, Wild}
      BY DEF LifeInv, Dangling
<1>2. \A o \in Live : o \in replaced \/ o = ptr
      BY DEF LeakInv, Accounted, Storing
<1>3. 0 \notin Live /\ Wild \notin Live /\ replaced \subseteq Live
      BY NoObject DEF LeakInv, Apart
<1> QED BY <1>1, <1>2, <1>3

(* While no method runs, the C++ objects that have not been deleted are the *)
(* one the pointer points to and those whose pointer was overwritten or cut *)
(* off.                                                                     *)
THEOREM CleanupFreesTheRest == Spec => []OnlyReplacedLeak
<1>1. Init => LeakInv
      BY InitLeak
<1>2. TypeOK /\ LifeInv /\ LeakInv /\ [Next]_vars => LeakInv'
  <2> SUFFICES ASSUME TypeOK, LifeInv, LeakInv, [Next]_vars PROVE LeakInv'
      OBVIOUS
  <2>1. CASE UNCHANGED vars
        BY <2>1 DEF vars, LeakInv, Accounted, Apart, Clearing, Storing, Live
  <2>2. CASE Next
        BY <2>2, SizesAssumption, NextKinds, LeakStep
  <2> QED BY <2>1, <2>2
<1> QED BY <1>1, <1>2, LifeHolds, LeakImplies, PTL DEF Spec

-----------------------------------------------------------------------------
(* The list of results.                                                     *)

(* A call that is not in the loop, and not one of runProvider.              *)
LEMMA FollowsOutside ==
    ASSUME NEW c, NEW a, Follows(c, a), NEW d, ~d.one, d.pc \notin InList
    PROVE  Follows(d, a)
BY DEF Follows, InList

(* A step of a thread changes the thread's own call and answer.             *)
LEMMA OneMoves ==
    ASSUME TypeOK, ListInv, NEW t \in Threads, NEW c \in CallType, Becomes(t, c),
           \/ answer' = answer /\ Follows(c, answer[t])
           \/ \E a : answer' = [answer EXCEPT ![t] = a] /\ Follows(c, a)
    PROVE  ListInv'
<1>1. call'[t] = c /\ \A u \in Threads : u # t => call'[u] = call[u]
      BY BecomesRight
<1>2. PICK a : Follows(c, a) /\ answer'[t] = a
      BY DEF TypeOK
<1>3. \A u \in Threads : u # t => answer'[u] = answer[u]
      BY DEF TypeOK
<1>4. \A u \in Threads : Follows(call[u], answer[u])
      BY DEF ListInv
<1>5. Follows(call'[t], answer'[t])
      BY <1>1, <1>2
<1>6. \A u \in Threads : Follows(call'[u], answer'[u])
      BY <1>1, <1>3, <1>4, <1>5
<1> QED BY <1>6 DEF ListInv

LEMMA ListBegins ==
    ASSUME TypeOK, ListInv, NEW t \in Threads, NEW c \in CallType,
           c.pc \in {"run", "providers", "create"}, c.file = 1,
           c.one => c.pc = "run", Begin(t, c)
    PROVE  ListInv'
<1>1. Follows(c, NoAnswer)
  <2>1. DOMAIN NoAnswer.list = {} /\ Len(NoAnswer.list) = 0
        BY DEF NoAnswer
  <2>2. c.of \in Nat
        BY DEF CallType
  <2>3. 1 <= c.of + 1 /\ 1 - 1 = 0
        BY <2>2
  <2> QED BY <2>1, <2>3 DEF Follows, InList
<1>2. Becomes(t, c) /\ answer' = [answer EXCEPT ![t] = NoAnswer]
      BY DEF Begin
<1> QED BY <1>1, <1>2, OneMoves

(* A move of a thread that is not in the loop.                              *)
LEMMA ListOutside ==
    ASSUME TypeOK, ListInv, NEW t \in Threads, NEW c \in CallType,
           Becomes(t, c), answer' = answer, c.pc \notin InList,
           \/ ~c.one
           \/ c.one = call[t].one /\ call[t].pc \notin InList \cup {"idle"}
    PROVE  ListInv'
<1>1. Follows(call[t], answer[t])
      BY DEF ListInv
<1>2. ~c.one
      BY <1>1 DEF Follows
<1> QED BY <1>1, <1>2, FollowsOutside, OneMoves

LEMMA ListEnters ==
    ASSUME TypeOK, ListInv, NEW t \in Threads, EnterNative(t)
    PROVE  ListInv'
<1>1. call[t] \in CallType /\ (ptr # Wild => ptr \in Nat)
      BY DEF TypeOK
<1>2. PICK to \in {"lookup", "delete", "native"} :
          /\ Becomes(t, [call[t] EXCEPT !.pc = to, !.used = ptr])
          /\ answer' = answer /\ ptr # Wild
          /\ to # "native" => call[t].pc \in {"providers", "destroy"}
          /\ to = "native" => call[t].pc = "run" /\ call[t].file <= call[t].of
      BY DEF EnterNative, ReadPointer
<1> DEFINE c == [call[t] EXCEPT !.pc = to, !.used = ptr]
<1>3. /\ c \in CallType /\ c.pc = to /\ c.one = call[t].one
      /\ c.file = call[t].file /\ c.of = call[t].of
      BY <1>1, <1>2 DEF CallType
<1> HIDE DEF c
<1>4. Becomes(t, c)
      BY <1>2 DEF c
<1>5. CASE to # "native"
      BY <1>2, <1>3, <1>4, <1>5, ListOutside DEF InList
<1>6. CASE to = "native"
  <2>1. Follows(call[t], answer[t])
        BY DEF ListInv
  <2>2. Follows(c, answer[t])
        BY <1>2, <1>3, <1>6, <2>1 DEF Follows, InList
  <2> QED BY <1>2, <1>3, <1>4, <2>2, OneMoves
<1> QED BY <1>5, <1>6

LEMMA ListRuns ==
    ASSUME SizesAssumption, TypeOK, ListInv, NEW t \in Threads,
           NEW k \in 0..NumProviders, RunNative(t, k)
    PROVE  ListInv'
<1>1. call[t] \in CallType /\ k \in Nat
      BY TypeParts DEF SizesAssumption
<1> DEFINE c == [call[t] EXCEPT !.pc = "parse", !.used = 0, !.objects = k]
<1>2. /\ c \in CallType /\ c.pc = "parse" /\ c.one = call[t].one
      /\ c.file = call[t].file /\ c.of = call[t].of /\ c.objects = k
      BY <1>1 DEF CallType
<1>3. /\ Becomes(t, c) /\ answer' = answer
      /\ call[t].pc = "native" /\ (call[t].one => k = 1)
      BY DEF RunNative
<1> HIDE DEF c
<1>4. Follows(call[t], answer[t])
      BY DEF ListInv
<1>5. Follows(c, answer[t])
      BY <1>2, <1>3, <1>4 DEF Follows, InList
<1> QED BY <1>2, <1>3, <1>5, OneMoves

LEMMA ListParses ==
    ASSUME TypeOK, ListInv, NEW t \in Threads, Parse(t)
    PROVE  ListInv'
<1> DEFINE c == [call[t] EXCEPT !.pc = "run", !.file = @ + 1]
           a == Answered(answer[t], call[t])
           old == answer[t].list
           new == a.list
           f == call[t].file
<1>1. /\ call[t] \in CallType /\ f \in Nat \ {0} /\ f + 1 \in Nat \ {0}
      /\ call[t].of \in Nat
      /\ old \in Seq(Nat \ {0}) /\ call[t].one \in BOOLEAN
      BY TypeParts DEF CallType, AnswerType
<1>2. /\ c \in CallType /\ c.pc = "run" /\ c.one = call[t].one
      /\ c.file = f + 1 /\ c.of = call[t].of
      BY <1>1 DEF CallType
<1>3. Becomes(t, c) /\ answer' = [answer EXCEPT ![t] = a] /\ call[t].pc = "parse"
      BY DEF Parse
<1>4. new = IF call[t].objects = 1 THEN Append(old, f) ELSE old
      BY DEF Answered
<1> HIDE DEF c, a, old, new, f
<1>5. Follows(call[t], answer[t])
      BY DEF ListInv
<1>6. /\ \A i, j \in DOMAIN old : i < j => old[i] < old[j]
      /\ \A i \in DOMAIN old : old[i] < f
      /\ f <= call[t].of
      /\ call[t].one => call[t].objects = 1 /\ Len(old) = f - 1
      BY <1>3, <1>5 DEF Follows, InList, old, f
<1>7. /\ DOMAIN old = 1..Len(old) /\ Len(old) \in Nat
      /\ \A i \in DOMAIN old : old[i] \in Nat
      BY <1>1
<1>8. /\ \A i, j \in DOMAIN new : i < j => new[i] < new[j]
      /\ \A i \in DOMAIN new : new[i] < f + 1
      /\ call[t].one => Len(new) = f
  <2>1. CASE new = old
    <3>1. \A i \in DOMAIN old : old[i] < f + 1
          BY <1>1, <1>6, <1>7
    <3>2. call[t].one => FALSE
      <4>1. SUFFICES ASSUME call[t].one PROVE FALSE
            OBVIOUS
      <4>2. new = Append(old, f)
            BY <1>4, <1>6, <4>1
      <4> QED BY <1>1, <1>7, <2>1, <4>2
    <3> QED BY <1>6, <2>1, <3>1, <3>2
  <2>2. CASE new = Append(old, f)
    <3>1. /\ Len(new) = Len(old) + 1 /\ DOMAIN new = 1..(Len(old) + 1)
          /\ \A i \in 1..Len(old) : new[i] = old[i]
          /\ new[Len(old) + 1] = f
          BY <1>1, <2>2
    <3>2. \A i \in DOMAIN new : i \in DOMAIN old \/ i = Len(old) + 1
          BY <1>7, <3>1
    <3>3. \A i \in DOMAIN new : new[i] < f + 1
          BY <1>1, <1>6, <1>7, <3>1, <3>2
    <3>4. ASSUME NEW i \in DOMAIN new, NEW j \in DOMAIN new, i < j
          PROVE  new[i] < new[j]
      <4>1. i \in DOMAIN old /\ i \in 1..Len(old)
            BY <1>7, <3>1, <3>4
      <4>2. CASE j = Len(old) + 1
            BY <1>6, <3>1, <4>1, <4>2
      <4>3. CASE j \in DOMAIN old
            BY <1>6, <1>7, <3>1, <3>4, <4>1, <4>3
      <4> QED BY <3>2, <4>2, <4>3
    <3>5. call[t].one => Len(new) = f
          BY <1>1, <1>6, <1>7, <3>1
    <3> QED BY <3>3, <3>4, <3>5
  <2> QED BY <1>4, <2>1, <2>2
<1>9. c.file <= c.of + 1 /\ f = c.file - 1
      BY <1>1, <1>2, <1>6
<1>10. Follows(c, a)
       BY <1>2, <1>8, <1>9 DEF Follows, InList, new
<1> QED BY <1>2, <1>3, <1>10, OneMoves

LEMMA ListReturns ==
    ASSUME TypeOK, ListInv, NEW t \in Threads, ReturnList(t)
    PROVE  ListInv'
<1> DEFINE c == [call[t] EXCEPT !.pc = "idle"]
<1>1. call[t] \in CallType /\ call[t].file \in Nat /\ call[t].of \in Nat
      BY DEF TypeOK, CallType
<1>2. /\ c \in CallType /\ c.pc = "idle" /\ c.one = call[t].one
      /\ c.of = call[t].of
      BY <1>1 DEF CallType
<1>3. /\ Becomes(t, c) /\ answer' = answer
      /\ call[t].pc = "run" /\ call[t].file > call[t].of
      BY DEF ReturnList
<1> HIDE DEF c
<1>4. Follows(call[t], answer[t])
      BY DEF ListInv
<1>5. call[t].file - 1 = call[t].of
      BY <1>1, <1>3, <1>4 DEF Follows
<1>6. Follows(c, answer[t])
      BY <1>2, <1>3, <1>4, <1>5 DEF Follows, InList
<1> QED BY <1>2, <1>3, <1>6, OneMoves

LEMMA ListElsewhere ==
    ASSUME TypeOK, ListInv, NEW t \in Threads,
           \/ LookUp(t) \/ ClassMissing(t) \/ MethodMissing(t) \/ FillList(t)
           \/ Construct(t) \/ Store(t) \/ Delete(t) \/ Clear(t) \/ Destroy(t)
    PROVE  ListInv'
<1>0. call[t] \in CallType /\ born + 1 \in Nat
      BY TypeParts
<1>1. CASE LookUp(t) \/ ClassMissing(t)
  <2>1. PICK n \in SUBSET Classes :
            /\ Becomes(t, [call[t] EXCEPT !.at = call[t].at + 1, !.null = n])
            /\ answer' = answer
            /\ call[t].pc = "lookup" /\ call[t].at \in 1..5
    <3>1. CASE LookUp(t)
      <4>1. /\ Becomes(t, [call[t] EXCEPT !.at = call[t].at + 1])
            /\ answer' = answer
            /\ call[t].pc = "lookup" /\ call[t].at \in 1..5
            BY <3>1, NamesRight DEF LookUp, AtLookup
      <4>2. [call[t] EXCEPT !.at = call[t].at + 1] =
               [call[t] EXCEPT !.at = call[t].at + 1, !.null = call[t].null]
            BY <1>0 DEF CallType
      <4>3. call[t].null \in SUBSET Classes
            BY <1>0 DEF CallType
      <4> QED BY <4>1, <4>2, <4>3
    <3>2. CASE ClassMissing(t)
      <4>1. call[t].null \cup {Lookup(t)} \in SUBSET Classes
            BY <1>0, <3>2 DEF ClassMissing, CallType
      <4> QED BY <3>2, <4>1, NamesRight DEF ClassMissing, AtLookup
    <3> QED BY <1>1, <3>1, <3>2
  <2>2. call[t].at + 1 \in 1..(Len(Lookups) + 1)
        BY <2>1, NamesRight
  <2> DEFINE c == [call[t] EXCEPT !.at = call[t].at + 1, !.null = n]
  <2>3. c \in CallType /\ c.pc = "lookup" /\ c.one = call[t].one
        BY <1>0, <2>1, <2>2 DEF CallType
  <2>4. Becomes(t, c)
        BY <2>1
  <2> HIDE DEF c
  <2> QED BY <2>1, <2>3, <2>4, ListOutside DEF InList
<1>2. CASE MethodMissing(t) \/ FillList(t) \/ Store(t) \/ Clear(t)
  <2>1. Becomes(t, Idle) /\ answer' = answer
        BY <1>2 DEF MethodMissing, FillList, Store, Clear
  <2>2. Idle \in CallType /\ ~Idle.one /\ Idle.pc \notin InList
        BY IdleRight DEF Idle, InList
  <2> QED BY <2>1, <2>2, ListOutside
<1>3. CASE Construct(t)
  <2> DEFINE c == [call[t] EXCEPT !.pc = "store", !.used = born + 1]
  <2>1. c \in CallType /\ c.pc = "store" /\ c.one = call[t].one
        BY <1>0 DEF CallType
  <2>2. Becomes(t, c) /\ answer' = answer /\ call[t].pc = "create"
        BY <1>3 DEF Construct
  <2> HIDE DEF c
  <2> QED BY <2>1, <2>2, ListOutside DEF InList
<1>4. CASE Delete(t)
  <2> DEFINE c == [call[t] EXCEPT !.pc = "clear"]
  <2>1. c \in CallType /\ c.pc = "clear" /\ c.one = call[t].one
        BY <1>0 DEF CallType
  <2>2. Becomes(t, c) /\ answer' = answer /\ call[t].pc = "delete"
        BY <1>4 DEF Delete
  <2> HIDE DEF c
  <2> QED BY <2>1, <2>2, ListOutside DEF InList
<1>5. CASE Destroy(t)
  <2> DEFINE c == [Idle EXCEPT !.pc = "destroy"]
  <2>1. c \in CallType /\ c.pc = "destroy" /\ ~c.one
        BY IdleRight DEF CallType, Idle
  <2>2. Becomes(t, c) /\ answer' = answer
        BY <1>5 DEF Destroy
  <2> HIDE DEF c
  <2> QED BY <2>1, <2>2, ListOutside DEF InList
<1> QED BY <1>1, <1>2, <1>3, <1>4, <1>5

LEMMA ListStarts ==
    ASSUME SizesAssumption, TypeOK, ListInv, NEW t \in Threads,
           \/ GetProviders(t) \/ Initialize(t)
           \/ \E one \in BOOLEAN, n \in 0..NumFiles : RunList(t, one, n)
    PROVE  ListInv'
<1>1. ASSUME NEW pc \in {"providers", "create"}, Begin(t, [Idle EXCEPT !.pc = pc])
      PROVE  ListInv'
  <2> DEFINE c == [Idle EXCEPT !.pc = pc]
  <2>1. c \in CallType /\ c.pc = pc /\ c.file = 1 /\ ~c.one
        BY IdleRight DEF CallType, Idle
  <2>2. Begin(t, c)
        BY <1>1
  <2> HIDE DEF c
  <2> QED BY <2>1, <2>2, ListBegins
<1>2. ASSUME NEW one \in BOOLEAN, NEW n \in 0..NumFiles, RunList(t, one, n)
      PROVE  ListInv'
  <2> DEFINE c == [Idle EXCEPT !.pc = "run", !.one = one, !.of = n]
  <2>1. n \in Nat
        BY SizesAssumption DEF SizesAssumption
  <2>2. c \in CallType /\ c.pc = "run" /\ c.file = 1
        BY IdleRight, <2>1 DEF CallType, Idle
  <2>3. Begin(t, c)
        BY <1>2 DEF RunList
  <2> HIDE DEF c
  <2> QED BY <2>2, <2>3, ListBegins
<1> QED BY <1>1, <1>2 DEF GetProviders, Initialize

LEMMA InitList == Init => ListInv
<1> SUFFICES ASSUME Init, NEW t \in Threads PROVE Follows(call[t], answer[t])
    BY DEF ListInv
<1>1. call[t].pc = "idle" /\ ~call[t].one
      BY DEF Init, Idle
<1>2. answer[t].list = <<>>
      BY DEF Init, NoAnswer
<1> QED BY <1>1, <1>2 DEF Follows, InList

LEMMA NextList == TypeOK /\ ListInv /\ [Next]_vars => ListInv'
<1> SUFFICES ASSUME TypeOK, ListInv, [Next]_vars PROVE ListInv'
    OBVIOUS
<1>1. CASE call' = call /\ answer' = answer
      BY <1>1 DEF ListInv
<1>2. ASSUME NEW t \in Threads, Step(t) PROVE ListInv'
  <2>1. CASE EnterNative(t)
        BY <2>1, ListEnters
  <2>2. CASE \E k \in 0..NumProviders : RunNative(t, k)
        BY <2>2, SizesAssumption, ListRuns
  <2>3. CASE Parse(t) \/ ReturnList(t)
        BY <2>3, ListParses, ListReturns
  <2>4. CASE ScanThrows(t) \/ LookUpLate(t) \/ ReadWild(t) \/ DeleteAgain(t)
        BY <1>1, <2>4 DEF ScanThrows, LookUpLate, ReadWild, DeleteAgain
  <2>5. CASE \/ LookUp(t) \/ ClassMissing(t) \/ MethodMissing(t) \/ FillList(t)
             \/ Construct(t) \/ Store(t) \/ Delete(t) \/ Clear(t)
        BY <2>5, ListElsewhere
  <2> QED BY <1>2, <2>1, <2>2, <2>3, <2>4, <2>5 DEF Step
<1>3. CASE UNCHANGED vars
      BY <1>1, <1>3 DEF vars
<1>4. CASE Next
  <2>1. PICK t \in Threads :
          \/ Step(t)
          \/ Initialize(t)
          \/ GetProviders(t)
          \/ \E one \in BOOLEAN, n \in 0..NumFiles : RunList(t, one, n)
          \/ Destroy(t)
        BY <1>4, AnyStep
  <2> QED BY <1>2, <2>1, SizesAssumption, ListStarts, ListElsewhere
<1> QED BY <1>3, <1>4

LEMMA ListImplies == TypeOK /\ ListInv => ListFollowsFiles
<1> SUFFICES ASSUME TypeOK, ListInv, NEW t \in Threads
             PROVE  /\ \A i, j \in DOMAIN answer[t].list :
                          i < j => answer[t].list[i] < answer[t].list[j]
                    /\ call[t].one => Len(answer[t].list) = Done(t)
    BY DEF ListFollowsFiles
<1>1. Follows(call[t], answer[t])
      BY DEF ListInv
<1> QED BY <1>1 DEF Follows, Done

(* The results are in the order of the files, at most one for each, and for *)
(* runProvider there is one for every file that is done, for any number of  *)
(* files, providers and threads.                                            *)
THEOREM ResultsInOrder == Spec => []ListFollowsFiles
BY TypeCorrect, InitList, NextList, ListImplies, PTL DEF Spec
=============================================================================
