--------------------------- MODULE JvmBridgeProofs ---------------------------
(***************************************************************************)
(* What JvmBridge's properties rest on, for any number of threads and any   *)
(* Java providers: the test of JNI_CreateJavaVM's result is a lock.         *)
(***************************************************************************)
EXTENDS JvmBridge, TLAPS

(* The fields of a call record, and its type.                               *)
LEMMA CallAtRight ==
    ASSUME NEW pc, NEW p, NEW b, NEW x
    PROVE  /\ CallAt(pc, p, b, x).pc = pc
           /\ CallAt(pc, p, b, x).plugin = p
           /\ (pc \in Stages \cup {"idle", "destroy"} /\ p \in Plugin
                  /\ b \in BOOLEAN /\ x \in {Null, Copy})
                  => CallAt(pc, p, b, x) \in CallType
BY DEF CallAt, CallType

LEMMA IdleRight == Idle \in CallType /\ Idle.pc = "idle"
BY DEF Idle, CallAt, CallType, Plugin, Null

(* The stage after a stage is a later stage, or the destruction.            *)
LEMMA AfterRight ==
    \A s \in DOMAIN After :
        After[s] \in Stages \cup {"destroy"} /\ After[s] # "create"
BY DEF After, Stages

(* What a thread's move and its return do to the calls.                     *)
LEMMA GotoRight ==
    ASSUME TypeOK, NEW t \in Threads, NEW b \in BOOLEAN, NEW x \in {Null, Copy},
           NEW pc \in Stages \cup {"destroy"}, Goto(t, pc, b, x)
    PROVE  /\ call' \in [Threads -> CallType]
           /\ call'[t].pc = pc
           /\ pc # "create" => Inside(t)'
           /\ \A u \in Threads : u # t => call'[u] = call[u]
<1>1. call \in [Threads -> CallType] /\ call[t].plugin \in Plugin
      BY DEF TypeOK, CallType
<1>2. call' = [call EXCEPT ![t] = CallAt(pc, call[t].plugin, b, x)]
      BY DEF Goto
<1>3. /\ CallAt(pc, call[t].plugin, b, x) \in CallType
      /\ CallAt(pc, call[t].plugin, b, x).pc = pc
      BY <1>1, CallAtRight
<1>4. call'[t].pc = pc
      BY <1>1, <1>2, <1>3
<1>5. pc # "create" => Inside(t)'
      BY <1>4 DEF Inside, Stages
<1> QED BY <1>1, <1>2, <1>3, <1>4, <1>5

LEMMA ReturnsRight ==
    ASSUME TypeOK, NEW t \in Threads, NEW c \in BOOLEAN, NEW x \in {Null, Copy},
           Returns(t, c, x)
    PROVE  /\ call' \in [Threads -> CallType]
           /\ call'[t].pc = "idle"
           /\ \A u \in Threads : u # t => call'[u] = call[u]
           /\ log' \in Seq(LogType)
           /\ Len(log') = Len(log) + 1
           /\ log'[Len(log) + 1].text = x
           /\ log'[Len(log) + 1].created = c
           /\ log'[Len(log) + 1].plugin = call[t].plugin
           /\ \A i \in DOMAIN log : log'[i] = log[i]
<1>1. call \in [Threads -> CallType] /\ call[t].plugin \in Plugin
      BY DEF TypeOK, CallType
<1> DEFINE e == [plugin |-> call[t].plugin, created |-> c, text |-> x]
<1>2. e \in LogType /\ e.text = x /\ e.created = c /\ e.plugin = call[t].plugin
      BY <1>1 DEF LogType
<1>3. call' = [call EXCEPT ![t] = Idle] /\ log' = Append(log, e)
      BY DEF Returns
<1>4. log \in Seq(LogType)
      BY DEF TypeOK
<1> HIDE DEF e
<1> QED BY <1>1, <1>2, <1>3, <1>4, IdleRight

-----------------------------------------------------------------------------
(* Every step of a thread is one of four kinds: it creates the machine, it  *)
(* returns without having been inside, it moves on inside, or it leaves.    *)

Creates(t) ==
    /\ call[t].pc = "create" /\ call'[t].pc = "class"
    /\ jvm = "absent" /\ jvm' = "running"
    /\ creator' = t /\ log' = log

Refused(t) ==
    /\ call[t].pc = "create" /\ call'[t].pc = "idle"
    /\ jvm' = jvm /\ creator' = creator

MovesInside(t) ==
    /\ Inside(t) /\ Inside(t)'
    /\ jvm' = jvm \/ jvm' \in {"running", "crashed"}
    /\ creator' = creator /\ log' = log

(* An evaluation that created the machine did not find the class.           *)
ClassMissed ==
    \E i \in DOMAIN log : log[i].created /\ log[i].plugin.fails = "class"

Leaves(t) ==
    /\ Inside(t) /\ call'[t].pc = "idle"
    /\ \/ jvm' = "gone"
       \/ jvm' = jvm /\ ClassMissed'
    /\ creator' = creator

(* What a return adds to the log.                                           *)
Logs(x) ==
    /\ log' \in Seq(LogType)
    /\ Len(log') = Len(log) + 1
    /\ log'[Len(log) + 1].text = x
    /\ \A i \in DOMAIN log : log'[i] = log[i]

Kinds(t) ==
    /\ call' \in [Threads -> CallType]
    /\ spawned' \in BOOLEAN
    /\ \A u \in Threads : u # t => call'[u] = call[u]
    /\ \/ Creates(t)
       \/ Refused(t) /\ Logs(Null)
       \/ MovesInside(t)
       \/ Leaves(t) /\ (Logs(Null) \/ Logs(Copy))

LEMMA StepKinds == ASSUME TypeOK, NEW t \in Threads, Step(t) PROVE Kinds(t)
<1> USE DEF Kinds
<1>0. /\ call \in [Threads -> CallType] /\ spawned \in BOOLEAN
      /\ TRUE \in BOOLEAN /\ FALSE \in BOOLEAN
      /\ Null \in {Null, Copy} /\ Copy \in {Null, Copy}
      /\ "destroy" \in Stages \cup {"destroy"} /\ "destroy" # "create"
      BY DEF TypeOK
<1>a. ASSUME MaySpawn(t) PROVE spawned' \in BOOLEAN
      BY <1>0, <1>a DEF MaySpawn
<1>1. CASE Create(t)
  <2>1. "class" \in Stages \cup {"destroy"}
        BY DEF Stages
  <2>2. Goto(t, "class", FALSE, Null) /\ call[t].pc = "create"
        /\ jvm = "absent" /\ jvm' = "running" /\ creator' = t
        /\ spawned' = spawned /\ log' = log
        BY <1>1 DEF Create
  <2> QED BY <1>0, <2>1, <2>2, GotoRight DEF Creates
<1>2. CASE CreateRefused(t)
  <2>1. Returns(t, FALSE, Null) /\ call[t].pc = "create"
        /\ UNCHANGED <<jvm, creator, spawned>>
        BY <1>2 DEF CreateRefused
  <2> QED BY <1>0, <2>1, ReturnsRight DEF Refused, Logs
<1>3. CASE Obtain(t)
  <2> DEFINE x == IF call[t].pc = "chars" THEN Copy ELSE Null
  <2>1. x \in {Null, Copy}
        OBVIOUS
  <2>2. call[t].pc \in DOMAIN After /\ Goto(t, After[call[t].pc], FALSE, x)
        /\ UNCHANGED <<jvm, creator, log>>
        BY <1>3 DEF Obtain
  <2>3. spawned' \in BOOLEAN
        BY <1>3, <1>a DEF Obtain
  <2>4. After[call[t].pc] \in Stages \cup {"destroy"}
        /\ After[call[t].pc] # "create"
        BY <2>2, AfterRight
  <2>5. Inside(t)
        BY <2>2 DEF Inside, After
  <2> HIDE DEF x
  <2>6. PICK n \in Stages \cup {"destroy"}, y \in {Null, Copy} :
            n # "create" /\ Goto(t, n, FALSE, y)
        BY <2>1, <2>2, <2>4
  <2>7. /\ call' \in [Threads -> CallType]
        /\ Inside(t)'
        /\ \A u \in Threads : u # t => call'[u] = call[u]
        BY <1>0, <2>6, GotoRight
  <2> QED BY <2>2, <2>3, <2>5, <2>7 DEF MovesInside
<1>4. CASE ClassMissing(t)
  <2>1. Returns(t, TRUE, Null) /\ Inside(t) /\ UNCHANGED <<jvm, creator>>
        /\ spawned' \in BOOLEAN
        BY <1>4, <1>a DEF ClassMissing, Inside
  <2>2. call[t].plugin.fails = "class"
        BY <1>4 DEF ClassMissing, Fails
  <2>3. /\ log' \in Seq(LogType) /\ Len(log') = Len(log) + 1
        /\ log'[Len(log) + 1].created
        /\ log'[Len(log) + 1].plugin.fails = "class"
        BY <1>0, <2>1, <2>2, ReturnsRight
  <2>4. Len(log) + 1 \in DOMAIN log'
        BY <2>3 DEF TypeOK
  <2>5. ClassMissed'
        BY <2>3, <2>4 DEF ClassMissed
  <2> QED BY <1>0, <2>1, <2>5, ReturnsRight DEF Leaves, Logs
<1>5. CASE MethodMissing(t)
  <2>1. Goto(t, "destroy", TRUE, Null) /\ Inside(t)
        /\ jvm' \in {"running", "crashed"} /\ UNCHANGED <<creator, spawned, log>>
        BY <1>5 DEF MethodMissing, Inside
  <2> QED BY <1>0, <2>1, GotoRight DEF MovesInside
<1>6. CASE ObjectFails(t)
  <2>1. Goto(t, "answer", TRUE, Null) /\ Inside(t)
        /\ UNCHANGED <<jvm, creator, log>> /\ spawned' \in BOOLEAN
        BY <1>6, <1>a DEF ObjectFails, Inside
  <2>2. "answer" \in Stages \cup {"destroy"}
        BY DEF Stages
  <2> QED BY <1>0, <2>1, <2>2, GotoRight DEF MovesInside
<1>7. CASE AnswerUndefined(t)
  <2>1. Goto(t, "destroy", FALSE, Null) /\ Inside(t)
        /\ jvm' \in {"running", "crashed"} /\ UNCHANGED <<creator, spawned, log>>
        BY <1>7 DEF AnswerUndefined, Inside
  <2> QED BY <1>0, <2>1, GotoRight DEF MovesInside
<1>8. CASE CallFails(t)
  <2>1. Goto(t, "destroy", FALSE, Null) /\ Inside(t) /\ UNCHANGED <<jvm, creator, log>>
        BY <1>8 DEF CallFails, Inside
  <2>2. spawned' \in BOOLEAN
        BY <1>8, <1>a DEF CallFails
  <2> QED BY <1>0, <2>1, <2>2, GotoRight DEF MovesInside
<1>9. CASE ReadFails(t)
  <2>1. Goto(t, "destroy", TRUE, Null) /\ Inside(t)
        /\ UNCHANGED <<jvm, creator, log>> /\ spawned' \in BOOLEAN
        BY <1>9, <1>a DEF ReadFails, Inside
  <2> QED BY <1>0, <2>1, GotoRight DEF MovesInside
<1>10. CASE Destroy(t)
  <2>1. Returns(t, TRUE, call[t].text) /\ Inside(t) /\ jvm' = "gone"
        /\ UNCHANGED <<creator, spawned>>
        BY <1>10 DEF Destroy, Inside
  <2>2. call[t].text \in {Null, Copy}
        BY <1>0 DEF CallType
  <2>3. CASE call[t].text = Null
        BY <1>0, <2>1, <2>3, ReturnsRight DEF Leaves, Logs
  <2>4. CASE call[t].text = Copy
        BY <1>0, <2>1, <2>4, ReturnsRight DEF Leaves, Logs
  <2> QED BY <2>2, <2>3, <2>4
<1> QED BY <1>1, <1>2, <1>3, <1>4, <1>5, <1>6, <1>7, <1>8, <1>9, <1>10 DEF Step

(* The steps that are no step of a thread in a call.                        *)
Calm ==
    /\ call' \in [Threads -> CallType]
    /\ spawned' \in BOOLEAN
    /\ \A t \in Threads : Inside(t)' <=> Inside(t)
    /\ UNCHANGED <<jvm, creator, log>>

LEMMA OtherSteps ==
    ASSUME TypeOK, \/ \E t \in Threads, p \in Plugins : Enter(t, p)
                   \/ JavaThreadEnds
                   \/ UNCHANGED vars
    PROVE  Calm
<1>0. call \in [Threads -> CallType] /\ spawned \in BOOLEAN
      BY DEF TypeOK
<1>1. ASSUME NEW t \in Threads, NEW p \in Plugins, Enter(t, p) PROVE Calm
  <2>0. /\ "create" \in Stages \cup {"idle", "destroy"} /\ p \in Plugin
        /\ FALSE \in BOOLEAN /\ Null \in {Null, Copy}
        BY PluginsAssumption DEF Stages
  <2>1. PICK c \in CallType :
            c.pc = "create" /\ c = CallAt("create", p, FALSE, Null)
        BY <2>0 DEF CallAt, CallType
  <2>2. /\ call' = [call EXCEPT ![t] = c] /\ call[t].pc = "idle"
        /\ UNCHANGED <<jvm, creator, spawned, log>>
        BY <1>1, <2>1 DEF Enter
  <2> QED BY <1>0, <2>1, <2>2 DEF Calm, Inside
<1>2. CASE JavaThreadEnds
      BY <1>0, <1>2 DEF JavaThreadEnds, Calm, Inside
<1>3. CASE UNCHANGED vars
      BY <1>0, <1>3 DEF vars, Calm, Inside
<1> QED BY <1>1, <1>2, <1>3

LEMMA NextKinds ==
    ASSUME TypeOK, [Next]_vars
    PROVE  (\E t \in Threads : Kinds(t)) \/ Calm
BY StepKinds, OtherSteps DEF Next

-----------------------------------------------------------------------------
(* Types.                                                                   *)

LEMMA TypeInit == Init => TypeOK
<1> SUFFICES ASSUME Init PROVE TypeOK
    OBVIOUS
<1>1. call \in [Threads -> CallType]
      BY IdleRight DEF Init
<1>2. log \in Seq(LogType)
      BY DEF Init
<1> QED BY <1>1, <1>2 DEF Init, TypeOK

LEMMA TypeStep == TypeOK /\ [Next]_vars => TypeOK'
<1> SUFFICES ASSUME TypeOK, [Next]_vars PROVE TypeOK'
    OBVIOUS
<1>1. ASSUME NEW t \in Threads, Kinds(t) PROVE TypeOK'
      BY <1>1 DEF Kinds, Creates, Refused, MovesInside, Leaves, Logs, TypeOK
<1>2. CASE Calm
      BY <1>2 DEF Calm, TypeOK
<1> QED BY <1>1, <1>2, NextKinds

(* JvmBridge's state always has its declared type.                          *)
THEOREM TypeCorrect == Spec => []TypeOK
BY TypeInit, TypeStep, PTL DEF Spec

-----------------------------------------------------------------------------
(* One thread inside, one answer.                                           *)

LEMMA OnceInit == Init => OnceInv
<1> SUFFICES ASSUME Init PROVE OnceInv
    OBVIOUS
<1>1. \A t \in Threads : ~Inside(t)
      BY IdleRight DEF Init, Inside
<1>2. log = <<>>
      BY DEF Init
<1> QED BY <1>1, <1>2 DEF OnceInv, OnlyCreatorInside, AnswersOnce

LEMMA OnceStep == TypeOK /\ OnceInv /\ [Next]_vars => OnceInv'
<1> SUFFICES ASSUME TypeOK, OnceInv, [Next]_vars PROVE OnceInv'
    OBVIOUS
<1>0. log \in Seq(LogType) /\ NoThread \notin Threads
      BY NoThreadAssumption DEF TypeOK
<1>1. ASSUME NEW t \in Threads, Kinds(t) PROVE OnceInv'
  <2>0. \A u \in Threads : u # t => (Inside(u)' <=> Inside(u))
        BY <1>1 DEF Kinds, Inside
  <2>1. CASE Creates(t)
        BY <2>0, <2>1 DEF Creates, OnceInv, OnlyCreatorInside, AnswersOnce
  <2>2. CASE Refused(t) /\ Logs(Null)
    <3>1. ~Inside(t)'
          BY <2>2 DEF Refused, Inside
    <3>2. OnlyCreatorInside'
          BY <2>0, <2>2, <3>1 DEF Refused, OnceInv, OnlyCreatorInside
    <3>3. \A i \in DOMAIN log' : log'[i].text = Copy => i \in DOMAIN log /\ log'[i] = log[i]
      <4>1. /\ DOMAIN log = 1..Len(log) /\ Len(log) \in Nat
            /\ log' \in Seq(LogType) /\ Len(log') = Len(log) + 1
            BY <1>0, <2>2 DEF Logs
      <4>2. DOMAIN log' = 1..(Len(log) + 1)
            BY <4>1
      <4>3. log'[Len(log) + 1].text # Copy
            BY <2>2 DEF Logs, Null, Copy
      <4>4. \A i \in DOMAIN log : log'[i] = log[i]
            BY <2>2 DEF Logs
      <4> QED BY <4>1, <4>2, <4>3, <4>4
    <3> QED BY <2>0, <2>2, <3>1, <3>2, <3>3 DEF Refused, OnceInv, AnswersOnce
  <2>3. CASE MovesInside(t)
        BY <2>0, <2>3 DEF MovesInside, OnceInv, OnlyCreatorInside, AnswersOnce
  <2>4. CASE Leaves(t) /\ (Logs(Null) \/ Logs(Copy))
    <3>1. ~Inside(t)' /\ \A u \in Threads : u # t => ~Inside(u)'
          BY <2>0, <2>4 DEF Leaves, OnceInv, OnlyCreatorInside, Inside
    <3>2. \A i \in DOMAIN log : log[i].text # Copy
          BY <2>4 DEF Leaves, OnceInv
    <3>3. jvm' # "absent"
          BY <2>4 DEF Leaves, OnceInv, OnlyCreatorInside
    <3>4. \A i \in DOMAIN log' : i \in DOMAIN log \/ i = Len(log) + 1
          BY <1>0, <2>4 DEF Logs
    <3>5. AnswersOnce'
          BY <2>4, <3>2, <3>4 DEF Logs, AnswersOnce
    <3> QED BY <3>1, <3>3, <3>5 DEF OnceInv, OnlyCreatorInside
  <2> QED BY <1>1, <2>1, <2>2, <2>3, <2>4 DEF Kinds
<1>2. CASE Calm
      BY <1>2 DEF Calm, OnceInv, OnlyCreatorInside, AnswersOnce
<1> QED BY <1>1, <1>2, NextKinds

LEMMA TypeAndOnce == Spec => [](TypeOK /\ OnceInv)
BY TypeInit, TypeStep, OnceInit, OnceStep, PTL DEF Spec

(* Every JNI call comes from the thread that created the machine, while     *)
(* that machine is there.                                                   *)
THEOREM CreatorAlone == Spec => []OnlyCreatorInside
<1>1. OnceInv => OnlyCreatorInside
      BY DEF OnceInv
<1> QED BY TypeAndOnce, <1>1, PTL

(* A process gets at most one answer from all its Java providers.           *)
THEOREM OneAnswer == Spec => []AnswersOnce
<1>1. OnceInv => AnswersOnce
      BY DEF OnceInv
<1> QED BY TypeAndOnce, <1>1, PTL

LEMMA HostStep ==
    TypeOK /\ OnceInv /\ [Next]_vars => [jvm = "host" => jvm' = "host"]_vars
<1> SUFFICES ASSUME TypeOK, OnceInv, [Next]_vars, jvm = "host"
             PROVE  jvm' = "host"
    OBVIOUS
<1>1. ASSUME NEW t \in Threads, Kinds(t) PROVE jvm' = "host"
  <2>1. ~Inside(t)
        BY DEF OnceInv, OnlyCreatorInside
  <2> QED BY <1>1, <2>1 DEF Kinds, Creates, Refused, MovesInside, Leaves
<1>2. CASE Calm
      BY <1>2 DEF Calm
<1> QED BY <1>1, <1>2, NextKinds

(* The machine of a Java host is neither entered nor destroyed.             *)
THEOREM HostSurvives == Spec => HostJvmStays
BY TypeAndOnce, HostStep, PTL DEF Spec, HostJvmStays

-----------------------------------------------------------------------------
(* What happens to the machine.                                             *)

LEMMA LeftInit == Init => NoJvmLeftBehind
BY DEF Init, NoJvmLeftBehind

LEMMA LogsKeep == ASSUME NEW x, Logs(x), TypeOK, ClassMissed PROVE ClassMissed'
<1>1. PICK i \in DOMAIN log : log[i].created /\ log[i].plugin.fails = "class"
      BY DEF ClassMissed
<1>2. log'[i] = log[i]
      BY DEF Logs
<1>3. i \in DOMAIN log'
      BY DEF Logs, TypeOK
<1> QED BY <1>1, <1>2, <1>3 DEF ClassMissed

LEMMA LeftStep == TypeOK /\ NoJvmLeftBehind /\ [Next]_vars => NoJvmLeftBehind'
<1> SUFFICES ASSUME TypeOK, NoJvmLeftBehind, [Next]_vars,
                    jvm' = "running", \A t \in Threads : ~Inside(t)'
             PROVE  ClassMissed'
    BY DEF NoJvmLeftBehind, ClassMissed
<1>0. jvm = "running" /\ (\A t \in Threads : ~Inside(t)) => ClassMissed
      BY DEF NoJvmLeftBehind, ClassMissed
<1>1. ASSUME NEW t \in Threads, Kinds(t) PROVE ClassMissed'
  <2>1. ~Creates(t) /\ ~MovesInside(t)
        BY DEF Inside, Creates, MovesInside
  <2>2. CASE Refused(t) /\ Logs(Null)
    <3>1. \A u \in Threads : ~Inside(u)
          BY <1>1, <2>2 DEF Kinds, Refused, Inside
    <3>2. ClassMissed
          BY <1>0, <2>2, <3>1 DEF Refused
    <3> QED BY <2>2, <3>2, LogsKeep
  <2>3. CASE Leaves(t)
        BY <2>3 DEF Leaves
  <2> QED BY <1>1, <2>1, <2>2, <2>3 DEF Kinds
<1>2. CASE Calm
      BY <1>0, <1>2 DEF Calm, ClassMissed
<1> QED BY <1>1, <1>2, NextKinds

(* A machine that runs while no evaluation does was left by an evaluation   *)
(* that did not find its provider's class: NoJvmLeftBehind is inductive.    *)
THEOREM NothingElseLeft == Spec => []NoJvmLeftBehind
BY TypeInit, TypeStep, LeftInit, LeftStep, PTL DEF Spec
=============================================================================
