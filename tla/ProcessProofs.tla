---------------------------- MODULE ProcessProofs -----------------------------
(***************************************************************************)
(* In a process with any providers and any number of requests the threads   *)
(* of Java code end within the evaluation that started them, but for one    *)
(* case, and the Java provider that gets the machine is the only one that   *)
(* answers.                                                                 *)
(***************************************************************************)
EXTENDS Process, TLAPS

(* Sequences of anything.                                                   *)
IsSequence(s) == s \in Seq({s[i] : i \in DOMAIN s})

LEMMA SequenceFacts ==
    ASSUME NEW s, IsSequence(s)
    PROVE  /\ Len(s) \in Nat /\ DOMAIN s = 1..Len(s)
           /\ \A T : (\A i \in DOMAIN s : s[i] \in T) => s \in Seq(T)
<1>1. PICK S : s \in Seq(S)
      BY DEF IsSequence
<1>2. Len(s) \in Nat /\ DOMAIN s = 1..Len(s) /\ s \in [1..Len(s) -> S]
      BY <1>1
<1>3. ASSUME NEW T, \A i \in DOMAIN s : s[i] \in T PROVE s \in Seq(T)
  <2>1. s \in [1..Len(s) -> T]
        BY <1>2, <1>3
  <2> QED BY <1>2, <2>1
<1> QED BY <1>2, <1>3

LEMMA IsSequenceOf == ASSUME NEW S, NEW s \in Seq(S) PROVE IsSequence(s)
<1> DEFINE T == {s[i] : i \in DOMAIN s}
<1>1. Len(s) \in Nat /\ s \in [1..Len(s) -> S]
      OBVIOUS
<1>2. \A i \in 1..Len(s) : s[i] \in T
      BY <1>1
<1> HIDE DEF T
<1>3. s \in [1..Len(s) -> T]
      BY <1>1, <1>2
<1>4. s \in Seq(T)
      BY <1>1, <1>3
<1> QED BY <1>4 DEF T, IsSequence

LEMMA EmptySequence ==
    ASSUME NEW s, s = <<>>
    PROVE  IsSequence(s) /\ DOMAIN s = {}
BY DEF IsSequence

LEMMA AppendFacts ==
    ASSUME NEW s, IsSequence(s), NEW x
    PROVE  /\ IsSequence(Append(s, x))
           /\ Len(Append(s, x)) = Len(s) + 1
           /\ DOMAIN Append(s, x) = 1..(Len(s) + 1)
           /\ Append(s, x)[Len(s) + 1] = x
           /\ \A i \in DOMAIN s : Append(s, x)[i] = s[i]
<1>1. PICK T : T = {s[i] : i \in DOMAIN s} \cup {x}
      OBVIOUS
<1>2. s \in Seq(T) /\ x \in T
      BY <1>1, SequenceFacts
<1>3. Append(s, x) \in Seq(T)
      BY <1>2
<1>4. IsSequence(Append(s, x))
      BY <1>3, IsSequenceOf
<1> QED BY <1>2, <1>4

-----------------------------------------------------------------------------
(* Java code.                                                               *)

(* A call of the bridge lasts while its provider is evaluated.  A thread of *)
(* Java code may run once the provider's class was loaded, until the        *)
(* machine is destroyed; or the class was missed.                           *)
At == bridge[Thread].pc
Early == {"idle", "create", "class"}
InsideInv ==
    /\ IsSequence(answers)
    /\ bridge = [t \in {Thread} |-> bridge[t]]
    /\ At # "idle" => AtJava
    /\ spawned => At \notin Early \/ Missed

LEMMA InsideInit == Init => InsideInv
BY EmptySequence DEF Init, B!Init, InsideInv, At, B!Idle, B!CallAt

(* What is missed stays missed.                                             *)
LEMMA MissedStays ==
    ASSUME IsSequence(answers),
           answers' = answers \/ \E x : answers' = Append(answers, x)
    PROVE  IsSequence(answers)' /\ (Missed => Missed')
<1>1. CASE answers' = answers
      BY <1>1 DEF Missed, IsSequence
<1>2. ASSUME NEW x, answers' = Append(answers, x)
      PROVE  IsSequence(answers)' /\ (Missed => Missed')
  <2>1. IsSequence(answers')
        BY <1>2, AppendFacts
  <2>2. \A i \in DOMAIN answers : i \in DOMAIN answers' /\ answers'[i] = answers[i]
        BY <1>2, AppendFacts, SequenceFacts
  <2> QED BY <2>1, <2>2 DEF Missed, IsSequence
<1> QED BY <1>1, <1>2

(* An evaluation that missed its class says so.                             *)
LEMMA MissedNow ==
    ASSUME IsSequence(answers), NEW p, NEW x,
           p.fails = "class", "class" \in p.spawns,
           answers' = Append(answers, [plugin |-> p, created |-> TRUE, text |-> x])
    PROVE  Missed'
<1> DEFINE e == [plugin |-> p, created |-> TRUE, text |-> x]
<1>1. /\ Len(answers) + 1 \in DOMAIN answers'
      /\ answers'[Len(answers) + 1] = e
      BY AppendFacts, SequenceFacts
<1>2. e.created /\ e.plugin = p
      OBVIOUS
<1> HIDE DEF e
<1> QED BY <1>1, <1>2 DEF Missed

(* A step of the bridge: where it leads, and what it leaves running.        *)
LEMMA BridgeStep ==
    ASSUME InsideInv, B!Step(Thread)
    PROVE  /\ bridge' = [t \in {Thread} |-> bridge'[t]]
           /\ At # "idle"
           /\ answers' = answers \/ \E x : answers' = Append(answers, x)
           /\ spawned' => At' \notin Early \/ Missed'
           /\ At' = "idle" \/ answers' = answers
<1> USE DEF InsideInv, At, Early, B!Goto, B!Returns, B!CallAt, B!Idle
<1>0. /\ answers' = answers => (Missed => Missed')
      /\ (\E x : answers' = Append(answers, x)) => (Missed => Missed')
      BY MissedStays
<1>1. CASE B!Create(Thread) \/ B!CreateRefused(Thread)
      BY <1>0, <1>1 DEF B!Create, B!CreateRefused
<1>2. CASE B!Obtain(Thread)
  <2>1. At \in DOMAIN B!After
        BY <1>2 DEF B!Obtain
  <2>2. /\ bridge' = [bridge EXCEPT ![Thread] = bridge'[Thread]]
        /\ At' = B!After[At]
        /\ answers' = answers
        BY <1>2 DEF B!Obtain
  <2>3. At # "idle" /\ B!After[At] \notin Early
        BY <2>1 DEF B!After
  <2> QED BY <2>1, <2>2, <2>3
<1>3. CASE B!ClassMissing(Thread)
  <2> DEFINE p == bridge[Thread].plugin
  <2>1. /\ bridge' = [bridge EXCEPT ![Thread] = bridge'[Thread]]
        /\ At = "class" /\ At' = "idle" /\ p.fails = "class"
        /\ answers' = Append(answers, [plugin |-> p, created |-> TRUE,
                                       text |-> B!Null])
        /\ spawned' => spawned \/ "class" \in p.spawns
        BY <1>3 DEF B!ClassMissing, B!Fails, B!MaySpawn
  <2>2. spawned => Missed
        BY <2>1
  <2>3. "class" \in p.spawns => Missed'
        BY <2>1, MissedNow
  <2> QED BY <1>0, <2>1, <2>2, <2>3
<1>4. CASE B!MethodMissing(Thread) \/ B!AnswerUndefined(Thread)
      BY <1>4 DEF B!MethodMissing, B!AnswerUndefined
<1>5. CASE B!ObjectFails(Thread) \/ B!CallFails(Thread) \/ B!ReadFails(Thread)
      BY <1>5 DEF B!ObjectFails, B!CallFails, B!ReadFails
<1>6. CASE B!Destroy(Thread)
      BY <1>6 DEF B!Destroy
<1> QED BY <1>1, <1>2, <1>3, <1>4, <1>5, <1>6 DEF B!Step

LEMMA InsideStep == InsideInv /\ [Next]_vars => InsideInv'
<1> SUFFICES ASSUME InsideInv, [Next]_vars PROVE InsideInv'
    OBVIOUS
<1> USE DEF InsideInv, At
<1>0. answers' = answers => IsSequence(answers)' /\ (Missed => Missed')
      BY MissedStays
<1>1. CASE UNCHANGED vars
      BY <1>0, <1>1 DEF vars, AtJava
<1>2. CASE Request
      BY <1>0, <1>2 DEF Request, E!Request, E!RunModality, E!RunProvider,
             E!RunUnknown, E!Begin, AtJava, bridgeVars
<1>3. CASE NativeStep
      BY <1>0, <1>3 DEF NativeStep, bridgeVars, Early
<1>4. CASE EnterJava
      BY <1>0, <1>4 DEF EnterJava, B!Enter, B!CallAt, evaluationVars, AtJava, Early
<1>5. CASE InJava
  <2>1. AtJava /\ AtJava'
        BY <1>5, BridgeStep DEF InJava, evaluationVars, AtJava
  <2> QED BY <1>0, <1>5, <2>1, BridgeStep DEF InJava
<1>6. CASE JavaReturns
  <2>1. At' = "idle" /\ IsSequence(answers)'
        BY <1>6, BridgeStep, MissedStays DEF JavaReturns
  <2> QED BY <1>6, <2>1, BridgeStep DEF JavaReturns
<1>7. CASE JavaThreadEnds
      BY <1>0, <1>7 DEF JavaThreadEnds, B!JavaThreadEnds, evaluationVars, AtJava
<1> QED BY <1>1, <1>2, <1>3, <1>4, <1>5, <1>6, <1>7 DEF Next, Step

(* The threads that Java providers start run inside the evaluation of a     *)
(* Java provider only, unless a static initialiser started one and threw.   *)
THEOREM JavaInside == Spec => []OnlyMissedOutlast
<1>1. InsideInv => OnlyMissedOutlast
      BY DEF InsideInv, OnlyMissedOutlast, Early
<1> QED BY InsideInit, InsideStep, <1>1, PTL DEF Spec

-----------------------------------------------------------------------------
(* Which Java provider answers.                                             *)

(* The evaluations that have ended: Life, and the one whose result is still *)
(* being parsed.                                                            *)
Ended ==
    IF call.pc \in {"parse", "release"}
    THEN Append(Life, Seen([prov |-> call.at, text |-> call.text]))
    ELSE Life

(* No Java provider of history h got the machine; none answered; one did,   *)
(* as FirstMachineAnswers says, and m is the state of the machine.          *)
Untouched(h) ==
    \A e \in DOMAIN h :
        registry[h[e].prov].java =>
            ~h[e].answered /\ Plugin(h[e].prov).fails = "create"

Silent(h) == \A e \in DOMAIN h : registry[h[e].prov].java => ~h[e].answered

FirstAnswers(h, m) ==
    \A f \in DOMAIN h :
        registry[h[f].prov].java /\ h[f].answered =>
            /\ m # "host"
            /\ \A e \in DOMAIN h :
                  e # f /\ registry[h[e].prov].java =>
                      /\ ~h[e].answered
                      /\ e < f => Plugin(h[e].prov).fails = "create"

ShapeInv ==
    /\ IsSequence(past) /\ IsSequence(log) /\ IsSequence(answers)
    /\ call = [pc |-> call.pc, modality |-> call.modality, at |-> call.at,
               text |-> call.text, code |-> call.code]

(* Until a machine was created, and while the evaluation that created it is *)
(* inside, the Java providers before were refused.                          *)
Inside == At \notin {"idle", "create"}
MachineInv ==
    /\ At # "idle" => bridge[Thread].plugin = Plugin(call.at)
    /\ Inside => jvm \in {"running", "crashed"}
    /\ jvm = "absent" \/ Inside => Untouched(Ended)
    /\ jvm = "host" => Silent(Ended)
    /\ FirstAnswers(Ended, jvm)

LEMMA SeenFacts ==
    ASSUME NEW l, IsSequence(l)
    PROVE  /\ IsSequence(SeenOf(l))
           /\ Len(SeenOf(l)) = Len(l)
           /\ \A i \in DOMAIN l : SeenOf(l)[i] = Seen(l[i])
<1>1. Len(l) \in Nat /\ DOMAIN l = 1..Len(l)
      BY SequenceFacts
<1>2. PICK T : \A i \in DOMAIN l : Seen(l[i]) \in T
  <2> WITNESS {Seen(l[i]) : i \in DOMAIN l}
  <2> QED OBVIOUS
<1>3. SeenOf(l) \in [1..Len(l) -> T]
      BY <1>1, <1>2 DEF SeenOf
<1>4. SeenOf(l) \in Seq(T) /\ Len(SeenOf(l)) = Len(l)
      BY <1>1, <1>3
<1> QED BY <1>4, IsSequenceOf DEF SeenOf

(* k is history p continued by the log l.                                   *)
Continues(k, p, l) ==
    /\ IsSequence(k) /\ Len(k) = Len(p) + Len(l)
    /\ \A i \in 1..Len(p) : k[i] = p[i]
    /\ \A i \in 1..Len(l) : k[Len(p) + i] = Seen(l[i])

LEMMA LifeFacts ==
    ASSUME NEW p, IsSequence(p), NEW l, IsSequence(l)
    PROVE  Continues(p \o SeenOf(l), p, l)
<1>1. PICK m : m = SeenOf(l)
      OBVIOUS
<1>2. /\ IsSequence(m) /\ Len(m) = Len(l)
      /\ \A i \in 1..Len(l) : m[i] = Seen(l[i])
      BY <1>1, SeenFacts, SequenceFacts
<1>3. PICK T : T = {p[i] : i \in DOMAIN p} \cup {m[i] : i \in DOMAIN m}
      OBVIOUS
<1>4. p \in Seq(T) /\ m \in Seq(T)
      BY <1>2, <1>3, SequenceFacts
<1>5. /\ p \o m \in Seq(T) /\ Len(p \o m) = Len(p) + Len(m)
      /\ \A i \in 1..Len(p) : (p \o m)[i] = p[i]
      /\ \A i \in 1..Len(m) : (p \o m)[Len(p) + i] = m[i]
      BY <1>4
<1>6. IsSequence(p \o m)
      BY <1>5, IsSequenceOf
<1>7. Continues(p \o m, p, l)
      BY <1>2, <1>5, <1>6 DEF Continues
<1> QED BY <1>1, <1>7

LEMMA SameSequence ==
    ASSUME NEW s, IsSequence(s), NEW r, IsSequence(r), Len(s) = Len(r),
           \A i \in 1..Len(s) : s[i] = r[i]
    PROVE  s = r
<1>1. PICK T : T = {s[i] : i \in DOMAIN s}
      OBVIOUS
<1>2. DOMAIN s = 1..Len(s) /\ DOMAIN r = 1..Len(s) /\ Len(s) \in Nat
      BY SequenceFacts
<1>3. s \in Seq(T) /\ r \in Seq(T)
      BY <1>1, <1>2, SequenceFacts
<1>4. s \in [1..Len(s) -> T] /\ r \in [1..Len(s) -> T]
      BY <1>2, <1>3
<1> QED BY <1>4

(* The history goes over into the next request unchanged, and an entry of   *)
(* the log is the next entry of the history.                                *)
LEMMA ContinuesEmpty ==
    ASSUME NEW p, IsSequence(p), NEW k, NEW l, l = <<>>, Continues(k, p, l)
    PROVE  k = p
<1>1. Len(l) = 0 /\ Len(p) \in Nat
      BY SequenceFacts
<1>2. IsSequence(k) /\ Len(k) = Len(p) /\ \A i \in 1..Len(k) : k[i] = p[i]
      BY <1>1 DEF Continues
<1> QED BY <1>2, SameSequence

LEMMA SeenEmpty ==
    ASSUME NEW p, IsSequence(p), NEW l, l = <<>>
    PROVE  p \o SeenOf(l) = p
<1>1. IsSequence(l)
      BY DEF IsSequence
<1> DEFINE k == p \o SeenOf(l)
<1>2. Continues(k, p, l)
      BY <1>1, LifeFacts
<1> HIDE DEF k
<1>3. k = p
      BY <1>2, ContinuesEmpty
<1> QED BY <1>3 DEF k

LEMMA ContinuesAppend ==
    ASSUME NEW p, IsSequence(p), NEW l, IsSequence(l), NEW x,
           NEW m, IsSequence(m), Len(m) = Len(l) + 1, m[Len(l) + 1] = x,
           \A i \in 1..Len(l) : m[i] = l[i],
           NEW k, Continues(k, p, l), NEW n, Continues(n, p, m),
           NEW a, IsSequence(a), Len(a) = Len(k) + 1, a[Len(k) + 1] = Seen(x),
           \A i \in 1..Len(k) : a[i] = k[i]
    PROVE  n = a
<1>1. Len(p) \in Nat /\ Len(l) \in Nat
      BY SequenceFacts
<1>2. Len(k) = Len(p) + Len(l) /\ Len(n) = Len(p) + Len(l) + 1 /\ Len(a) = Len(n)
      BY <1>1 DEF Continues
<1>3. ASSUME NEW i \in 1..Len(n) PROVE n[i] = a[i]
  <2>1. CASE i \in 1..Len(p)
        BY <1>1, <1>2, <2>1 DEF Continues
  <2>2. CASE i = Len(p) + (Len(l) + 1)
    <3>1. Len(l) + 1 \in 1..Len(m) /\ i = Len(k) + 1
          BY <1>1, <1>2, <2>2
    <3>2. n[Len(p) + (Len(l) + 1)] = Seen(m[Len(l) + 1])
          BY <3>1 DEF Continues
    <3> QED BY <2>2, <3>1, <3>2
  <2>3. CASE i \in (Len(p) + 1)..(Len(p) + Len(l))
    <3>1. PICK j \in 1..Len(l) : i = Len(p) + j
      <4>1. i - Len(p) \in 1..Len(l) /\ i = Len(p) + (i - Len(p))
            BY <1>1, <2>3
      <4> QED BY <4>1
    <3>2. j \in 1..Len(m) /\ i \in 1..Len(k)
          BY <1>1, <1>2, <3>1
    <3>3. n[Len(p) + j] = Seen(m[j]) /\ m[j] = l[j]
          BY <3>2 DEF Continues
    <3>4. k[Len(p) + j] = Seen(l[j])
          BY DEF Continues
    <3> QED BY <3>1, <3>2, <3>3, <3>4
  <2> QED BY <1>1, <1>2, <2>1, <2>2, <2>3
<1>4. IsSequence(n)
      BY DEF Continues
<1> QED BY <1>2, <1>3, <1>4, SameSequence

LEMMA SeenAppend ==
    ASSUME NEW p, IsSequence(p), NEW l, IsSequence(l), NEW x
    PROVE  p \o SeenOf(Append(l, x)) = Append(p \o SeenOf(l), Seen(x))
<1> DEFINE m == Append(l, x)
           k == p \o SeenOf(l)
           n == p \o SeenOf(m)
           a == Append(k, Seen(x))
<1>1. /\ IsSequence(m) /\ Len(m) = Len(l) + 1 /\ m[Len(l) + 1] = x
      /\ \A i \in 1..Len(l) : m[i] = l[i]
      BY AppendFacts, SequenceFacts
<1>2. Continues(k, p, l)
      BY LifeFacts
<1> HIDE DEF m
<1>3. Continues(n, p, m)
      BY <1>1, LifeFacts
<1>4. IsSequence(k)
      BY <1>2 DEF Continues
<1> HIDE DEF k, n
<1>5. /\ IsSequence(a) /\ Len(a) = Len(k) + 1 /\ a[Len(k) + 1] = Seen(x)
      /\ \A i \in 1..Len(k) : a[i] = k[i]
      BY <1>4, AppendFacts, SequenceFacts
<1> HIDE DEF a
<1>6. n = a
      BY <1>1, <1>2, <1>3, <1>5, ContinuesAppend
<1> QED BY <1>6 DEF m, k, n, a

-----------------------------------------------------------------------------
(* What a step does to the history.                                         *)

HasFields(c) == c = [pc |-> c.pc, modality |-> c.modality, at |-> c.at,
                     text |-> c.text, code |-> c.code]

LEMMA PcSet ==
    ASSUME NEW c, HasFields(c), NEW x, NEW d, d = [c EXCEPT !.pc = x]
    PROVE  HasFields(d) /\ d.pc = x /\ d.at = c.at /\ d.text = c.text
<1>1. d = [pc |-> x, modality |-> c.modality, at |-> c.at, text |-> c.text,
           code |-> c.code]
      BY DEF HasFields
<1> QED BY <1>1 DEF HasFields

LEMMA AtSet ==
    ASSUME NEW c, HasFields(c), NEW i, NEW d, d = [c EXCEPT !.at = i]
    PROVE  HasFields(d) /\ d.pc = c.pc
<1>1. d = [pc |-> c.pc, modality |-> c.modality, at |-> i, text |-> c.text,
           code |-> c.code]
      BY DEF HasFields
<1> QED BY <1>1 DEF HasFields

LEMMA ParsedFields ==
    ASSUME NEW pc, NEW x, NEW k
    PROVE  /\ HasFields(E!Parsed(pc, x, k))
           /\ E!Parsed(pc, x, k).pc = pc
           /\ E!Parsed(pc, x, k).at = call.at
           /\ E!Parsed(pc, x, k).text = x
BY DEF E!Parsed, HasFields

LEMMA CalledFields ==
    ASSUME NEW pc, NEW m, NEW i, NEW k
    PROVE  /\ HasFields(E!Called(pc, m, i, k))
           /\ E!Called(pc, m, i, k).pc = pc
BY DEF E!Called, HasFields

(* An evaluation that is not in the log yet, and one that is not in the     *)
(* history yet.                                                             *)
LEMMA EndsNow ==
    ASSUME call.pc = "eval", call'.pc \in {"parse", "release"},
           call'.at = call.at, Life' = Life
    PROVE  Ended' = Append(Ended, [prov |-> call.at,
                                   answered |-> call'.text # E!Null])
BY DEF Ended, Seen

LEMMA NativeKinds ==
    ASSUME ShapeInv, E!Step, past' = past
    PROVE  /\ HasFields(call)' /\ registry' = registry
           /\ log' = log \/ \E x : log' = Append(log, x)
           /\ \/ Ended' = Ended
              \/ /\ call.pc = "eval"
                 /\ Ended' = Append(Ended, [prov |-> call.at,
                                            answered |-> call'.text # E!Null])
<1>0. HasFields(call)
      BY DEF ShapeInv, HasFields
<1>1. ASSUME log' = log, call.pc \notin {"parse", "release"},
             call'.pc \notin {"parse", "release"}
      PROVE  Ended' = Ended
      BY <1>1 DEF Ended, Life
<1>2. CASE E!Consider
  <2>1. /\ call.pc = "next" /\ log' = log /\ registry' = registry
        /\ \/ call' = [call EXCEPT !.pc = "eval"]
           \/ \E i : call' = [call EXCEPT !.at = i]
        BY <1>2 DEF E!Consider
  <2>2. HasFields(call)' /\ call'.pc \in {"next", "eval"}
        BY <1>0, <2>1, PcSet, AtSet
  <2> QED BY <1>1, <2>1, <2>2
<1>3. CASE \/ \E x \in E!Texts : E!Evaluate(x)
           \/ E!EvaluateNull \/ E!EvaluateThrows
  <2>1. /\ call.pc = "eval" /\ log' = log /\ registry' = registry
        /\ \E s \in {"parse", "release"} : \E x, k : call' = E!Parsed(s, x, k)
        BY <1>3 DEF E!Evaluate, E!EvaluateNull, E!EvaluateThrows
  <2>2. HasFields(call)' /\ call'.pc \in {"parse", "release"} /\ call'.at = call.at
        BY <2>1, ParsedFields
  <2>3. Life' = Life
        BY <2>1 DEF Life
  <2> QED BY <2>1, <2>2, <2>3, EndsNow
<1>4. CASE E!Deserialize \/ E!DeserializeThrows
  <2>1. /\ call.pc = "parse" /\ log' = log /\ registry' = registry
        /\ \E k : call' = E!Parsed("release", call.text, k)
        BY <1>4 DEF E!Deserialize, E!DeserializeThrows
  <2>2. /\ HasFields(call)' /\ call'.pc = "release"
        /\ call'.at = call.at /\ call'.text = call.text
        BY <2>1, ParsedFields
  <2>3. Ended' = Ended
        BY <2>1, <2>2 DEF Ended, Life
  <2> QED BY <2>1, <2>2, <2>3
<1>5. CASE E!Release
  <2> DEFINE x == [prov |-> call.at, text |-> call.text]
  <2>1. /\ call.pc = "release" /\ registry' = registry
        /\ log' = Append(log, x)
        /\ call' = [call EXCEPT !.pc = "collect"]
        BY <1>5 DEF E!Release
  <2>2. HasFields(call)' /\ call'.pc = "collect"
        BY <1>0, <2>1, PcSet
  <2>3. Ended' = past \o SeenOf(Append(log, x))
        BY <2>1, <2>2 DEF Ended, Life
  <2>4. Ended = Append(past \o SeenOf(log), Seen(x))
        BY <2>1 DEF Ended, Life
  <2>5. IsSequence(past) /\ IsSequence(log)
        BY DEF ShapeInv
  <2> HIDE DEF x
  <2>6. Ended' = Ended
        BY <2>3, <2>4, <2>5, SeenAppend
  <2> QED BY <2>1, <2>2, <2>6
<1>6. CASE E!Collect \/ E!Deliver \/ E!Return
  <2>1. /\ call.pc \in {"collect", "done", "next"} /\ log' = log
        /\ registry' = registry
        /\ \/ \E pc \in {"done", "idle"} : call' = [call EXCEPT !.pc = pc]
           \/ \E i : call' = [call EXCEPT !.pc = "next", !.at = i]
        BY <1>6 DEF E!Collect, E!Deliver, E!Return
  <2>2. HasFields(call)' /\ call'.pc \in {"done", "idle", "next"}
    <3>1. CASE \E pc \in {"done", "idle"} : call' = [call EXCEPT !.pc = pc]
          BY <1>0, <3>1, PcSet
    <3>2. CASE \E i : call' = [call EXCEPT !.pc = "next", !.at = i]
      <4>1. PICK i : call' = [call EXCEPT !.pc = "next", !.at = i]
            BY <3>2
      <4>2. call' = [pc |-> "next", modality |-> call.modality, at |-> i,
                     text |-> call.text, code |-> call.code]
            BY <1>0, <4>1 DEF HasFields
      <4> QED BY <4>2 DEF HasFields
    <3> QED BY <2>1, <3>1, <3>2
  <2> QED BY <1>1, <2>1, <2>2
<1> QED BY <1>2, <1>3, <1>4, <1>5, <1>6 DEF E!Step

LEMMA RequestKeeps ==
    ASSUME ShapeInv, Request
    PROVE  /\ HasFields(call)' /\ registry' = registry
           /\ log' = <<>> /\ past' = Life /\ Ended' = Ended
<1>1. /\ call.pc = "idle" /\ log' = <<>> /\ registry' = registry
      /\ \E s \in {"next", "eval", "done"} : \E m, i, k : call' = E!Called(s, m, i, k)
      BY DEF Request, E!Request, E!RunModality, E!RunProvider, E!RunUnknown,
             E!Begin
<1>2. HasFields(call)' /\ call'.pc \in {"next", "eval", "done"}
      BY <1>1, CalledFields
<1>3. past' = Life
      BY DEF Request
<1>4. IsSequence(Life)
      BY LifeFacts DEF ShapeInv, Life, Continues
<1>5. Life' = Life
      BY <1>1, <1>3, <1>4, SeenEmpty DEF Life
<1>6. Ended' = Ended
      BY <1>1, <1>2, <1>5 DEF Ended
<1> QED BY <1>1, <1>2, <1>3, <1>6

-----------------------------------------------------------------------------
(* What the history says after a step, from what it said before.            *)

LEMMA HistoryGrows ==
    ASSUME NEW h, IsSequence(h), NEW p, NEW a,
           NEW g, g = Append(h, [prov |-> p, answered |-> a])
    PROVE  /\ DOMAIN h = 1..Len(h) /\ DOMAIN g = 1..(Len(h) + 1)
           /\ Len(h) \in Nat
           /\ \A e \in DOMAIN h : g[e] = h[e]
           /\ g[Len(h) + 1].prov = p /\ g[Len(h) + 1].answered = a
<1> DEFINE x == [prov |-> p, answered |-> a]
<1>1. x.prov = p /\ x.answered = a
      OBVIOUS
<1> HIDE DEF x
<1>2. g = Append(h, x)
      BY DEF x
<1> QED BY <1>1, <1>2, AppendFacts, SequenceFacts

(* An evaluation of a Java provider that did not get the machine, or of a   *)
(* native provider, changes nothing.                                        *)
LEMMA StillUntouched ==
    ASSUME NEW h, IsSequence(h), Untouched(h), NEW p, NEW a,
           registry[p].java => ~a /\ Plugin(p).fails = "create"
    PROVE  Untouched(Append(h, [prov |-> p, answered |-> a]))
<1> DEFINE g == Append(h, [prov |-> p, answered |-> a])
<1>1. /\ DOMAIN h = 1..Len(h) /\ DOMAIN g = 1..(Len(h) + 1) /\ Len(h) \in Nat
      /\ \A e \in DOMAIN h : g[e] = h[e]
      /\ g[Len(h) + 1].prov = p /\ g[Len(h) + 1].answered = a
      BY HistoryGrows
<1> HIDE DEF g
<1>2. \A e \in DOMAIN g : e \in DOMAIN h \/ e = Len(h) + 1
      BY <1>1
<1>3. Untouched(g)
      BY <1>1, <1>2 DEF Untouched
<1> QED BY <1>3 DEF g

LEMMA StillSilent ==
    ASSUME NEW h, IsSequence(h), Silent(h), NEW p, NEW a, registry[p].java => ~a
    PROVE  Silent(Append(h, [prov |-> p, answered |-> a]))
<1> DEFINE g == Append(h, [prov |-> p, answered |-> a])
<1>1. /\ DOMAIN h = 1..Len(h) /\ DOMAIN g = 1..(Len(h) + 1) /\ Len(h) \in Nat
      /\ \A e \in DOMAIN h : g[e] = h[e]
      /\ g[Len(h) + 1].prov = p /\ g[Len(h) + 1].answered = a
      BY HistoryGrows
<1> HIDE DEF g
<1>2. \A e \in DOMAIN g : e \in DOMAIN h \/ e = Len(h) + 1
      BY <1>1
<1>3. Silent(g)
      BY <1>1, <1>2 DEF Silent
<1> QED BY <1>3 DEF g

LEMMA StillFirst ==
    ASSUME NEW h, IsSequence(h), NEW m, FirstAnswers(h, m), NEW p, NEW a,
           registry[p].java => ~a
    PROVE  FirstAnswers(Append(h, [prov |-> p, answered |-> a]), m)
<1> DEFINE g == Append(h, [prov |-> p, answered |-> a])
<1>1. /\ DOMAIN h = 1..Len(h) /\ DOMAIN g = 1..(Len(h) + 1) /\ Len(h) \in Nat
      /\ \A e \in DOMAIN h : g[e] = h[e]
      /\ g[Len(h) + 1].prov = p /\ g[Len(h) + 1].answered = a
      BY HistoryGrows
<1> HIDE DEF g
<1> SUFFICES ASSUME NEW f \in DOMAIN g, registry[g[f].prov].java, g[f].answered
             PROVE  /\ m # "host"
                    /\ \A e \in DOMAIN g :
                          e # f /\ registry[g[e].prov].java =>
                              /\ ~g[e].answered
                              /\ e < f => Plugin(g[e].prov).fails = "create"
    BY DEF FirstAnswers, g
<1>2. f # Len(h) + 1
      BY <1>1
<1>3. f \in DOMAIN h /\ g[f] = h[f]
      BY <1>1, <1>2
<1>4. /\ m # "host"
      /\ \A e \in DOMAIN h :
            e # f /\ registry[h[e].prov].java =>
                /\ ~h[e].answered
                /\ e < f => Plugin(h[e].prov).fails = "create"
      BY <1>3 DEF FirstAnswers
<1>5. ASSUME NEW e \in DOMAIN g, e # f, registry[g[e].prov].java
      PROVE  /\ ~g[e].answered
             /\ e < f => Plugin(g[e].prov).fails = "create"
  <2>1. CASE e = Len(h) + 1
    <3>1. ~g[e].answered
          BY <1>1, <1>5, <2>1
    <3>2. ~(e < f)
          BY <1>1, <1>3, <2>1
    <3> QED BY <3>1, <3>2
  <2>2. CASE e \in DOMAIN h
        BY <1>1, <1>4, <1>5, <2>2
  <2> QED BY <1>1, <2>1, <2>2
<1> QED BY <1>4, <1>5

(* The first machine's provider answers.                                    *)
LEMMA FirstNow ==
    ASSUME NEW h, IsSequence(h), Untouched(h), NEW p, NEW a, NEW m, m # "host"
    PROVE  FirstAnswers(Append(h, [prov |-> p, answered |-> a]), m)
<1> DEFINE g == Append(h, [prov |-> p, answered |-> a])
<1>1. /\ DOMAIN h = 1..Len(h) /\ DOMAIN g = 1..(Len(h) + 1) /\ Len(h) \in Nat
      /\ \A e \in DOMAIN h : g[e] = h[e]
      /\ g[Len(h) + 1].prov = p /\ g[Len(h) + 1].answered = a
      BY HistoryGrows
<1> HIDE DEF g
<1>2. \A e \in DOMAIN g : e \in DOMAIN h \/ e = Len(h) + 1
      BY <1>1
<1>3. \A e \in DOMAIN h : registry[g[e].prov].java =>
          ~g[e].answered /\ Plugin(g[e].prov).fails = "create"
      BY <1>1 DEF Untouched
<1>4. FirstAnswers(g, m)
      BY <1>2, <1>3 DEF FirstAnswers
<1> QED BY <1>4 DEF g

LEMMA AtNextState ==
    ASSUME registry' = registry, NEW g, g = Ended', NEW m, m = jvm'
    PROVE  /\ Untouched(g) => Untouched(Ended)'
           /\ Silent(g) => Silent(Ended)'
           /\ FirstAnswers(g, m) => FirstAnswers(Ended, jvm)'
BY DEF Untouched, Silent, FirstAnswers, Plugin

LEMMA OtherMachine ==
    ASSUME NEW h, NEW m, NEW n, FirstAnswers(h, m), n = "host" => m = "host"
    PROVE  FirstAnswers(h, n)
BY DEF FirstAnswers

(* The machine during a step of the bridge, and the answer of the step.     *)
LEMMA MachineStep ==
    ASSUME InsideInv, MachineInv, IsSequence(answers), B!Step(Thread)
    PROVE  /\ IsSequence(answers)'
           /\ At' # "idle" => bridge'[Thread].plugin = bridge[Thread].plugin
           /\ Inside' => jvm' \in {"running", "crashed"}
           /\ Inside' \/ jvm' = "absent" => Inside \/ jvm = "absent"
           /\ jvm' = "host" => jvm = "host"
           /\ answers' # answers =>
                 /\ At' = "idle"
                 /\ answers'[Len(answers')].text = B!Copy =>
                        Inside /\ jvm' = "gone"
                 /\ jvm' = "absent" => bridge[Thread].plugin.fails = "create"
<1> DEFINE Moves(pc) ==
        /\ At' = pc /\ bridge'[Thread].plugin = bridge[Thread].plugin
        /\ answers' = answers
           Answers(x) ==
        /\ At' = "idle"
        /\ \E e : e.text = x /\ answers' = Append(answers, e)
<1>0. /\ bridge = [t \in {Thread} |-> bridge[t]]
      /\ Inside => jvm \in {"running", "crashed"}
      BY DEF InsideInv, MachineInv
<1>1. ASSUME NEW pc, NEW b, NEW x, B!Goto(Thread, pc, b, x), answers' = answers
      PROVE  Moves(pc)
      BY <1>0, <1>1 DEF B!Goto, B!CallAt, At
<1>2. ASSUME NEW c, NEW x, B!Returns(Thread, c, x) PROVE Answers(x)
  <2>1. At' = "idle"
        BY <1>0, <1>2 DEF B!Returns, B!Idle, B!CallAt, At
  <2> DEFINE e == [plugin |-> bridge[Thread].plugin, created |-> c, text |-> x]
  <2>2. e.text = x /\ answers' = Append(answers, e)
        BY <1>2 DEF B!Returns
  <2> QED BY <2>1, <2>2
<1>3. ASSUME NEW x, Answers(x)
      PROVE  /\ IsSequence(answers)' /\ At' = "idle"
             /\ answers'[Len(answers')].text = x
      BY <1>3, AppendFacts
<1> HIDE DEF Answers
<1> DEFINE Right ==
        /\ IsSequence(answers)'
        /\ At' # "idle" => bridge'[Thread].plugin = bridge[Thread].plugin
        /\ Inside' => jvm' \in {"running", "crashed"}
        /\ Inside' \/ jvm' = "absent" => Inside \/ jvm = "absent"
        /\ jvm' = "host" => jvm = "host"
        /\ answers' # answers =>
              /\ At' = "idle"
              /\ answers'[Len(answers')].text = B!Copy => Inside /\ jvm' = "gone"
              /\ jvm' = "absent" => bridge[Thread].plugin.fails = "create"
<1>4. CASE B!Create(Thread)
  <2>1. Moves("class") /\ jvm = "absent" /\ jvm' = "running"
        BY <1>1, <1>4 DEF B!Create
  <2> QED BY <2>1 DEF Inside
<1>5. CASE B!CreateRefused(Thread)
  <2>1. Answers(B!Null) /\ jvm' = jvm /\ (jvm # "absent" \/ B!Fails(Thread))
        /\ At = "create"
        BY <1>2, <1>5 DEF B!CreateRefused, At
  <2>2. jvm' = "absent" => bridge[Thread].plugin.fails = "create"
        BY <2>1 DEF B!Fails, At
  <2>3. /\ IsSequence(answers)' /\ At' = "idle"
        /\ answers'[Len(answers')].text = B!Null
        BY <1>3, <2>1
  <2> QED BY <2>1, <2>2, <2>3 DEF Inside, B!Null, B!Copy
(* Steps of a thread that is inside.                                        *)
<1>6. ASSUME NEW pc, Moves(pc), Inside, jvm' = jvm \/ jvm' \in {"running", "crashed"}
      PROVE  Right
      BY <1>0, <1>6
<1>7. ASSUME NEW x, Answers(x), Inside,
             jvm' = "gone" \/ (jvm' = jvm /\ x = B!Null)
      PROVE  Right
  <2>1. /\ IsSequence(answers)' /\ At' = "idle"
        /\ answers'[Len(answers')].text = x
        BY <1>3, <1>7
  <2> QED BY <1>0, <1>7, <2>1 DEF Inside, B!Null, B!Copy
<1>8. CASE B!Obtain(Thread)
  <2>1. At \in DOMAIN B!After /\ jvm' = jvm
        /\ \E pc, x : B!Goto(Thread, pc, FALSE, x)
        /\ answers' = answers
        BY <1>8 DEF B!Obtain, At
  <2>2. Inside
        BY <2>1 DEF Inside, B!After
  <2> QED BY <1>1, <1>6, <2>1, <2>2
<1>9. CASE B!ClassMissing(Thread)
  <2>1. B!Returns(Thread, TRUE, B!Null) /\ jvm' = jvm /\ Inside
        BY <1>9 DEF B!ClassMissing, Inside, At
  <2> QED BY <1>2, <1>7, <2>1
<1>10. CASE B!MethodMissing(Thread) \/ B!AnswerUndefined(Thread)
  <2>1. /\ \E b : B!Goto(Thread, "destroy", b, B!Null)
        /\ jvm' \in {"running", "crashed"} /\ Inside /\ answers' = answers
        BY <1>10 DEF B!MethodMissing, B!AnswerUndefined, Inside, At
  <2> QED BY <1>1, <1>6, <2>1
<1>11. CASE \/ B!ObjectFails(Thread) \/ B!CallFails(Thread) \/ B!ReadFails(Thread)
  <2>1. /\ \E pc, b : B!Goto(Thread, pc, b, B!Null)
        /\ jvm' = jvm /\ Inside /\ answers' = answers
        BY <1>11 DEF B!ObjectFails, B!CallFails, B!ReadFails, Inside, At
  <2> QED BY <1>1, <1>6, <2>1
<1>12. CASE B!Destroy(Thread)
  <2>1. /\ \E x : B!Returns(Thread, TRUE, x)
        /\ jvm' = "gone" /\ Inside
        BY <1>12 DEF B!Destroy, Inside, At
  <2> QED BY <1>2, <1>7, <2>1
<1> QED BY <1>4, <1>5, <1>8, <1>9, <1>10, <1>11, <1>12 DEF B!Step

-----------------------------------------------------------------------------
(* The invariant.                                                           *)

LEMMA EndedIsSequence == ShapeInv => IsSequence(Ended)
<1> SUFFICES ASSUME ShapeInv PROVE IsSequence(Ended)
    OBVIOUS
<1>1. IsSequence(Life)
      BY LifeFacts DEF ShapeInv, Life, Continues
<1>2. \A x : IsSequence(Append(Life, x))
      BY <1>1, AppendFacts
<1> QED BY <1>1, <1>2 DEF Ended

LEMMA MachineInit == Init => ShapeInv /\ MachineInv
<1> SUFFICES ASSUME Init PROVE ShapeInv /\ MachineInv
    OBVIOUS
<1>1. /\ past = <<>> /\ log = <<>> /\ answers = <<>> /\ jvm \in {"absent", "host"}
      /\ call = E!Called("idle", "by name", 0, 0)
      BY DEF Init, E!Init, E!Idle, B!Init
<1>2. At = "idle"
      BY DEF Init, B!Init, B!Idle, B!CallAt, At
<1>3. HasFields(call) /\ call.pc = "idle"
      BY <1>1, CalledFields
<1>4. IsSequence(past) /\ IsSequence(log) /\ IsSequence(answers)
      BY <1>1, EmptySequence
<1>5. Ended = past
      BY <1>1, <1>3, <1>4, SeenEmpty DEF Ended, Life
<1>6. DOMAIN Ended = {}
      BY <1>1, <1>5, EmptySequence
<1>7. ShapeInv
      BY <1>3, <1>4 DEF ShapeInv, HasFields
<1>8. MachineInv
      BY <1>1, <1>2, <1>6
         DEF MachineInv, Inside, Untouched, Silent, FirstAnswers
<1> QED BY <1>7, <1>8

LEMMA ShapeKept ==
    ASSUME IsSequence(past)', IsSequence(log)', IsSequence(answers)',
           HasFields(call)'
    PROVE  ShapeInv'
BY DEF ShapeInv, HasFields

(* Steps outside the bridge.                                                *)
LEMMA BridgeRests ==
    ASSUME MachineInv, At = "idle", UNCHANGED bridgeVars, registry' = registry,
           Ended' = Ended
    PROVE  MachineInv'
<1>1. At' = "idle" /\ jvm' = jvm
      BY DEF bridgeVars, At
<1>2. ~Inside /\ ~Inside'
      BY <1>1 DEF Inside
<1> QED BY <1>1, <1>2, AtNextState DEF MachineInv

LEMMA MachineNative ==
    ASSUME ShapeInv, InsideInv, MachineInv, NativeStep
    PROVE  ShapeInv' /\ MachineInv'
<1>1. ~AtJava /\ E!Step /\ UNCHANGED bridgeVars /\ past' = past
      BY DEF NativeStep
<1>2. At = "idle" /\ At' = "idle" /\ jvm' = jvm /\ answers' = answers
      BY <1>1 DEF InsideInv, bridgeVars, At
<1>3. IsSequence(past) /\ IsSequence(log) /\ IsSequence(answers)
      BY DEF ShapeInv
<1>4. /\ HasFields(call)' /\ registry' = registry
      /\ log' = log \/ \E x : log' = Append(log, x)
      /\ \/ Ended' = Ended
         \/ /\ call.pc = "eval"
            /\ Ended' = Append(Ended, [prov |-> call.at,
                                       answered |-> call'.text # E!Null])
      BY <1>1, NativeKinds
<1>a. IsSequence(log)'
  <2>1. CASE log' = log
        BY <1>3, <2>1 DEF IsSequence
  <2>2. ASSUME NEW x, log' = Append(log, x) PROVE IsSequence(log)'
    <3>1. IsSequence(Append(log, x))
          BY <1>3, AppendFacts
    <3> QED BY <2>2, <3>1 DEF IsSequence
  <2> QED BY <1>4, <2>1, <2>2
<1>5. ShapeInv'
      BY <1>1, <1>2, <1>3, <1>4, <1>a, ShapeKept
<1>6. CASE Ended' = Ended
      BY <1>1, <1>2, <1>4, <1>5, <1>6, BridgeRests
<1>7. CASE /\ call.pc = "eval"
           /\ Ended' = Append(Ended, [prov |-> call.at,
                                      answered |-> call'.text # E!Null])
  <2>1. PICK a : Ended' = Append(Ended, [prov |-> call.at, answered |-> a])
        BY <1>7
  <2>2. ~registry[call.at].java /\ IsSequence(Ended)
        BY <1>1, <1>7, EndedIsSequence DEF AtJava
  <2>3. Untouched(Ended) => Untouched(Ended)'
        BY <1>4, <2>1, <2>2, StillUntouched, AtNextState
  <2>4. Silent(Ended) => Silent(Ended)'
        BY <1>4, <2>1, <2>2, StillSilent, AtNextState
  <2>5. FirstAnswers(Ended, jvm) => FirstAnswers(Ended, jvm)'
        BY <1>2, <1>4, <2>1, <2>2, StillFirst, AtNextState
  <2>6. ~Inside /\ ~Inside'
        BY <1>2 DEF Inside
  <2>7. MachineInv'
        BY <1>2, <2>3, <2>4, <2>5, <2>6 DEF MachineInv
  <2> QED BY <1>5, <2>7
<1> QED BY <1>4, <1>5, <1>6, <1>7

LEMMA MachineRequest ==
    ASSUME ShapeInv, InsideInv, MachineInv, Request
    PROVE  ShapeInv' /\ MachineInv'
<1>1. /\ HasFields(call)' /\ registry' = registry
      /\ log' = <<>> /\ past' = Life /\ Ended' = Ended
      BY RequestKeeps
<1>2. UNCHANGED bridgeVars /\ call.pc = "idle"
      BY DEF Request, E!Request, E!RunModality, E!RunProvider, E!RunUnknown
<1>3. At = "idle"
      BY <1>2 DEF InsideInv, AtJava
<1>4. IsSequence(Life) /\ IsSequence(answers)
      BY LifeFacts DEF ShapeInv, Life, Continues
<1>5. IsSequence(past)' /\ IsSequence(log)' /\ IsSequence(answers)'
      BY <1>1, <1>2, <1>4 DEF IsSequence, bridgeVars
<1> QED BY <1>1, <1>2, <1>3, <1>5, ShapeKept, BridgeRests

(* Steps of the bridge that return nothing to evaluate.                     *)
LEMMA EvaluationRests ==
    ASSUME ShapeInv, UNCHANGED evaluationVars, past' = past, IsSequence(answers)'
    PROVE  ShapeInv' /\ Ended' = Ended /\ registry' = registry /\ call' = call
<1>1. Ended' = Ended /\ registry' = registry /\ call' = call
      BY DEF evaluationVars, Ended, Life
<1>2. IsSequence(past)' /\ IsSequence(log)' /\ HasFields(call)'
      BY DEF evaluationVars, ShapeInv, HasFields
<1> QED BY <1>1, <1>2, ShapeKept

LEMMA MachineEnter ==
    ASSUME ShapeInv, InsideInv, MachineInv, EnterJava
    PROVE  ShapeInv' /\ MachineInv'
<1>1. /\ UNCHANGED evaluationVars /\ past' = past /\ answers' = answers
      /\ jvm' = jvm
      /\ bridge' = [bridge EXCEPT ![Thread] =
                       B!CallAt("create", Plugin(call.at), FALSE, B!Null)]
      BY DEF EnterJava, B!Enter
<1>2. At' = "create" /\ bridge'[Thread].plugin = Plugin(call.at)
      BY <1>1 DEF InsideInv, B!CallAt, At
<1>3. ShapeInv' /\ Ended' = Ended /\ registry' = registry /\ call' = call
      BY <1>1, EvaluationRests DEF ShapeInv
<1>4. bridge'[Thread].plugin = Plugin(call.at)'
      BY <1>2, <1>3 DEF Plugin
<1>5. ~Inside'
      BY <1>2 DEF Inside
<1> QED BY <1>1, <1>3, <1>4, <1>5, AtNextState DEF MachineInv

LEMMA MachineInside ==
    ASSUME ShapeInv, InsideInv, MachineInv, InJava
    PROVE  ShapeInv' /\ MachineInv'
<1>1. B!Step(Thread) /\ UNCHANGED evaluationVars /\ past' = past
      BY DEF InJava
<1>2. /\ IsSequence(answers)'
      /\ At' # "idle" => bridge'[Thread].plugin = bridge[Thread].plugin
      /\ Inside' => jvm' \in {"running", "crashed"}
      /\ Inside' \/ jvm' = "absent" => Inside \/ jvm = "absent"
      /\ jvm' = "host" => jvm = "host"
      BY <1>1, MachineStep DEF ShapeInv
<1>3. ShapeInv' /\ Ended' = Ended /\ registry' = registry /\ call' = call
      BY <1>1, <1>2, EvaluationRests
<1>4. At' # "idle" => bridge'[Thread].plugin = Plugin(call.at)'
      BY <1>1, <1>2, <1>3, BridgeStep DEF MachineInv, Plugin
<1>5. FirstAnswers(Ended, jvm)'
  <2>1. FirstAnswers(Ended, jvm')
        BY <1>2, OtherMachine DEF MachineInv
  <2> QED BY <1>3, <2>1, AtNextState
<1>6. /\ Untouched(Ended) => Untouched(Ended)'
      /\ Silent(Ended) => Silent(Ended)'
      BY <1>3, AtNextState
<1> QED BY <1>2, <1>3, <1>4, <1>5, <1>6 DEF MachineInv

LEMMA MachineReturns ==
    ASSUME ShapeInv, InsideInv, MachineInv, JavaReturns
    PROVE  ShapeInv' /\ MachineInv'
<1>1. B!Step(Thread) /\ answers' # answers /\ AtJava /\ past' = past
      BY DEF JavaReturns
<1>2. /\ IsSequence(answers)' /\ At' = "idle"
      /\ Inside' \/ jvm' = "absent" => Inside \/ jvm = "absent"
      /\ jvm' = "host" => jvm = "host"
      /\ answers'[Len(answers')].text = B!Copy => Inside /\ jvm' = "gone"
      /\ jvm' = "absent" => bridge[Thread].plugin.fails = "create"
      BY <1>1, MachineStep DEF ShapeInv
<1>3. ~Inside'
      BY <1>2 DEF Inside
<1>4. /\ call.pc = "eval" /\ registry' = registry /\ log' = log
      /\ \E x, k : call' = E!Parsed("parse", x, k)
      /\ answers'[Len(answers')].text # B!Copy =>
            \E k : call' = E!Parsed("parse", E!Null, k)
      BY DEF JavaReturns, E!Evaluate, E!EvaluateNull
<1>5. /\ HasFields(call)' /\ call'.pc = "parse" /\ call'.at = call.at
      /\ answers'[Len(answers')].text # B!Copy => call'.text = E!Null
      BY <1>4, ParsedFields
<1>6. PICK a : /\ Ended' = Append(Ended, [prov |-> call.at, answered |-> a])
               /\ answers'[Len(answers')].text # B!Copy => ~a
  <2>1. Life' = Life
        BY <1>1, <1>4 DEF Life
  <2>2. Ended' = Append(Ended, [prov |-> call.at,
                                answered |-> call'.text # E!Null])
        BY <1>4, <1>5, <2>1, EndsNow
  <2>3. answers'[Len(answers')].text # B!Copy => ~(call'.text # E!Null)
        BY <1>5
  <2> QED BY <2>2, <2>3
<1>7. IsSequence(Ended)
      BY EndedIsSequence
<1>8. ShapeInv'
      BY <1>1, <1>2, <1>4, <1>5, ShapeKept DEF ShapeInv
(* The answer of the first machine.                                         *)
<1>9. CASE answers'[Len(answers')].text = B!Copy
  <2>1. Untouched(Ended) /\ jvm' = "gone"
        BY <1>2, <1>9 DEF MachineInv
  <2>2. FirstAnswers(Append(Ended, [prov |-> call.at, answered |-> a]), jvm')
        BY <1>7, <2>1, FirstNow
  <2>3. FirstAnswers(Ended, jvm)'
        BY <1>4, <1>6, <2>2, AtNextState
  <2> QED BY <1>2, <1>3, <1>8, <2>1, <2>3 DEF MachineInv
(* Every other evaluation.                                                  *)
<1>10. CASE answers'[Len(answers')].text # B!Copy
  <2>1. ~a
        BY <1>6, <1>10
  <2>2. jvm' = "absent" => Untouched(Ended)'
    <3>1. SUFFICES ASSUME jvm' = "absent" PROVE Untouched(Ended)'
          OBVIOUS
    <3>2. Untouched(Ended) /\ bridge[Thread].plugin.fails = "create"
          BY <1>2, <3>1 DEF MachineInv
    <3>3. Plugin(call.at).fails = "create"
          BY <1>1, <3>2, BridgeStep DEF MachineInv
    <3>4. Untouched(Append(Ended, [prov |-> call.at, answered |-> a]))
          BY <1>7, <2>1, <3>2, <3>3, StillUntouched
    <3> QED BY <1>4, <1>6, <3>4, AtNextState
  <2>3. jvm' = "host" => Silent(Ended)'
    <3>1. Silent(Ended) => Silent(Append(Ended, [prov |-> call.at, answered |-> a]))
          BY <1>7, <2>1, StillSilent
    <3> QED BY <1>2, <1>4, <1>6, <3>1, AtNextState DEF MachineInv
  <2>4. FirstAnswers(Ended, jvm)'
    <3>1. FirstAnswers(Ended, jvm')
          BY <1>2, OtherMachine DEF MachineInv
    <3>2. FirstAnswers(Append(Ended, [prov |-> call.at, answered |-> a]), jvm')
          BY <1>7, <2>1, <3>1, StillFirst
    <3> QED BY <1>4, <1>6, <3>2, AtNextState
  <2> QED BY <1>2, <1>3, <1>8, <2>2, <2>3, <2>4 DEF MachineInv
<1> QED BY <1>9, <1>10

LEMMA MachineKept ==
    InsideInv /\ ShapeInv /\ MachineInv /\ [Next]_vars => (ShapeInv /\ MachineInv)'
<1> SUFFICES ASSUME InsideInv, ShapeInv, MachineInv, [Next]_vars
             PROVE  ShapeInv' /\ MachineInv'
    OBVIOUS
<1>1. CASE Request \/ NativeStep
      BY <1>1, MachineRequest, MachineNative
<1>2. CASE EnterJava \/ InJava \/ JavaReturns
      BY <1>2, MachineEnter, MachineInside, MachineReturns
<1>3. CASE JavaThreadEnds \/ UNCHANGED vars
  <2>1. /\ UNCHANGED evaluationVars /\ past' = past /\ answers' = answers
        /\ jvm' = jvm /\ bridge' = bridge
        BY <1>3 DEF JavaThreadEnds, B!JavaThreadEnds, vars, evaluationVars
  <2>2. ShapeInv' /\ Ended' = Ended /\ registry' = registry /\ call' = call
        BY <2>1, EvaluationRests DEF ShapeInv
  <2>3. At' = At /\ (Inside' <=> Inside)
        BY <2>1 DEF At, Inside
  <2>4. At' # "idle" => bridge'[Thread].plugin = Plugin(call.at)'
        BY <2>1, <2>2, <2>3 DEF MachineInv, Plugin
  <2> QED BY <2>1, <2>2, <2>3, <2>4, AtNextState DEF MachineInv
<1> QED BY <1>1, <1>2, <1>3 DEF Next, Step

LEMMA FirstOfEnded == ShapeInv /\ FirstAnswers(Ended, jvm) => FirstMachineAnswers
<1> SUFFICES ASSUME ShapeInv, FirstAnswers(Ended, jvm) PROVE FirstMachineAnswers
    OBVIOUS
<1>1. IsSequence(Life)
      BY LifeFacts DEF ShapeInv, Life, Continues
<1>2. \A e \in DOMAIN Life : e \in DOMAIN Ended /\ Ended[e] = Life[e]
      BY <1>1, AppendFacts, SequenceFacts DEF Ended
<1> QED BY <1>2 DEF FirstAnswers, FirstMachineAnswers

(* Of all Java providers a process runs in its life, on whatever files, the *)
(* one whose evaluation gets the only machine is the only one that answers. *)
THEOREM OneMachineOneAnswer == Spec => []FirstMachineAnswers
<1>1. ShapeInv /\ MachineInv => FirstMachineAnswers
      BY FirstOfEnded DEF MachineInv
<1> QED BY InsideInit, InsideStep, MachineInit, MachineKept, <1>1, PTL DEF Spec
=============================================================================
