-------------------------- MODULE EvaluationProofs ---------------------------
(***************************************************************************)
(* Proofs about Evaluation, for all registries of well-behaved providers,   *)
(* all error codes and all outcomes of the evaluations.                     *)
(***************************************************************************)
EXTENDS Evaluation, TLAPS

LEMMA TextTypes ==
    /\ Malformed \in Texts /\ IllTyped \in Texts /\ NoCode \in Texts
    /\ \A x \in Texts : x.code \in Int /\ x # Null
    /\ Null \notin Texts
<1>1. Malformed \in Texts /\ IllTyped \in Texts /\ NoCode \in Texts
      BY DEF Texts
<1>2. ASSUME NEW x \in Texts PROVE x.code \in Int /\ x.kind # "null"
  <2>1. CASE x \in {Malformed, IllTyped, NoCode}
        BY <2>1 DEF Malformed, IllTyped, NoCode
  <2>2. CASE \E k \in Codes : x = WithCode(k)
        BY <2>2, CodesAssumption DEF WithCode
  <2> QED BY <2>1, <2>2 DEF Texts
<1>3. Null.kind = "null"
      BY DEF Null
<1> QED BY <1>1, <1>2, <1>3

LEMMA RegistryType ==
    ASSUME registry \in Registries
    PROVE  /\ registry \in Seq(Provider)
           /\ Providers = 1..Len(registry) /\ Len(registry) \in Nat
           /\ \A i \in Providers : registry[i] \in Provider /\ WellBehaved(registry[i])
<1>1. registry \in Seq(Provider)
      BY RegistriesAssumption
<1>2. \A i \in DOMAIN registry : registry[i] \in Provider
      BY <1>1
<1> QED BY <1>1, <1>2, RegistriesAssumption DEF Providers

LEMMA IdleType == Idle \in CallType
BY DEF Idle, Called, CallType

(* The updates the steps of a call make keep its type.                      *)
Pcs == {"idle", "next", "eval", "parse", "release", "collect", "done"}

LEMMA CallReads ==
    call \in CallType => /\ call.at \in Nat
                         /\ call.text \in Texts \cup {Null}
                         /\ call.code \in Int
BY DEF CallType

LEMMA NextAt == call \in CallType => call.at + 1 \in Nat
BY CallReads

(* The fields that an update of others leaves alone.                        *)
LEMMA PcAfter ==
    ASSUME call \in CallType, NEW pc, NEW i
    PROVE  /\ [call EXCEPT !.pc = pc].pc = pc
           /\ [call EXCEPT !.pc = pc].at = call.at
           /\ [call EXCEPT !.pc = pc].text = call.text
           /\ [call EXCEPT !.pc = pc].code = call.code
           /\ [call EXCEPT !.at = i].pc = call.pc
           /\ [call EXCEPT !.pc = pc, !.at = i].pc = pc
BY DEF CallType

LEMMA PcsHas ==
    /\ "idle" \in Pcs /\ "next" \in Pcs /\ "eval" \in Pcs /\ "parse" \in Pcs
    /\ "release" \in Pcs /\ "collect" \in Pcs /\ "done" \in Pcs
    /\ 0 \in Int /\ 0 \in Nat /\ 1 \in Nat
BY DEF Pcs

LEMMA SetPc ==
    ASSUME call \in CallType, NEW pc \in Pcs
    PROVE  [call EXCEPT !.pc = pc] \in CallType
BY DEF CallType, Pcs

LEMMA SetAt ==
    ASSUME call \in CallType, NEW i \in Nat
    PROVE  [call EXCEPT !.at = i] \in CallType
BY DEF CallType

LEMMA SetPcAt ==
    ASSUME call \in CallType, NEW i \in Nat
    PROVE  [call EXCEPT !.pc = "next", !.at = i] \in CallType
BY DEF CallType

LEMMA ParsedType ==
    ASSUME call \in CallType, NEW pc \in Pcs, NEW x \in Texts \cup {Null}, NEW k \in Int
    PROVE  Parsed(pc, x, k) \in CallType
BY DEF Parsed, CallType, Pcs

LEMMA CalledType ==
    ASSUME NEW pc \in Pcs, NEW m \in Modalities \cup {"by name"}, NEW i \in Nat,
           NEW k \in Int
    PROVE  Called(pc, m, i, k) \in CallType
BY DEF Called, CallType, Pcs

LEMMA TypeInit == Init => TypeOK
<1> SUFFICES ASSUME Init PROVE TypeOK
    OBVIOUS
<1>1. DOMAIN results = {}
      BY DEF Init
<1>2. heap \in Seq(BufferType) /\ log \in Seq(LogType)
      BY DEF Init
<1> QED BY <1>1, <1>2, IdleType DEF Init, TypeOK

(* Begin leaves empty records behind and a call of the type it was given.   *)
LEMMA TypeBegin ==
    ASSUME TypeOK, NEW c \in CallType, Begin(c)
    PROVE  TypeOK'
<1>1. DOMAIN results' = {}
      BY DEF Begin
<1>2. heap' \in Seq(BufferType) /\ log' \in Seq(LogType)
      BY DEF Begin
<1> QED BY <1>1, <1>2 DEF Begin, TypeOK, Providers

(* Recording a string, and releasing the last one.                          *)
LEMMA FreedType ==
    ASSUME NEW b \in BufferType
    PROVE  Freed(b) \in BufferType
BY DEF Freed, BufferType

LEMMA InsertedType ==
    ASSUME TypeOK, NEW i \in Providers
    PROVE  /\ DOMAIN Inserted(i) \subseteq Names
           /\ \A n \in DOMAIN Inserted(i) : Inserted(i)[n] \in Providers
<1>1. registry[i] \in Provider
      BY RegistryType DEF TypeOK
<1>2. registry[i].name \in Names
      BY <1>1 DEF Provider
<1> QED BY <1>2 DEF TypeOK, Inserted

LEMMA TypeStep == TypeOK /\ AtProvider /\ [Next]_vars => TypeOK'
<1> SUFFICES ASSUME TypeOK, AtProvider, [Next]_vars PROVE TypeOK'
    OBVIOUS
<1>0. /\ call \in CallType /\ registry \in Registries
      /\ heap \in Seq(BufferType) /\ log \in Seq(LogType)
      BY DEF TypeOK
<1>a. Providers \subseteq Nat
      BY <1>0, RegistryType
<1>1. ASSUME NEW m \in Modalities, RunModality(m) PROVE TypeOK'
  <2>1. Called("next", m, 1, 0) \in CallType
        BY CalledType, PcsHas
  <2> QED BY <1>1, <2>1, TypeBegin DEF RunModality
<1>2. ASSUME NEW n \in Names, RunProvider(n) PROVE TypeOK'
  <2>1. PICK i \in Providers : Begin(Called("eval", "by name", i, 0))
        BY <1>2 DEF RunProvider
  <2>2. Called("eval", "by name", i, 0) \in CallType
        BY <1>a, CalledType, PcsHas
  <2> QED BY <2>1, <2>2, TypeBegin
<1>3. ASSUME NEW n \in Names, RunUnknown(n) PROVE TypeOK'
  <2>1. PICK g \in Garbage : Begin(Called("done", "by name", 0, g))
        BY <1>3 DEF RunUnknown
  <2>2. Called("done", "by name", 0, g) \in CallType
        BY CodesAssumption, CalledType, PcsHas
  <2> QED BY <2>1, <2>2, TypeBegin
<1>4. ASSUME call' \in CallType, registry' = registry, heap' = heap,
             results' = results, log' = log
      PROVE  TypeOK'
      BY <1>4 DEF TypeOK, Providers
<1>5. CASE Consider
  <2>1. call' \in CallType
        BY <1>0, <1>5, NextAt, PcsHas, SetPc, SetAt DEF Consider
  <2> QED BY <1>4, <1>5, <2>1 DEF Consider
<1>6. ASSUME NEW x \in Texts, Evaluate(x) PROVE TypeOK'
  <2>1. call' \in CallType
        BY <1>0, <1>6, ParsedType, PcsHas DEF Evaluate
  <2>2. [by |-> call.at, state |-> "live"] \in BufferType
        BY <1>0, CallReads DEF BufferType
  <2>3. heap' \in Seq(BufferType)
        BY <1>0, <1>6, <2>2 DEF Evaluate
  <2> QED BY <1>6, <2>1, <2>3 DEF Evaluate, TypeOK, Providers
<1>7. CASE EvaluateNull \/ EvaluateThrows \/ Deserialize \/ DeserializeThrows
           \/ Deliver \/ Return
  <2>1. \A k \in Int : CaughtCode(k) \in Int
        BY DEF CaughtCode
  <2>2. \A x \in Texts \cup {Null} : ParsedCode(x) \in Int
        BY TextTypes DEF ParsedCode, Null
  <2>3. call.text \in Texts \cup {Null} /\ call.code \in Int
        BY <1>0, CallReads
  <2>4. call' \in CallType
    <3>1. CASE EvaluateNull
          BY <1>0, <3>1, ParsedType, PcsHas DEF EvaluateNull
    <3>2. CASE EvaluateThrows
          BY <1>0, <2>1, <3>2, ParsedType, PcsHas DEF EvaluateThrows
    <3>3. CASE Deserialize
          BY <1>0, <2>2, <2>3, <3>3, ParsedType, PcsHas DEF Deserialize
    <3>4. CASE DeserializeThrows
          BY <1>0, <2>1, <2>3, <3>4, ParsedType, PcsHas DEF DeserializeThrows
    <3>5. CASE Deliver \/ Return
          BY <1>0, <3>5, SetPc, PcsHas DEF Deliver, Return
    <3> QED BY <1>7, <3>1, <3>2, <3>3, <3>4, <3>5
  <2> QED BY <1>4, <1>7, <2>4
          DEF EvaluateNull, EvaluateThrows, Deserialize, DeserializeThrows,
              Deliver, Return
<1>8. CASE Release
  <2>1. call' \in CallType
        BY <1>0, <1>8, SetPc, PcsHas DEF Release
  <2>2. [prov |-> call.at, text |-> call.text] \in LogType
        BY <1>0, CallReads DEF LogType
  <2>3. log' \in Seq(LogType)
        BY <1>0, <1>8, <2>2 DEF Release
  <2>4. heap' \in Seq(BufferType)
    <3>1. CASE heap' = heap
          BY <1>0, <3>1
    <3>2. CASE heap' = [heap EXCEPT ![Len(heap)] = Freed(@)]
      <4>1. \A b \in DOMAIN heap : heap[b] \in BufferType /\ Freed(heap[b]) \in BufferType
            BY <1>0, FreedType
      <4>2. DOMAIN heap = 1..Len(heap) /\ Len(heap) \in Nat
            BY <1>0
      <4>3. heap' \in [1..Len(heap) -> BufferType]
            BY <3>2, <4>1, <4>2
      <4> QED BY <4>2, <4>3
    <3> QED BY <1>8, <3>1, <3>2 DEF Release
  <2> QED BY <1>8, <2>1, <2>3, <2>4 DEF Release, TypeOK, Providers
<1>9. CASE Collect
  <2>1. call' \in CallType
        BY <1>0, <1>9, NextAt, SetPcAt DEF Collect
  <2>2. call.at \in Providers
        BY <1>9 DEF Collect, AtProvider
  <2>3. \/ results' = results
        \/ results' = Inserted(call.at)
        BY <1>9 DEF Collect
  <2> QED BY <1>9, <2>1, <2>2, <2>3, InsertedType DEF Collect, TypeOK, Providers
<1>10. CASE UNCHANGED vars
       BY <1>4, <1>0, <1>10 DEF vars
<1> QED BY <1>1, <1>2, <1>3, <1>5, <1>6, <1>7, <1>8, <1>9, <1>10
        DEF Next, Step, Request

-----------------------------------------------------------------------------
(* The strings providers return.                                            *)

LEMMA StringInit == Init => StringInv
<1> SUFFICES ASSUME Init PROVE StringInv
    OBVIOUS
<1>1. call.pc = "idle" /\ heap = <<>>
      BY DEF Init, Idle, Called
<1> QED BY <1>1 DEF StringInv, AtProvider, Holding

(* Releasing the string in hand frees it: a provider whose string is not    *)
(* from new[] is native and exports provider_free.                          *)
LEMMA FreedRight ==
    ASSUME TypeOK, NEW i \in Providers
    PROVE  Freed([by |-> i, state |-> "live"]) = [by |-> i, state |-> "freed"]
<1>1. registry[i] \in Provider /\ WellBehaved(registry[i])
      BY RegistryType DEF TypeOK
<1>2. FreesItself(registry[i]) \/ registry[i].alloc = "array"
      BY <1>1 DEF WellBehaved, FreesItself, Provider
<1> QED BY <1>2 DEF Freed

(* The three ways a call begins.                                            *)
LEMMA Requested ==
    ASSUME Request
    PROVE  /\ call'.pc \in {"next", "eval", "done"}
           /\ call'.pc = "eval" => call'.at \in Providers
           /\ heap' = <<>> /\ log' = <<>> /\ registry' = registry
<1>1. ASSUME NEW m \in Modalities, RunModality(m)
      PROVE  /\ call' = Called("next", m, 1, 0)
             /\ heap' = <<>> /\ log' = <<>> /\ registry' = registry
      BY <1>1 DEF RunModality, Begin
<1>2. ASSUME NEW n \in Names, RunProvider(n)
      PROVE  /\ \E i \in Providers : call' = Called("eval", "by name", i, 0)
             /\ heap' = <<>> /\ log' = <<>> /\ registry' = registry
      BY <1>2 DEF RunProvider, Begin
<1>3. ASSUME NEW n \in Names, RunUnknown(n)
      PROVE  /\ \E g \in Garbage : call' = Called("done", "by name", 0, g)
             /\ heap' = <<>> /\ log' = <<>> /\ registry' = registry
      BY <1>3 DEF RunUnknown, Begin
<1>4. /\ \A m : Called("next", m, 1, 0).pc = "next"
      /\ \A i : /\ Called("eval", "by name", i, 0).pc = "eval"
               /\ Called("eval", "by name", i, 0).at = i
      /\ \A g : Called("done", "by name", 0, g).pc = "done"
      BY DEF Called
<1> QED BY <1>1, <1>2, <1>3, <1>4 DEF Request

LEMMA StringStep == TypeOK /\ StringInv /\ [Next]_vars => StringInv'
<1> SUFFICES ASSUME TypeOK, StringInv, [Next]_vars PROVE StringInv'
    OBVIOUS
<1>0. /\ heap \in Seq(BufferType) /\ call \in CallType
      /\ DOMAIN heap = 1..Len(heap) /\ Len(heap) \in Nat
      BY DEF TypeOK
<1>1. ASSUME Request PROVE StringInv'
  <2>1. /\ call'.pc \in {"next", "eval", "done"}
        /\ call'.pc = "eval" => call'.at \in Providers
        /\ heap' = <<>> /\ registry' = registry
        BY <1>1, Requested
  <2> QED BY <2>1 DEF StringInv, AtProvider, Holding, Providers
(* Steps that leave the heap and Holding alone.                             *)
<1>2. ASSUME heap' = heap, registry' = registry, call'.at = call.at,
             Holding' <=> Holding,
             call'.pc \in {"eval", "parse", "release", "collect"} => AtProvider'
      PROVE  StringInv'
      BY <1>2 DEF StringInv, AtProvider
<1>3. CASE Consider
  <2>1. ~Holding /\ ~Holding' /\ heap' = heap
        BY <1>0, <1>3 DEF Consider, Holding, CallType
  <2>2. AtProvider'
        BY <1>0, <1>3 DEF Consider, AtProvider, CallType, Providers
  <2> QED BY <2>1, <2>2 DEF StringInv
<1>4. ASSUME NEW x \in Texts, Evaluate(x) PROVE StringInv'
  <2> DEFINE b == [by |-> call.at, state |-> "live"]
  <2>1. b \in BufferType
        BY <1>0, CallReads DEF BufferType
  <2>2. heap' = Append(heap, b) /\ registry' = registry
        BY <1>4 DEF Evaluate
  <2>3. call'.pc = "parse" /\ call'.text = x /\ call'.at = call.at
        BY <1>4 DEF Evaluate, Parsed
  <2>4. x # Null
        BY TextTypes
  <2>5. \A h \in DOMAIN heap : heap[h].state = "freed"
        BY <1>4 DEF StringInv, Holding, Evaluate
  <2> HIDE DEF b
  <2>6. /\ DOMAIN heap' = 1..(Len(heap) + 1) /\ Len(heap') = Len(heap) + 1
        /\ \A h \in 1..Len(heap) : heap'[h] = heap[h]
        /\ heap'[Len(heap) + 1] = b
        BY <1>0, <2>1, <2>2
  <2>7. AtProvider'
        BY <1>4, <2>2, <2>3 DEF StringInv, AtProvider, Evaluate, Providers
  <2>8. \A h \in DOMAIN heap' : heap'[h].state = "freed" \/ h = Len(heap')
        BY <1>0, <2>5, <2>6
  <2>9. heap' # <<>> /\ heap'[Len(heap')] = [by |-> call'.at, state |-> "live"]
        BY <1>0, <2>3, <2>6 DEF b
  <2> QED BY <2>3, <2>4, <2>7, <2>8, <2>9 DEF StringInv, Holding
<1>5. CASE EvaluateNull \/ EvaluateThrows
  <2>1. /\ call.pc = "eval" /\ call'.text = Null /\ call'.at = call.at
        /\ heap' = heap /\ registry' = registry
        BY <1>5 DEF EvaluateNull, EvaluateThrows, Parsed
  <2> QED BY <2>1 DEF StringInv, AtProvider, Holding, Providers
<1>6. CASE Deserialize \/ DeserializeThrows
  <2>1. /\ call.pc = "parse" /\ call'.pc = "release"
        /\ call'.text = call.text /\ call'.at = call.at
        /\ heap' = heap /\ registry' = registry
        BY <1>6 DEF Deserialize, DeserializeThrows, Parsed
  <2> QED BY <2>1 DEF StringInv, AtProvider, Holding, Providers
<1>7. CASE Release
  <2>1. /\ call.pc = "release" /\ call'.pc = "collect" /\ call'.at = call.at
        /\ registry' = registry
        BY <1>0, <1>7 DEF Release, CallType
  <2>2. AtProvider' /\ ~Holding'
        BY <2>1 DEF StringInv, AtProvider, Holding, Providers
  <2>3. CASE call.text = Null
        BY <1>7, <2>2, <2>3 DEF Release, StringInv, Holding
  <2>4. CASE call.text # Null
    <3>1. /\ heap # <<>>
          /\ heap[Len(heap)] = [by |-> call.at, state |-> "live"]
          /\ call.at \in Providers
          BY <2>1, <2>4 DEF StringInv, AtProvider, Holding
    <3>2. heap' = [heap EXCEPT ![Len(heap)] = Freed(heap[Len(heap)])]
          BY <1>7, <2>4 DEF Release
    <3>3. Freed(heap[Len(heap)]).state = "freed"
      <4>1. Freed([by |-> call.at, state |-> "live"]) = [by |-> call.at, state |-> "freed"]
            BY <3>1, FreedRight
      <4> QED BY <3>1, <4>1
    <3>4. \A h \in DOMAIN heap : h # Len(heap) => heap[h].state = "freed"
          BY DEF StringInv
    <3>5. \A h \in DOMAIN heap' : heap'[h].state = "freed"
          BY <1>0, <3>2, <3>3, <3>4
    <3> QED BY <2>2, <3>5 DEF StringInv
  <2> QED BY <2>3, <2>4
<1>8. CASE Collect \/ Deliver \/ Return
  <2>1. ~Holding /\ heap' = heap
        BY <1>8 DEF Collect, Deliver, Return, Holding
  <2>2. call'.pc \in {"next", "done", "idle"}
    <3>1. CASE Collect
          BY <1>0, <3>1 DEF Collect, CallType
    <3>2. CASE Deliver
          BY <1>0, <3>2 DEF Deliver, CallType
    <3>3. CASE Return
          BY <1>0, <3>3 DEF Return, CallType
    <3> QED BY <1>8, <3>1, <3>2, <3>3
  <2> QED BY <2>1, <2>2 DEF StringInv, AtProvider, Holding
<1>9. CASE UNCHANGED vars
      BY <1>9 DEF vars, StringInv, AtProvider, Holding, Providers
<1> QED BY <1>1, <1>3, <1>4, <1>5, <1>6, <1>7, <1>8, <1>9 DEF Next, Step

LEMMA StringsFreed == StringInv => EveryStringFreedOnce
BY DEF StringInv, EveryStringFreedOnce, Holding

LEMMA TypeAndStrings == Spec => [](TypeOK /\ StringInv)
<1>1. TypeOK /\ StringInv /\ [Next]_vars => (TypeOK /\ StringInv)'
      BY TypeStep, StringStep DEF StringInv
<1> QED BY TypeInit, StringInit, <1>1, PTL DEF Spec

(* Evaluation's state always has its declared type.                         *)
THEOREM TypeCorrect == Spec => []TypeOK
BY TypeAndStrings, PTL

(* Every string a provider returned is released once, by the deallocator    *)
(* that matches its allocation.                                             *)
THEOREM StringsReleased == Spec => []EveryStringFreedOnce
BY TypeAndStrings, StringsFreed, PTL

-----------------------------------------------------------------------------
(* Error codes.                                                             *)

LEMMA CodeInit == Init => CodeInv
<1> SUFFICES ASSUME Init PROVE CodeInv
    OBVIOUS
<1>1. call.pc = "idle"
      BY DEF Init, Idle, Called
<1> QED BY <1>1 DEF CodeInv, CodeTellsSuccess

(* What the branches of deserializeResult and of the catch block report.    *)
LEMMA ParsedRight ==
    ASSUME NEW x \in Texts \cup {Null}, x # IllTyped
    PROVE  ParsedCode(x) = 0 <=> SuccessText(x)
<1>1. CASE x \in {Null, Malformed}
      BY <1>1 DEF ParsedCode, SuccessText, Null, Malformed
<1>2. CASE x = NoCode
      BY <1>2 DEF ParsedCode, SuccessText, Null, Malformed, NoCode
<1>3. CASE \E k \in Codes : x = WithCode(k)
      BY <1>3 DEF ParsedCode, SuccessText, Null, Malformed, WithCode
<1> QED BY <1>1, <1>2, <1>3 DEF Texts

LEMMA CaughtRight == \A k : CaughtCode(k) # 0 /\ ~SuccessText(IllTyped) /\ ~SuccessText(Null)
BY DEF CaughtCode, SuccessText, IllTyped, Null

LEMMA CodeStep == TypeOK /\ CodeInv /\ [Next]_vars => CodeInv'
<1> SUFFICES ASSUME TypeOK, CodeInv, [Next]_vars PROVE CodeInv'
    OBVIOUS
<1>0. call \in CallType /\ log \in Seq(LogType)
      BY DEF TypeOK
(* Before release there is nothing to show.                                 *)
<1>1. ASSUME call'.pc \in {"idle", "next", "eval", "parse"} PROVE CodeInv'
      BY <1>1 DEF CodeInv, CodeTellsSuccess
<1>2. ASSUME call'.pc = "release", call'.code = 0 <=> SuccessText(call'.text)
      PROVE  CodeInv'
      BY <1>2 DEF CodeInv, CodeTellsSuccess
<1>3. CASE Request
  <2>1. call'.pc \in {"next", "eval", "done"} /\ log' = <<>>
        BY <1>3, Requested
  <2> QED BY <2>1 DEF CodeInv, CodeTellsSuccess
<1>4. ASSUME Consider \/ (\E x \in Texts : Evaluate(x)) \/ EvaluateNull
             \/ Collect \/ Return
      PROVE  CodeInv'
  <2>1. call'.pc \in {"idle", "next", "eval", "parse"}
    <3>1. CASE Consider
          BY <1>0, <3>1, PcAfter DEF Consider
    <3>2. CASE (\E x \in Texts : Evaluate(x)) \/ EvaluateNull
          BY <3>2 DEF Evaluate, EvaluateNull, Parsed
    <3>3. CASE Collect
          BY <1>0, <3>3 DEF Collect, CallType
    <3>4. CASE Return
          BY <1>0, <3>4 DEF Return, CallType
    <3> QED BY <1>4, <3>1, <3>2, <3>3, <3>4
  <2> QED BY <1>1, <2>1
<1>5. CASE EvaluateThrows
      BY <1>2, <1>5, CaughtRight DEF EvaluateThrows, Parsed
<1>6. CASE Deserialize
  <2>1. call.text \in Texts \cup {Null} /\ call.text # IllTyped
        BY <1>0, <1>6, CallReads DEF Deserialize
  <2> QED BY <1>2, <1>6, <2>1, ParsedRight DEF Deserialize, Parsed
<1>7. CASE DeserializeThrows
      BY <1>2, <1>7, CaughtRight DEF DeserializeThrows, Parsed
<1>8. CASE Release
  <2> DEFINE e == [prov |-> call.at, text |-> call.text]
  <2>1. /\ call.pc = "release" /\ call'.pc = "collect"
        /\ call'.text = call.text /\ call'.code = call.code
        BY <1>0, <1>8 DEF Release, CallType
  <2>2. log' = Append(log, e) /\ e \in LogType
        BY <1>0, <1>8, CallReads DEF Release, LogType
  <2>3. e.text = call.text
        OBVIOUS
  <2> HIDE DEF e
  <2>4. log' # <<>> /\ log'[Len(log')] = e
        BY <1>0, <2>2
  <2>5. call.code = 0 <=> SuccessText(call.text)
        BY <2>1 DEF CodeInv
  <2> QED BY <2>1, <2>3, <2>4, <2>5 DEF CodeInv, CodeTellsSuccess, Succeeded
<1>9. CASE Deliver
  <2>1. call.pc = "collect" /\ call'.pc = "done" /\ call'.code = call.code /\ log' = log
        BY <1>0, <1>9 DEF Deliver, CallType
  <2> QED BY <2>1 DEF CodeInv, CodeTellsSuccess
<1>10. CASE UNCHANGED vars
       BY <1>10 DEF vars, CodeInv, CodeTellsSuccess
<1> QED BY <1>3, <1>4, <1>5, <1>6, <1>7, <1>8, <1>9, <1>10 DEF Next, Step

(* No failure inside a provider or in parsing its answer is reported as a   *)
(* success, and no success as a failure.                                    *)
THEOREM CodesAreRight == Spec => []CodeTellsSuccess
<1>1. CodeInv => CodeTellsSuccess
      BY DEF CodeInv
<1> QED BY TypeAndStrings, CodeInit, CodeStep, <1>1, PTL DEF Spec
-----------------------------------------------------------------------------
(* The loop of runModality.                                                 *)

LEMMA LoopInit == Init => LoopInv
<1> SUFFICES ASSUME Init PROVE LoopInv
    OBVIOUS
<1>1. call.modality = "by name"
      BY DEF Init, Idle, Called
<1> QED BY <1>1 DEF LoopInv

(* The steps of one evaluation keep the place and the records.              *)
LEMMA LoopKeep ==
    ASSUME LoopInv,
           call.pc \in {"eval", "parse", "release"},
           call'.pc \in {"eval", "parse", "release"},
           call'.at = call.at, call'.modality = call.modality,
           registry' = registry, results' = results, log' = log
    PROVE  LoopInv'
<1>1. SUFFICES ASSUME call.modality # "by name", PlaceInv, LogInv, MapInv
               PROVE  PlaceInv' /\ LogInv' /\ MapInv'
      BY DEF LoopInv
<1>2. PlaceInv'
      BY <1>1 DEF PlaceInv
<1>3. LogInv'
      BY <1>1 DEF LogInv, Reached, Providers
<1>4. MapInv'
      BY <1>1 DEF MapInv, Wins
<1> QED BY <1>2, <1>3, <1>4

LEMMA LoopRequest ==
    ASSUME TypeOK, Request
    PROVE  LoopInv'
<1>1. ASSUME NEW m \in Modalities, RunModality(m) PROVE LoopInv'
  <2>1. call'.pc = "next" /\ call'.at = 1
        BY <1>1 DEF RunModality, Begin, Called
  <2>2. log' = <<>> /\ results' = <<>> /\ registry' = registry
        BY <1>1 DEF RunModality, Begin
  <2>3. PlaceInv'
        BY <2>1 DEF PlaceInv
  <2>4. \A i \in Providers' : ~Reached(i)'
    <3>1. Providers' = 1..Len(registry) /\ Len(registry) \in Nat
          BY <2>2, RegistryType DEF TypeOK, Providers
    <3> QED BY <2>1, <3>1 DEF Reached
  <2>5. LogInv'
        BY <2>2, <2>4 DEF LogInv
  <2>6. MapInv'
        BY <2>2 DEF MapInv
  <2> QED BY <2>3, <2>5, <2>6 DEF LoopInv
<1>2. ASSUME NEW n \in Names, RunProvider(n) \/ RunUnknown(n) PROVE LoopInv'
  <2>1. \E i, k : call' = Called("eval", "by name", i, k)
                     \/ call' = Called("done", "by name", i, k)
        BY <1>2 DEF RunProvider, RunUnknown, Begin
  <2>2. \A i, k : /\ Called("eval", "by name", i, k).modality = "by name"
                   /\ Called("done", "by name", i, k).modality = "by name"
        BY DEF Called
  <2>3. call'.modality = "by name"
        BY <2>1, <2>2
  <2> QED BY <2>3 DEF LoopInv
<1> QED BY <1>1, <1>2 DEF Request

LEMMA LoopConsider ==
    ASSUME TypeOK, LoopInv, Consider
    PROVE  LoopInv'
<1>0. /\ call \in CallType /\ call.at \in Nat
      /\ Providers = 1..Len(registry) /\ Len(registry) \in Nat
      BY RegistryType, CallReads DEF TypeOK
<1>1. /\ call.pc = "next" /\ call.at \in Providers
      /\ registry' = registry /\ results' = results /\ log' = log
      /\ Providers' = Providers
      BY DEF Consider, Providers
<1>2. call'.modality = call.modality
      BY <1>0 DEF Consider, CallType
<1>3. SUFFICES ASSUME call.modality # "by name", PlaceInv, LogInv, MapInv
               PROVE  PlaceInv' /\ LogInv' /\ MapInv'
      BY <1>2 DEF LoopInv
<1>4. CASE registry[call.at].modality = call.modality
  <2>1. call'.pc = "eval" /\ call'.at = call.at
        BY <1>0, <1>4 DEF Consider, CallType
  <2>2. PlaceInv'
        BY <1>1, <1>2, <1>3, <1>4, <2>1 DEF PlaceInv
  <2>3. LogInv'
        BY <1>1, <1>2, <1>3, <2>1 DEF LogInv, Reached
  <2>4. MapInv'
        BY <1>1, <1>3, <2>1 DEF MapInv, Wins
  <2> QED BY <2>2, <2>3, <2>4
<1>5. CASE registry[call.at].modality # call.modality
  <2>1. call'.pc = "next" /\ call'.at = call.at + 1
        BY <1>0, <1>1, <1>5 DEF Consider, CallType
  <2>2. PlaceInv'
        BY <1>0, <2>1 DEF PlaceInv
  <2>3. \A i \in Providers : Reached(i)' <=> Reached(i) \/ i = call.at
        BY <1>0, <1>1, <2>1 DEF Reached
  <2>4. \A e \in DOMAIN log :
            /\ log[e].prov \in Providers /\ log[e].prov < call.at
            /\ Reached(log[e].prov)
        BY <1>1, <1>3 DEF LogInv, Reached
  <2>5. LogInv'
    <3>1. \A e \in DOMAIN log : Reached(log[e].prov)'
          BY <1>0, <1>1, <2>1, <2>4 DEF Reached
    <3> QED BY <1>1, <1>2, <1>3, <1>5, <2>3, <2>4, <3>1 DEF LogInv
  <2>6. \A e \in DOMAIN log, n \in Names : Wins(e, n)' <=> Wins(e, n)
    <3>1. \A e \in DOMAIN log : log[e].prov < call'.at
          BY <1>0, <2>1, <2>4
    <3> QED BY <1>1, <2>4, <3>1 DEF Wins
  <2>7. DOMAIN results \subseteq Names
        BY DEF TypeOK
  <2>8. MapInv'
        BY <1>1, <1>3, <2>6, <2>7 DEF MapInv
  <2> QED BY <2>2, <2>5, <2>8
<1> QED BY <1>4, <1>5

(* The evaluation of the provider the loop is at is recorded last.          *)
LEMMA LoopRelease ==
    ASSUME TypeOK, StringInv, LoopInv, Release
    PROVE  LoopInv'
<1> DEFINE e1 == [prov |-> call.at, text |-> call.text]
<1>a. PICK n1 : n1 = Len(log) + 1
      OBVIOUS
<1>0. /\ call \in CallType /\ call.at \in Nat
      /\ log \in Seq(LogType)
      /\ Providers = 1..Len(registry) /\ Len(registry) \in Nat
      BY RegistryType, CallReads DEF TypeOK
<1>1. /\ call.pc = "release" /\ call.at \in Providers
      /\ registry' = registry /\ results' = results
      /\ Providers' = Providers
      BY DEF Release, StringInv, AtProvider, Providers
<1>2. /\ call'.pc = "collect" /\ call'.at = call.at
      /\ call'.modality = call.modality
      BY <1>0 DEF Release, CallType
<1>3. e1 \in LogType /\ e1.prov = call.at /\ log' = Append(log, e1)
      BY CallReads DEF LogType, Release, TypeOK
<1> HIDE DEF e1
<1>4. /\ DOMAIN log = 1..Len(log) /\ Len(log) \in Nat
      /\ DOMAIN log' = 1..n1 /\ Len(log') = n1
      /\ \A e \in 1..Len(log) : log'[e] = log[e]
      /\ log'[n1] = e1
      BY <1>0, <1>3, <1>a
<1>5. SUFFICES ASSUME call.modality # "by name", PlaceInv, LogInv, MapInv
               PROVE  PlaceInv' /\ LogInv' /\ MapInv'
      BY <1>2 DEF LoopInv
<1>6. registry[call.at].modality = call.modality
      BY <1>1, <1>5 DEF PlaceInv
<1>7. PlaceInv'
  <2>1. log' # <<>> /\ log'[Len(log')].prov = call'.at
        BY <1>2, <1>3, <1>4
  <2> QED BY <1>0, <1>1, <1>2, <1>5, <1>6, <2>1 DEF PlaceInv
<1>8. \A i \in Providers : Reached(i)' <=> Reached(i) \/ i = call.at
      BY <1>0, <1>1, <1>2 DEF Reached
<1>9. \A e \in DOMAIN log : log[e].prov \in Providers /\ log[e].prov < call.at
      BY <1>1, <1>5 DEF LogInv, Reached
<1>10. LogInv'
  <2>1. ASSUME NEW e \in DOMAIN log', NEW f \in DOMAIN log', e < f
        PROVE  log'[e].prov < log'[f].prov
    <3>1. e \in DOMAIN log
          BY <1>4, <1>a, <2>1
    <3>2. CASE f \in DOMAIN log
      <4>1. log[e].prov < log[f].prov
            BY <1>5, <2>1, <3>1, <3>2 DEF LogInv
      <4> QED BY <1>4, <3>1, <3>2, <4>1
    <3>3. CASE f = n1
          BY <1>3, <1>4, <1>9, <3>1, <3>3
    <3> QED BY <1>4, <1>a, <3>2, <3>3
  <2>2. ASSUME NEW e \in DOMAIN log'
        PROVE  /\ log'[e].prov \in Providers'
               /\ Reached(log[e].prov)'
               /\ registry'[log'[e].prov].modality = call'.modality
    <3>1. PICK i \in Providers :
             /\ i = log'[e].prov
             /\ \/ i = call.at
                \/ e \in DOMAIN log /\ i = log[e].prov
      <4>1. CASE e = n1
            BY <1>1, <1>3, <1>4, <4>1
      <4>2. CASE e \in DOMAIN log
            BY <1>4, <1>9, <4>2
      <4> QED BY <1>4, <1>a, <4>1, <4>2
    <3>2. Reached(i)'
          BY <1>8, <1>5, <3>1 DEF LogInv
    <3>3. registry[i].modality = call.modality
          BY <1>5, <1>6, <3>1 DEF LogInv
    <3>4. Reached(log[e].prov)'
          BY <3>1, <3>2 DEF Reached
    <3> QED BY <1>1, <1>2, <3>1, <3>3, <3>4
  <2>3. ASSUME NEW i \in Providers', Reached(i)',
               registry'[i].modality = call'.modality
        PROVE  \E e \in DOMAIN log' : log'[e].prov = i
    <3>1. CASE i = call.at
          BY <1>3, <1>4, <1>a, <3>1
    <3>2. CASE Reached(i)
      <4>1. PICK e \in DOMAIN log : log[e].prov = i
            BY <1>1, <1>2, <1>5, <2>3, <3>2 DEF LogInv
      <4> QED BY <1>4, <1>a, <4>1
    <3> QED BY <1>1, <1>8, <2>3, <3>1, <3>2
  <2> QED BY <2>1, <2>2, <2>3 DEF LogInv
<1>11. \A e \in DOMAIN log, n \in Names : Wins(e, n)' <=> Wins(e, n)
       BY <1>1, <1>2, <1>4 DEF Wins, Succeeded
<1>12. \A n \in Names : ~Wins(n1, n)'
       BY <1>0, <1>2, <1>3, <1>4 DEF Wins
<1>13. MapInv'
  <2>1. DOMAIN results \subseteq Names
        BY DEF TypeOK
  <2>2. ASSUME NEW n \in DOMAIN results
        PROVE  \E e \in DOMAIN log' : Wins(e, n)' /\ results[n] = log'[e].prov
    <3>1. PICK e \in DOMAIN log : Wins(e, n) /\ results[n] = log[e].prov
          BY <1>5 DEF MapInv
    <3> QED BY <1>4, <1>11, <1>a, <2>1, <3>1
  <2>3. ASSUME NEW e \in DOMAIN log', NEW n \in Names, Wins(e, n)'
        PROVE  n \in DOMAIN results /\ results[n] <= log'[e].prov
    <3>1. e \in DOMAIN log
          BY <1>4, <1>12, <1>a, <2>3
    <3> QED BY <1>4, <1>5, <1>11, <2>3, <3>1 DEF MapInv
  <2> QED BY <1>1, <2>2, <2>3 DEF MapInv
<1> QED BY <1>7, <1>10, <1>13

(* std::map::insert: the first success under a name stays.                  *)
LEMMA LoopCollect ==
    ASSUME TypeOK, StringInv, CodeInv, LoopInv, Collect
    PROVE  LoopInv'
<1>a. PICK e1 : e1 = Len(log)
      OBVIOUS
<1>0. /\ call \in CallType /\ call.at \in Nat
      /\ log \in Seq(LogType) /\ DOMAIN log = 1..Len(log) /\ Len(log) \in Nat
      /\ Providers = 1..Len(registry) /\ Len(registry) \in Nat
      /\ DOMAIN results \subseteq Names
      BY RegistryType, CallReads DEF TypeOK
<1>1. /\ call.pc = "collect" /\ call.at \in Providers
      /\ registry' = registry /\ log' = log /\ Providers' = Providers
      BY DEF Collect, StringInv, AtProvider, Providers
<1>2. /\ call'.pc = "next" /\ call'.at = call.at + 1
      /\ call'.modality = call.modality
      BY <1>0 DEF Collect, CallType
<1>3. SUFFICES ASSUME call.modality # "by name", PlaceInv, LogInv, MapInv
               PROVE  PlaceInv' /\ LogInv' /\ MapInv'
      BY <1>2 DEF LoopInv
<1>4. PlaceInv'
      BY <1>0, <1>2 DEF PlaceInv
<1>5. \A i \in Providers : Reached(i)' <=> Reached(i)
      BY <1>0, <1>1, <1>2 DEF Reached
<1>6. LogInv'
  <2>1. \A e \in DOMAIN log : Reached(log[e].prov)'
    <3>1. \A e \in DOMAIN log : log[e].prov \in Providers /\ Reached(log[e].prov)
          BY <1>3 DEF LogInv
    <3> QED BY <1>0, <1>1, <1>2, <3>1 DEF Reached
  <2> QED BY <1>1, <1>2, <1>3, <1>5, <2>1 DEF LogInv
<1>7. /\ e1 \in DOMAIN log /\ log[e1].prov = call.at
      /\ log[e1].text = call.text
      /\ call.code = 0 <=> Succeeded(log[e1])
  <2>1. log # <<>> /\ log[Len(log)].prov = call.at
        BY <1>1, <1>3 DEF PlaceInv
  <2>2. /\ log[Len(log)].text = call.text
        /\ call.code = 0 <=> SuccessText(call.text)
        BY <1>1 DEF CodeInv
  <2>3. Len(log) \in DOMAIN log
        BY <1>0, <2>1
  <2>4. SuccessText(log[e1].text) <=> SuccessText(call.text)
        BY <1>a, <2>2
  <2>5. e1 \in DOMAIN log /\ log[e1].prov = call.at /\ log[e1].text = call.text
        BY <1>a, <2>1, <2>2, <2>3
  <2> QED BY <2>2, <2>4, <2>5 DEF Succeeded
<1>8. \A e \in DOMAIN log : e # e1 => log[e].prov < call.at
  <2>1. \A e \in DOMAIN log : e # e1 => e < e1
        BY <1>0, <1>a
  <2>2. \A e, f \in DOMAIN log : e < f => log[e].prov < log[f].prov
        BY <1>3 DEF LogInv
  <2> QED BY <1>7, <2>1, <2>2
<1>9. PICK n1 \in Names : n1 = registry[call.at].name
  <2>1. registry[call.at] \in Provider
        BY <1>1, RegistryType DEF TypeOK
  <2> QED BY <2>1 DEF Provider
<1>10. \A e \in DOMAIN log, n \in Names : e # e1 => (Wins(e, n)' <=> Wins(e, n))
  <2>1. \A e \in DOMAIN log : e # e1 => log[e].prov < call'.at
    <3>1. \A e \in DOMAIN log : log[e].prov \in Providers
          BY <1>3 DEF LogInv
    <3> QED BY <1>0, <1>2, <1>8, <3>1
  <2> QED BY <1>1, <1>8, <2>1 DEF Wins
<1>11. \A n \in Names : /\ ~Wins(e1, n)
                        /\ Wins(e1, n)' <=> call.code = 0 /\ n = n1
  <2>1. log[e1].prov < call'.at /\ ~(log[e1].prov < call.at)
        BY <1>0, <1>2, <1>7
  <2> QED BY <1>1, <1>7, <1>9, <2>1 DEF Wins
<1>12. ASSUME NEW n \in DOMAIN results
       PROVE  n \in DOMAIN results' /\ results'[n] = results[n]
       BY <1>12 DEF Collect, Inserted
<1>13. ASSUME NEW n \in DOMAIN results', n \notin DOMAIN results
       PROVE  call.code = 0 /\ n = n1 /\ results'[n] = call.at
       BY <1>9, <1>13 DEF Collect, Inserted
<1>14. call.code = 0 => n1 \in DOMAIN results'
       BY <1>9 DEF Collect, Inserted
<1>15. MapInv'
  <2>1. ASSUME NEW n \in DOMAIN results'
        PROVE  \E e \in DOMAIN log' : Wins(e, n)' /\ results'[n] = log'[e].prov
    <3>1. CASE n \in DOMAIN results
      <4>1. PICK e \in DOMAIN log : Wins(e, n) /\ results[n] = log[e].prov
            BY <1>3, <3>1 DEF MapInv
      <4>2. e # e1 /\ n \in Names
            BY <1>0, <1>11, <3>1, <4>1
      <4> QED BY <1>1, <1>10, <1>12, <3>1, <4>1, <4>2
    <3>2. CASE n \notin DOMAIN results
          BY <1>1, <1>7, <1>11, <1>13, <3>2
    <3> QED BY <3>1, <3>2
  <2>2. ASSUME NEW e \in DOMAIN log', NEW n \in Names, Wins(e, n)'
        PROVE  n \in DOMAIN results' /\ results'[n] <= log'[e].prov
    <3>1. CASE e # e1
      <4>1. Wins(e, n)
            BY <1>1, <1>10, <2>2, <3>1
      <4>2. n \in DOMAIN results /\ results[n] <= log[e].prov
            BY <1>1, <1>3, <4>1 DEF MapInv
      <4> QED BY <1>1, <1>12, <4>2
    <3>2. CASE e = e1
      <4>1. call.code = 0 /\ n = n1 /\ n \in DOMAIN results'
            BY <1>11, <1>14, <2>2, <3>2
      <4>2. CASE n \in DOMAIN results
        <5>1. PICK f \in DOMAIN log : Wins(f, n) /\ results[n] = log[f].prov
              BY <1>3, <4>2 DEF MapInv
        <5>2. log[f].prov < call.at /\ log[f].prov \in Nat /\ call.at \in Nat
          <6>1. log[f].prov \in Providers /\ log[f].prov < call.at
                BY <1>3, <5>1 DEF Wins, LogInv
          <6> QED BY <1>0, <6>1
        <5>3. results'[n] = log[f].prov
              BY <1>12, <4>2, <5>1
        <5>4. log'[e].prov = call.at
              BY <1>1, <1>7, <3>2
        <5> QED BY <4>1, <5>2, <5>3, <5>4
      <4>3. CASE n \notin DOMAIN results
            BY <1>0, <1>1, <1>7, <1>13, <3>2, <4>1, <4>3
      <4> QED BY <4>2, <4>3
    <3> QED BY <3>1, <3>2
  <2> QED BY <2>1, <2>2 DEF MapInv
<1> QED BY <1>4, <1>6, <1>15

LEMMA LoopReturn ==
    ASSUME TypeOK, LoopInv, Return
    PROVE  LoopInv'
<1>0. /\ call \in CallType /\ call.at \in Nat
      /\ Providers = 1..Len(registry) /\ Len(registry) \in Nat
      BY RegistryType, CallReads DEF TypeOK
<1>1. /\ registry' = registry /\ results' = results /\ log' = log
      /\ Providers' = Providers
      BY DEF Return, Providers
<1>2. /\ call'.pc = "idle" /\ call'.at = call.at
      /\ call'.modality = call.modality
      BY <1>0 DEF Return, CallType
<1>3. SUFFICES ASSUME call.modality # "by name", PlaceInv, LogInv, MapInv
               PROVE  PlaceInv' /\ LogInv' /\ MapInv'
      BY <1>2 DEF LoopInv
<1>4. call.pc = "next" /\ call.at \notin Providers
      BY <1>3 DEF Return, PlaceInv
<1>5. PlaceInv'
  <2>1. \A i \in Providers : i < call.at
    <3>1. call.at > 0
          BY <1>3 DEF PlaceInv
    <3> QED BY <1>0, <1>4, <3>1
  <2> QED BY <1>1, <1>2, <1>3, <2>1 DEF PlaceInv
<1>6. LogInv'
      BY <1>1, <1>2, <1>3, <1>4 DEF LogInv, Reached
<1>7. MapInv'
      BY <1>1, <1>2, <1>3 DEF MapInv, Wins
<1> QED BY <1>5, <1>6, <1>7

LEMMA LoopStep ==
    TypeOK /\ StringInv /\ CodeInv /\ LoopInv /\ [Next]_vars => LoopInv'
<1> SUFFICES ASSUME TypeOK, StringInv, CodeInv, LoopInv, [Next]_vars
             PROVE  LoopInv'
    OBVIOUS
<1>1. ASSUME \/ \E x \in Texts : Evaluate(x)
             \/ EvaluateNull \/ EvaluateThrows
             \/ Deserialize \/ DeserializeThrows
      PROVE  LoopInv'
  <2>1. /\ call.pc \in {"eval", "parse"} /\ call'.pc \in {"parse", "release"}
        /\ call'.at = call.at /\ call'.modality = call.modality
        /\ registry' = registry /\ results' = results /\ log' = log
        BY <1>1 DEF Evaluate, EvaluateNull, EvaluateThrows, Deserialize,
                    DeserializeThrows, Parsed
  <2> QED BY <2>1, LoopKeep
<1>2. ASSUME Deliver PROVE LoopInv'
  <2>1. call'.modality = "by name"
        BY <1>2 DEF Deliver, TypeOK, CallType
  <2> QED BY <2>1 DEF LoopInv
<1>3. CASE UNCHANGED vars
      BY <1>3 DEF vars, LoopInv, PlaceInv, LogInv, MapInv, Reached, Wins, Providers
<1> QED BY <1>1, <1>2, <1>3, LoopRequest, LoopConsider, LoopRelease, LoopCollect,
           LoopReturn DEF Next, Step

LEMMA TypeAndLoop == Spec => [](TypeOK /\ LoopInv)
<1>1. /\ Init => TypeOK /\ StringInv /\ CodeInv /\ LoopInv
      /\ TypeOK /\ StringInv /\ CodeInv /\ LoopInv /\ [Next]_vars
            => (TypeOK /\ StringInv /\ CodeInv /\ LoopInv)'
      BY TypeInit, StringInit, CodeInit, LoopInit, TypeStep, StringStep,
         CodeStep, LoopStep DEF StringInv
<1> QED BY <1>1, PTL DEF Spec

(* runModality evaluates each provider of its modality once, in order.      *)
THEOREM AllEvaluated == Spec => []EachProviderOnce
<1>1. TypeOK /\ LoopInv => EachProviderOnce
  <2> SUFFICES ASSUME TypeOK, LoopInv, Answered PROVE
          /\ \A e, f \in DOMAIN log : e < f => log[e].prov < log[f].prov
          /\ {log[e].prov : e \in DOMAIN log} =
                {i \in Providers : registry[i].modality = call.modality}
      BY DEF EachProviderOnce
  <2>1. PlaceInv /\ LogInv /\ call.pc = "idle"
        BY DEF Answered, LoopInv
  <2>2. \A i \in Providers : Reached(i)
        BY <2>1 DEF PlaceInv, Reached
  <2> QED BY <2>1, <2>2 DEF LogInv
<1> QED BY <1>1, TypeAndLoop, PTL

(* The map of runModality holds the first success under each name.          *)
THEOREM FirstSuccessKept == Spec => []FirstSuccessWins
<1>1. TypeOK /\ LoopInv => FirstSuccessWins
  <2> SUFFICES ASSUME TypeOK, LoopInv, Answered PROVE FirstSuccessWins
      BY DEF FirstSuccessWins
  <2> DEFINE Won(n) == {log[e].prov : e \in {e \in DOMAIN log :
                          Succeeded(log[e]) /\ registry[log[e].prov].name = n}}
  <2>1. PlaceInv /\ LogInv /\ MapInv /\ call.pc = "idle"
        BY DEF Answered, LoopInv
  <2>2. DOMAIN results \subseteq Names
        BY DEF TypeOK
  <2>3. \A e \in DOMAIN log : log[e].prov < call.at
        BY <2>1 DEF PlaceInv, LogInv
  <2>4. ASSUME NEW n \in Names, NEW i \in Won(n)
        PROVE  n \in DOMAIN results /\ results[n] <= i
    <3>1. PICK e \in DOMAIN log : i = log[e].prov /\ Wins(e, n)
          BY <2>3, <2>4 DEF Wins
    <3> QED BY <2>1, <3>1 DEF MapInv
  <2>5. ASSUME NEW n \in DOMAIN results PROVE results[n] \in Won(n)
    <3>1. PICK e \in DOMAIN log : Wins(e, n) /\ results[n] = log[e].prov
          BY <2>1 DEF MapInv
    <3> QED BY <3>1 DEF Wins
  <2> HIDE DEF Won
  <2>6. /\ DOMAIN results = {n \in Names : Won(n) # {}}
        /\ \A n \in DOMAIN results :
              results[n] \in Won(n) /\ \A i \in Won(n) : results[n] <= i
        BY <2>2, <2>4, <2>5
  <2> QED BY <2>6 DEF FirstSuccessWins, Won
<1> QED BY <1>1, TypeAndLoop, PTL
=============================================================================
