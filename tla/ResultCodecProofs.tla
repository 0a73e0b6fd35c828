-------------------------- MODULE ResultCodecProofs --------------------------
(***************************************************************************)
(* What a Java program is told is what runProvider returned, for any keys,  *)
(* numbers, strings and numbers of detections.                              *)
(***************************************************************************)
EXTENDS ResultCodec, TLAPS

Floats(s) == RoundedAll(s) = s

-----------------------------------------------------------------------------
(* Maps and detections.                                                     *)

LEMMA SeqIs ==
    ASSUME NEW S, NEW s \in Seq(S)
    PROVE  /\ DOMAIN s = 1..Len(s) /\ Len(s) \in Nat
           /\ \A i \in 1..Len(s) : s[i] \in S
OBVIOUS

LEMMA SeqMonotone ==
    ASSUME NEW S, NEW T, S \subseteq T
    PROVE  Seq(S) \subseteq Seq(T)
<1> SUFFICES ASSUME NEW s \in Seq(S) PROVE s \in Seq(T)
    OBVIOUS
<1>1. /\ DOMAIN s = 1..Len(s) /\ Len(s) \in Nat
      /\ \A i \in 1..Len(s) : s[i] \in T
      BY SeqIs
<1>2. s = [i \in 1..Len(s) |-> s[i]]
      BY <1>1
<1> QED BY <1>1, <1>2

LEMMA MapsAre ==
    /\ \A f \in Maps : DOMAIN f \subseteq Keys /\ f \in [DOMAIN f -> Doubles]
    /\ \A S \in SUBSET Keys : [S -> Doubles] \subseteq Maps
BY DEF Maps

LEMMA RoundedRight ==
    ASSUME NEW f \in Maps
    PROVE  /\ Rounded(f) \in Maps /\ DOMAIN Rounded(f) = DOMAIN f
           /\ Rounded(Rounded(f)) = Rounded(f)
<1>1. DOMAIN f \in SUBSET Keys /\ \A n \in DOMAIN f : f[n] \in Doubles
      BY MapsAre
<1> DEFINE F(x) == IF x = NaN THEN Zero ELSE ToFloat[x]
<1>2. \A x \in Doubles : F(x) \in Doubles /\ F(F(x)) = F(x)
      BY NumbersAssumption DEF NumbersAssumption, Doubles
<1>a. Rounded(f) = [n \in DOMAIN f |-> F(f[n])]
      BY DEF Rounded
<1>b. Rounded(f) \in [DOMAIN f -> Doubles]
      BY <1>1, <1>2, <1>a
<1>c. Rounded(Rounded(f)) = [n \in DOMAIN f |-> F(Rounded(f)[n])]
      BY <1>a DEF Rounded
<1> HIDE DEF F
<1>3. \A n \in DOMAIN f : F(Rounded(f)[n]) = Rounded(f)[n]
      BY <1>1, <1>2, <1>a
<1>4. Rounded(f) \in Maps /\ DOMAIN Rounded(f) = DOMAIN f
      BY <1>1, <1>b, MapsAre
<1>5. Rounded(Rounded(f)) = Rounded(f)
      BY <1>3, <1>a, <1>c
<1> QED BY <1>4, <1>5

(* What is read of a map that was written is the map, rounded.              *)
LEMMA MapArrives ==
    ASSUME NEW f \in Maps
    PROVE  /\ WriteMap(f).kind # "refused"
           /\ ReadMap(WriteMap(f)) = Rounded(f)
           /\ ReadMap(Map(f)) = Rounded(f) /\ Map(f).kind # "refused"
<1>1. ReadMap(Map(f)) = Rounded(f) /\ Map(f).kind = "value"
      BY DEF ReadMap, AsFloat, Map, Rounded
<1>2. CASE DOMAIN f = {}
  <2>1. WriteMap(f) = NoMap("absent")
        BY <1>2 DEF WriteMap
  <2>2. ReadMap(NoMap("absent")) = [n \in {} |-> AsFloat(n)]
        BY DEF ReadMap, NoMap
  <2>3. Rounded(f) = [n \in {} |-> AsFloat(n)]
        BY <1>2 DEF Rounded
  <2> QED BY <1>1, <2>1, <2>2, <2>3 DEF NoMap
<1>3. CASE DOMAIN f # {}
      BY <1>1, <1>3 DEF WriteMap
<1> QED BY <1>2, <1>3

LEMMA RoundedQuality ==
    ASSUME NEW q \in QualityResult
    PROVE  LET d == [metrics |-> Rounded(q.metrics), features |-> Rounded(q.features)]
           IN  /\ d \in QualityResult
               /\ Rounded(d.metrics) = d.metrics /\ Rounded(d.features) = d.features
BY RoundedRight DEF QualityResult

LEMMA RoundedAllRight ==
    ASSUME NEW s \in Seq(QualityResult)
    PROVE  /\ RoundedAll(s) \in Seq(QualityResult)
           /\ Floats(RoundedAll(s)) /\ Len(RoundedAll(s)) = Len(s)
<1>1. DOMAIN s = 1..Len(s) /\ Len(s) \in Nat
         /\ \A i \in 1..Len(s) : s[i] \in QualityResult
      OBVIOUS
<1> DEFINE d(i) == [metrics |-> Rounded(s[i].metrics),
                    features |-> Rounded(s[i].features)]
<1>2. RoundedAll(s) = [i \in 1..Len(s) |-> d(i)]
      BY <1>1 DEF RoundedAll
<1>3. \A i \in 1..Len(s) : /\ d(i) \in QualityResult
                           /\ Rounded(d(i).metrics) = d(i).metrics
                           /\ Rounded(d(i).features) = d(i).features
                           /\ d(i) = [metrics |-> d(i).metrics,
                                      features |-> d(i).features]
      BY <1>1, RoundedQuality
<1> HIDE DEF d
<1>4. RoundedAll(s) \in Seq(QualityResult) /\ Len(RoundedAll(s)) = Len(s)
      BY <1>1, <1>2, <1>3
<1> DEFINE R == RoundedAll(s)
<1>5. DOMAIN R = 1..Len(s) /\ \A i \in 1..Len(s) : R[i] = d(i)
      BY <1>2
<1> HIDE DEF R
<1>6. RoundedAll(R) = [i \in 1..Len(s) |-> d(i)]
  <2>1. \A i \in 1..Len(s) :
           [metrics |-> Rounded(R[i].metrics), features |-> Rounded(R[i].features)]
              = d(i)
        BY <1>3, <1>5
  <2> QED BY <1>5, <2>1 DEF RoundedAll
<1> QED BY <1>2, <1>4, <1>6 DEF Floats, R

(* Detections that were written are not refused, and read rounded.          *)
LEMMA DetectionsRead ==
    ASSUME NEW s \in Seq(QualityResult)
    PROVE  LET w == [i \in DOMAIN s |-> WriteQuality(s[i])]
           IN  /\ ReadAll(w) = RoundedAll(s) /\ DOMAIN w = DOMAIN s
               /\ \A i \in DOMAIN w : "refused" \notin {w[i].metrics.kind,
                                                        w[i].features.kind}
<1> DEFINE w == [i \in DOMAIN s |-> WriteQuality(s[i])]
<1>0. DOMAIN s = 1..Len(s) /\ \A i \in 1..Len(s) : s[i] \in QualityResult
      OBVIOUS
<1>1. \A i \in DOMAIN s : s[i].metrics \in Maps /\ s[i].features \in Maps
      BY <1>0 DEF QualityResult
<1>2. \A i \in DOMAIN s : /\ w[i].metrics = WriteMap(s[i].metrics)
                          /\ w[i].features = WriteMap(s[i].features)
  <2> SUFFICES ASSUME NEW i \in DOMAIN s
               PROVE  /\ w[i].metrics = WriteMap(s[i].metrics)
                      /\ w[i].features = WriteMap(s[i].features)
      OBVIOUS
  <2>1. w[i] = WriteQuality(s[i])
        OBVIOUS
  <2> QED BY <2>1 DEF WriteQuality
<1>3. DOMAIN w = DOMAIN s
      OBVIOUS
<1> HIDE DEF w
<1>4. \A i \in DOMAIN s : /\ ReadMap(w[i].metrics) = Rounded(s[i].metrics)
                          /\ ReadMap(w[i].features) = Rounded(s[i].features)
                          /\ w[i].metrics.kind # "refused"
                          /\ w[i].features.kind # "refused"
      BY <1>1, <1>2, MapArrives
<1>5. ReadAll(w) = RoundedAll(s)
      BY <1>3, <1>4 DEF ReadAll, ReadQuality, RoundedAll
<1>6. /\ ReadAll(w) = RoundedAll(s) /\ DOMAIN w = DOMAIN s
      /\ \A i \in DOMAIN w : "refused" \notin {w[i].metrics.kind,
                                               w[i].features.kind}
      BY <1>3, <1>4, <1>5
<1> QED BY <1>6 DEF w

(* What is written has an infinite number if what it is written from has.   *)
LEMMA InfiniteWritten ==
    ASSUME NEW s
    PROVE  LET w == [i \in DOMAIN s |-> WriteQuality(s[i])]
           IN  \A i \in DOMAIN w :
                  /\ Infinite(w[i].metrics.map) <=> Infinite(s[i].metrics)
                  /\ Infinite(w[i].features.map) <=> Infinite(s[i].features)
<1>1. \A f : Infinite(WriteMap(f).map) <=> Infinite(f)
  <2> SUFFICES ASSUME NEW f PROVE Infinite(WriteMap(f).map) <=> Infinite(f)
      OBVIOUS
  <2>1. CASE DOMAIN f = {}
    <3>1. WriteMap(f).map = [n \in {} |-> n]
          BY <2>1 DEF WriteMap, NoMap
    <3> QED BY <2>1, <3>1 DEF Infinite
  <2>2. CASE DOMAIN f # {}
        BY <2>2 DEF WriteMap, Map
  <2> QED BY <2>1, <2>2
<1> QED BY <1>1 DEF WriteQuality

-----------------------------------------------------------------------------
(* Whole results.                                                           *)

LEMMA TooLargeWritten ==
    ASSUME NEW r
    PROVE  TooLarge(Serialize(r)) <=> HasInfinite(r.qualityResult)
<1> DEFINE w == [i \in DOMAIN r.qualityResult |-> WriteQuality(r.qualityResult[i])]
<1>1. Serialize(r).qualityResult = w
      BY DEF Serialize, Text
<1>2. DOMAIN w = DOMAIN r.qualityResult
         /\ \A i \in DOMAIN w :
              /\ Infinite(w[i].metrics.map) <=> Infinite(r.qualityResult[i].metrics)
              /\ Infinite(w[i].features.map) <=> Infinite(r.qualityResult[i].features)
      BY InfiniteWritten
<1> HIDE DEF w
<1> QED BY <1>1, <1>2 DEF TooLarge, HasInfinite

LEMMA ResultRead ==
    ASSUME NEW r, r.qualityResult \in Seq(QualityResult)
    PROVE  /\ ~Refused(Serialize(r)) /\ Serialize(r).kind = "object"
           /\ Len(Serialize(r).qualityResult) = Len(r.qualityResult)
           /\ Deserialize(Serialize(r)) =
                [errorCode |-> r.errorCode, provider |-> r.provider,
                 message |-> r.message,
                 qualityResult |-> RoundedAll(r.qualityResult)]
<1> DEFINE w == [i \in DOMAIN r.qualityResult |-> WriteQuality(r.qualityResult[i])]
           t == Serialize(r)
<1>1. /\ ReadAll(w) = RoundedAll(r.qualityResult)
      /\ DOMAIN w = DOMAIN r.qualityResult
      /\ \A i \in DOMAIN w : "refused" \notin {w[i].metrics.kind, w[i].features.kind}
      BY DetectionsRead
<1>2. Len(w) = Len(r.qualityResult)
      BY <1>1
<1>3. /\ t.kind = "object" /\ t.qualityResult = w
      /\ t.errorCode = Number(r.errorCode) /\ t.provider = String(r.provider)
      /\ t.message = String(r.message)
      BY DEF Serialize, Text
<1> HIDE DEF w, t
<1>4. ~Refused(t)
      BY <1>1, <1>3 DEF Refused, Number, String
<1>5. Deserialize(t) = [errorCode |-> r.errorCode, provider |-> r.provider,
                        message |-> r.message,
                        qualityResult |-> RoundedAll(r.qualityResult)]
      BY <1>1, <1>3 DEF Deserialize, Result, Number, String
<1> QED BY <1>2, <1>3, <1>4, <1>5 DEF t

(* A result that holds floats survives being written and read.              *)
LEMMA RoundTrip ==
    ASSUME NEW r \in EvaluationResult, Floats(r.qualityResult)
    PROVE  ~Refused(Serialize(r)) /\ Deserialize(Serialize(r)) = r
<1>1. r.qualityResult \in Seq(QualityResult)
         /\ r = [errorCode |-> r.errorCode, provider |-> r.provider,
                 message |-> r.message, qualityResult |-> r.qualityResult]
      BY DEF EvaluationResult
<1> QED BY <1>1, ResultRead DEF Floats

-----------------------------------------------------------------------------
(* The state: what is known of the text, and of the result it becomes.      *)

MapType == [kind : {"absent", "value", "refused"}, map : Maps]
TextType ==
    [kind : {"null", "malformed", "scalar", "object"},
     errorCode : [kind : {"absent", "value", "refused"}, num : Int],
     provider : [kind : {"absent", "value", "refused"}, str : Strings],
     message : [kind : {"absent", "value", "refused"}, str : Strings],
     qualityResult : Seq([metrics : MapType, features : MapType])]

(* A text a Provider has made reads as what it put in.                      *)
Carries ==
    /\ text.kind = "object" /\ ~Refused(text)
    /\ TooLarge(text) => HasInfinite(made.qualityResult)
    /\ Deserialize(text).errorCode = made.errorCode
    /\ Deserialize(text).message = made.message
    /\ Deserialize(text).qualityResult = RoundedAll(made.qualityResult)

CodecInv ==
    /\ pc \in {"evaluate", "deserialize", "serialize", "done"}
    /\ wide \in BOOLEAN
    /\ made \in EvaluationResult
    /\ result \in EvaluationResult /\ Floats(result.qualityResult)
    /\ text \in TextType
    /\ pc # "evaluate" /\ made # Nothing => Carries
    /\ relayed.kind \in {"null", "object"}
    /\ DetectionsArrive
    /\ AllOrNothing
    /\ pc = "done" => relayed = Serialize(result)

LEMMA EmptyRight ==
    /\ [n \in {} |-> n] \in Maps
    /\ <<>> \in Seq(QualityResult) /\ Floats(<<>>)
    /\ <<>> \in Seq([metrics : MapType, features : MapType])
<1>1. {} \in SUBSET Keys /\ [n \in {} |-> n] \in [{} -> Doubles]
      OBVIOUS
<1>2. [{} -> Doubles] \subseteq Maps
      BY <1>1, MapsAre
<1>3. Floats(<<>>)
  <2>1. RoundedAll(<<>>) = [i \in {} |-> i]
        BY DEF RoundedAll
  <2>2. <<>> = [i \in {} |-> i]
        OBVIOUS
  <2> QED BY <2>1, <2>2 DEF Floats
<1>4. \A S : <<>> \in Seq(S)
      OBVIOUS
<1> QED BY <1>1, <1>2, <1>3, <1>4

LEMMA NothingRight ==
    /\ Nothing \in EvaluationResult /\ Floats(Nothing.qualityResult)
    /\ Failed \in EvaluationResult /\ Floats(Failed.qualityResult)
    /\ Failed.errorCode = -1 /\ Failed.qualityResult = <<>>
<1>1. 0 \in Int /\ -1 \in Int /\ Empty \in Strings
      BY StringsAssumption DEF StringsAssumption
<1> QED BY <1>1, EmptyRight DEF Nothing, Failed, Result, EvaluationResult

(* What is read of a text of that type is a result.                         *)
LEMMA ReadAllRight ==
    ASSUME NEW s \in Seq([metrics : MapType, features : MapType])
    PROVE  /\ ReadAll(s) \in Seq(QualityResult)
           /\ Floats(ReadAll(s)) /\ Len(ReadAll(s)) = Len(s)
<1> DEFINE m == [i \in DOMAIN s |-> [metrics |-> s[i].metrics.map,
                                    features |-> s[i].features.map]]
<1>1. DOMAIN s = 1..Len(s) /\ Len(s) \in Nat
         /\ \A i \in 1..Len(s) : s[i] \in [metrics : MapType, features : MapType]
      BY SeqIs
<1>2. \A i \in 1..Len(s) :
         s[i].metrics.map \in Maps /\ s[i].features.map \in Maps
      BY <1>1 DEF MapType
<1>3. m \in Seq(QualityResult) /\ Len(m) = Len(s)
      BY <1>1, <1>2 DEF QualityResult
<1>4. DOMAIN m = DOMAIN s
         /\ \A i \in DOMAIN s : /\ m[i].metrics = s[i].metrics.map
                                /\ m[i].features = s[i].features.map
      OBVIOUS
<1> HIDE DEF m
<1>5. ReadAll(s) = RoundedAll(m)
      BY <1>4 DEF ReadAll, ReadQuality, ReadMap, AsFloat, RoundedAll, Rounded
<1> QED BY <1>3, <1>5, RoundedAllRight

LEMMA DeserializeRight ==
    ASSUME NEW t \in TextType
    PROVE  /\ Deserialize(t).errorCode \in Int
           /\ Deserialize(t).message \in Strings \cup {NoResult, NoJson}
           /\ Deserialize(t).qualityResult \in Seq(QualityResult)
           /\ Floats(Deserialize(t).qualityResult)
           /\ t.kind \in {"null", "malformed"} =>
                 /\ Deserialize(t).errorCode = -1
                 /\ Deserialize(t).qualityResult = <<>>
           /\ t.kind = "object" =>
                 Len(Deserialize(t).qualityResult) = Len(t.qualityResult)
<1>1. CASE t.kind = "null"
      BY <1>1, EmptyRight DEF Deserialize, Result
<1>2. CASE t.kind = "malformed"
      BY <1>2, EmptyRight DEF Deserialize, Result
<1>3. CASE t.kind \in {"scalar", "object"}
  <2>1. Deserialize(t) =
            [errorCode |-> t.errorCode.num, provider |-> t.provider.str,
             message |-> t.message.str,
             qualityResult |-> ReadAll(t.qualityResult)]
        BY <1>3 DEF Deserialize, Result
  <2>2. /\ t.qualityResult \in Seq([metrics : MapType, features : MapType])
        /\ t.errorCode.num \in Int /\ t.message.str \in Strings
        BY DEF TextType
  <2>3. /\ ReadAll(t.qualityResult) \in Seq(QualityResult)
        /\ Floats(ReadAll(t.qualityResult))
        /\ Len(ReadAll(t.qualityResult)) = Len(t.qualityResult)
        BY <2>2, ReadAllRight
  <2> QED BY <1>3, <2>1, <2>2, <2>3
<1> QED BY <1>1, <1>2, <1>3 DEF TextType

-----------------------------------------------------------------------------
(* The texts providers return.                                              *)

LEMMA NoTextRight ==
    ASSUME NEW kind \in {"null", "malformed", "scalar"}
    PROVE  NoText(kind) \in TextType
<1>1. Empty \in Strings /\ 0 \in Int
      BY StringsAssumption DEF StringsAssumption
<1> QED BY <1>1, EmptyRight DEF NoText, Text, TextType, NoNumber, NoString

LEMMA SeqUpToRight == \A S : SeqUpTo(S) \subseteq Seq(S)
BY DetectionsAssumption DEF SeqUpTo, DetectionsAssumption

LEMMA OtherRight ==
    ASSUME NEW k \in NumberMembers, NEW s \in StringMembers,
           NEW p \in {NoString(f) : f \in Faults},
           NEW q \in SeqUpTo([metrics : MapMembers, features : MapMembers])
    PROVE  Text("object", k, p, s, q) \in TextType
<1>1. k \in [kind : {"absent", "value", "refused"}, num : Int]
      BY CodesAssumption DEF NumberMembers, Faults, NoNumber, Number,
             CodesAssumption
<1>2. /\ p \in [kind : {"absent", "value", "refused"}, str : Strings]
      /\ s \in [kind : {"absent", "value", "refused"}, str : Strings]
      BY StringsAssumption DEF StringMembers, Faults, NoString, String,
             StringsAssumption
<1>3. MapMembers \subseteq MapType
      BY EmptyRight DEF MapMembers, Faults, MapType, NoMap, Map
<1>4. [metrics : MapMembers, features : MapMembers]
          \subseteq [metrics : MapType, features : MapType]
      BY <1>3
<1>5. q \in Seq([metrics : MapMembers, features : MapMembers])
      BY SeqUpToRight
<1>6. q \in Seq([metrics : MapType, features : MapType])
      BY <1>4, <1>5, SeqMonotone
<1> QED BY <1>1, <1>2, <1>6 DEF Text, TextType

(* What a native or a Java provider writes is a text that carries it.       *)
LEMMA WriteMapRight == \A f \in Maps : WriteMap(f) \in MapType /\ Map(f) \in MapType
BY EmptyRight DEF WriteMap, MapType, NoMap, Map

LEMMA NativeRight ==
    ASSUME NEW k \in Codes, NEW p \in Strings, NEW s \in Strings,
           NEW q \in Seq(QualityResult)
    PROVE  LET r == Result(k, p, s, q)
           IN  /\ r \in EvaluationResult
               /\ Serialize(r) \in TextType
               /\ Serialize(r).kind = "object" /\ ~Refused(Serialize(r))
               /\ TooLarge(Serialize(r)) => HasInfinite(r.qualityResult)
               /\ Deserialize(Serialize(r)).errorCode = k
               /\ Deserialize(Serialize(r)).message = s
               /\ Deserialize(Serialize(r)).qualityResult = RoundedAll(q)
               /\ r.errorCode = k /\ r.message = s /\ r.qualityResult = q
<1> DEFINE r == Result(k, p, s, q)
<1>1. /\ r.errorCode = k /\ r.message = s /\ r.qualityResult = q
      /\ r.provider = p
      BY DEF Result
<1>2. r \in EvaluationResult
      BY CodesAssumption DEF Result, EvaluationResult, CodesAssumption
<1> HIDE DEF r
<1>3. /\ Serialize(r).kind = "object" /\ ~Refused(Serialize(r))
      /\ Deserialize(Serialize(r)) =
            [errorCode |-> k, provider |-> p, message |-> s,
             qualityResult |-> RoundedAll(q)]
      BY <1>1, ResultRead
<1> DEFINE w == [i \in DOMAIN q |-> WriteQuality(q[i])]
<1>4. w \in Seq([metrics : MapType, features : MapType])
  <2>1. DOMAIN q = 1..Len(q) /\ Len(q) \in Nat
            /\ \A i \in 1..Len(q) : q[i] \in QualityResult
        BY SeqIs
  <2>2. \A i \in 1..Len(q) :
            WriteQuality(q[i]) \in [metrics : MapType, features : MapType]
        BY <2>1, WriteMapRight DEF QualityResult, WriteQuality
  <2>3. w = [i \in 1..Len(q) |-> WriteQuality(q[i])]
        BY <2>1
  <2> QED BY <2>1, <2>2, <2>3
<1>5. Serialize(r) = Text("object", Number(k), String(p), String(s), w)
      BY <1>1 DEF Serialize
<1> HIDE DEF w
<1>6. Serialize(r) \in TextType
      BY <1>4, <1>5, CodesAssumption DEF Text, TextType, Number, String,
             CodesAssumption
<1> QED BY <1>1, <1>2, <1>3, <1>6, TooLargeWritten DEF r

LEMMA JavaRight ==
    ASSUME NEW k \in Codes, NEW q \in QualityResult,
           ~Infinite(q.metrics), ~Infinite(q.features),
           NEW s \in {NoString("absent")} \cup {String(x) : x \in Strings}
    PROVE  LET t == Text("object", Number(k), String(ThisProvider), s,
                    <<[metrics |-> Map(q.metrics), features |-> Map(q.features)]>>)
               r == Result(k, ThisProvider, s.str, <<q>>)
           IN  /\ r \in EvaluationResult
               /\ t \in TextType
               /\ t.kind = "object" /\ ~Refused(t) /\ ~TooLarge(t)
               /\ Deserialize(t).errorCode = k
               /\ Deserialize(t).message = s.str
               /\ Deserialize(t).qualityResult = RoundedAll(<<q>>)
               /\ r.errorCode = k /\ r.message = s.str /\ r.qualityResult = <<q>>
<1> DEFINE d == [metrics |-> Map(q.metrics), features |-> Map(q.features)]
           w == <<d>>
           t == Text("object", Number(k), String(ThisProvider), s, w)
           r == Result(k, ThisProvider, s.str, <<q>>)
<1>1. s.str \in Strings /\ s.kind \in {"absent", "value"}
         /\ s \in [kind : {"absent", "value", "refused"}, str : Strings]
      BY StringsAssumption DEF NoString, String, StringsAssumption
<1>2. q.metrics \in Maps /\ q.features \in Maps
      BY DEF QualityResult
<1>3. /\ d \in [metrics : MapType, features : MapType]
      /\ d.metrics = Map(q.metrics) /\ d.features = Map(q.features)
      /\ d.metrics.kind = "value" /\ d.features.kind = "value"
      BY <1>2, WriteMapRight DEF Map
<1>a. ~Infinite(d.metrics.map) /\ ~Infinite(d.features.map)
      BY <1>3 DEF Map
<1>4. /\ ReadMap(d.metrics) = Rounded(q.metrics)
      /\ ReadMap(d.features) = Rounded(q.features)
      BY <1>2, <1>3, MapArrives
<1> HIDE DEF d
<1>5. w \in Seq([metrics : MapType, features : MapType]) /\ DOMAIN w = {1}
         /\ w[1] = d
      BY <1>3
<1>6. <<q>> \in Seq(QualityResult) /\ DOMAIN <<q>> = {1} /\ <<q>>[1] = q
      OBVIOUS
<1> HIDE DEF w
<1>7. /\ t.kind = "object" /\ t.qualityResult = w /\ t.errorCode = Number(k)
      /\ t.provider = String(ThisProvider) /\ t.message = s
      BY DEF Text
<1>8. t \in TextType
      BY <1>1, <1>5, CodesAssumption, StringsAssumption DEF Text, TextType,
             Number, String, CodesAssumption, StringsAssumption
<1> HIDE DEF t
<1>9. ~Refused(t)
      BY <1>1, <1>3, <1>5, <1>7 DEF Refused, Number, String
<1>b. ~TooLarge(t)
      BY <1>5, <1>7, <1>a DEF TooLarge
<1>10. ReadAll(w) = RoundedAll(<<q>>)
       BY <1>4, <1>5, <1>6 DEF ReadAll, ReadQuality, RoundedAll
<1>11. /\ Deserialize(t).errorCode = k
       /\ Deserialize(t).message = s.str
       /\ Deserialize(t).qualityResult = RoundedAll(<<q>>)
       BY <1>7, <1>10 DEF Deserialize, Result, Number
<1>12. /\ r \in EvaluationResult
       /\ r.errorCode = k /\ r.message = s.str /\ r.qualityResult = <<q>>
       BY <1>1, <1>6, CodesAssumption, StringsAssumption DEF Result,
              EvaluationResult, CodesAssumption, StringsAssumption
<1> QED BY <1>7, <1>8, <1>9, <1>b, <1>11, <1>12 DEF t, w, d

-----------------------------------------------------------------------------
(* The invariant.                                                           *)

LEMMA InitCodec == Init => CodecInv
<1> SUFFICES ASSUME Init PROVE CodecInv
    OBVIOUS
<1>1. NoText("null") \in TextType /\ NoText("null").kind = "null"
      BY NoTextRight DEF NoText, Text
<1> QED BY <1>1, NothingRight DEF Init, CodecInv, DetectionsArrive, AllOrNothing

LEMMA EvaluateStep ==
    ASSUME CodecInv, NEW x \in TextType, Returns(x), made' \in EvaluationResult,
           made' # Nothing =>
               /\ x.kind = "object" /\ ~Refused(x)
               /\ TooLarge(x) => HasInfinite(made'.qualityResult)
               /\ Deserialize(x).errorCode = made'.errorCode
               /\ Deserialize(x).message = made'.message
               /\ Deserialize(x).qualityResult = RoundedAll(made'.qualityResult)
    PROVE  CodecInv'
<1>1. /\ pc' = "deserialize" /\ text' = x
      /\ result' = result /\ relayed' = relayed /\ wide' = wide
      BY DEF Returns
<1>2. (made # Nothing => Carries)'
      BY <1>1 DEF Carries
<1>3. DetectionsArrive' /\ AllOrNothing'
      BY <1>1 DEF DetectionsArrive, AllOrNothing
<1>4. Floats(result'.qualityResult)
      BY <1>1 DEF CodecInv
<1> QED BY <1>1, <1>2, <1>3, <1>4 DEF CodecInv

(* What is parsed of a text.                                                *)
LEMMA ParsedRight ==
    ASSUME NEW t \in TextType, wide \in BOOLEAN
    PROVE  /\ Parsed(t) \in TextType
           /\ \/ Parsed(t) = t
              \/ /\ Parsed(t).kind = "malformed" /\ ~Refused(Parsed(t))
                 /\ TooLarge(t) /\ ~wide
<1>1. /\ NoText("malformed") \in TextType
      /\ NoText("malformed").kind = "malformed"
      BY NoTextRight DEF NoText, Text
<1>2. ~Refused(NoText("malformed"))
      BY <1>1 DEF Refused
<1> QED BY <1>1, <1>2 DEF Parsed

LEMMA RunProviderStep == CodecInv /\ RunProvider => CodecInv'
<1> SUFFICES ASSUME CodecInv, RunProvider PROVE CodecInv'
    OBVIOUS
<1> DEFINE p == Parsed(text)
<1>1. /\ pc = "deserialize" /\ pc' = "serialize"
      /\ made' = made /\ text' = text /\ relayed' = relayed /\ wide' = wide
      /\ result' = IF Refused(p) THEN Failed ELSE Registered(Deserialize(p))
      BY DEF RunProvider
<1>2. text \in TextType /\ made \in EvaluationResult /\ wide \in BOOLEAN
         /\ (made # Nothing => Carries) /\ relayed.kind \in {"null", "object"}
      BY <1>1 DEF CodecInv
<1>p. /\ p \in TextType
      /\ \/ p = text
         \/ p.kind = "malformed" /\ ~Refused(p) /\ TooLarge(text) /\ ~wide
      /\ Parsed(text)' = p
  <2>1. Parsed(text)' = p
        BY <1>1 DEF Parsed, TooLarge
  <2> QED BY <1>2, <2>1, ParsedRight
<1> HIDE DEF p
<1>3. /\ Deserialize(p).errorCode \in Int
      /\ Deserialize(p).message \in Strings \cup {NoResult, NoJson}
      /\ Deserialize(p).qualityResult \in Seq(QualityResult)
      /\ Floats(Deserialize(p).qualityResult)
      /\ p.kind \in {"null", "malformed"} =>
            /\ Deserialize(p).errorCode = -1
            /\ Deserialize(p).qualityResult = <<>>
      /\ p.kind = "object" =>
            Len(Deserialize(p).qualityResult) = Len(p.qualityResult)
      BY <1>p, DeserializeRight
<1>4. /\ p.kind \in {"null", "malformed", "scalar", "object"}
      /\ p.kind = "scalar" => Refused(p)
      BY <1>p DEF TextType, Refused
<1>5. CASE Refused(p)
  <2>1. result' = Failed /\ made = Nothing
        BY <1>1, <1>2, <1>5, <1>p DEF Carries
  <2>2. /\ result' \in EvaluationResult /\ Floats(result'.qualityResult)
        /\ result'.errorCode = -1 /\ result'.qualityResult = <<>>
        BY <2>1, NothingRight
  <2>3. AllOrNothing'
        BY <1>1, <2>2 DEF AllOrNothing
  <2> QED BY <1>1, <1>2, <2>1, <2>2, <2>3 DEF CodecInv, DetectionsArrive
<1>6. CASE ~Refused(p)
  <2> DEFINE d == Deserialize(p)
  <2>1. /\ result'.errorCode = d.errorCode
        /\ result'.message = d.message
        /\ result'.qualityResult = d.qualityResult
        BY <1>1, <1>6 DEF Registered, Result
  <2>2. result' \in EvaluationResult
        BY <1>1, <1>3, <1>6, StringsAssumption DEF Registered, Result,
               EvaluationResult, StringsAssumption
  <2>3. /\ d.errorCode \in Int /\ Floats(d.qualityResult)
        /\ p.kind # "object" => d.errorCode = -1 /\ d.qualityResult = <<>>
        /\ p.kind = "object" => p = text
        /\ p.kind = "object" =>
              Len(d.qualityResult) = Len(text.qualityResult)
        BY <1>2, <1>3, <1>4, <1>6, <1>p
  <2>a. made # Nothing =>
          \/ /\ d.errorCode = made.errorCode
             /\ d.message = made.message
             /\ d.qualityResult = RoundedAll(made.qualityResult)
          \/ d.errorCode = -1 /\ ~wide /\ HasInfinite(made.qualityResult)
        BY <1>2, <1>3, <1>p DEF Carries
  <2> HIDE DEF d
  <2>4. AllOrNothing'
        BY <1>1, <1>6, <1>p, <2>1, <2>3 DEF AllOrNothing
  <2>5. DetectionsArrive'
        BY <1>1, <2>1, <2>a DEF DetectionsArrive, HasInfinite
  <2>6. Floats(result'.qualityResult) /\ (made # Nothing => Carries)'
        BY <1>1, <1>2, <2>1, <2>3 DEF Carries
  <2> QED BY <1>1, <1>2, <2>2, <2>4, <2>5, <2>6 DEF CodecInv
<1> QED BY <1>5, <1>6

LEMMA RelayStep == CodecInv /\ Relay => CodecInv'
<1> SUFFICES ASSUME CodecInv, Relay PROVE CodecInv'
    OBVIOUS
<1>1. /\ pc = "serialize" /\ pc' = "done"
      /\ made' = made /\ text' = text /\ result' = result /\ wide' = wide
      /\ relayed' = Serialize(result)
      BY DEF Relay
<1>2. Serialize(result).kind = "object"
      BY DEF Serialize, Text
<1>3. (made # Nothing => Carries)' /\ DetectionsArrive' /\ AllOrNothing'
      BY <1>1 DEF CodecInv, Carries, DetectionsArrive, AllOrNothing, Parsed
<1>4. Floats(result'.qualityResult)
      BY <1>1 DEF CodecInv
<1> QED BY <1>1, <1>2, <1>3, <1>4 DEF CodecInv

LEMMA NextCodec == CodecInv /\ [Next]_vars => CodecInv'
<1> SUFFICES ASSUME CodecInv, [Next]_vars PROVE CodecInv'
    OBVIOUS
<1>1. CASE UNCHANGED vars
      BY <1>1 DEF vars, CodecInv, Carries, DetectionsArrive, AllOrNothing, Parsed
<1>2. CASE Evaluate
  <2>1. ASSUME NEW k \in Codes, NEW p \in Strings, NEW s \in Strings,
               NEW q \in SeqUpTo(QualityResult), EvaluateNative(Result(k, p, s, q))
        PROVE  CodecInv'
    <3>1. q \in Seq(QualityResult)
          BY SeqUpToRight
    <3>2. Returns(Serialize(Result(k, p, s, q))) /\ made' = Result(k, p, s, q)
          BY <2>1 DEF EvaluateNative
    <3> QED BY <3>1, <3>2, NativeRight, EvaluateStep
  <2>2. ASSUME NEW k \in Codes, NEW q \in QualityResult,
               ~Infinite(q.metrics), ~Infinite(q.features),
               NEW s \in {NoString("absent")} \cup {String(x) : x \in Strings},
               EvaluateJava(k, s, q)
        PROVE  CodecInv'
    <3> DEFINE t == Text("object", Number(k), String(ThisProvider), s,
                    <<[metrics |-> Map(q.metrics), features |-> Map(q.features)]>>)
    <3>1. Returns(t) /\ made' = Result(k, ThisProvider, s.str, <<q>>)
          BY <2>2 DEF EvaluateJava
    <3>2. /\ made' \in EvaluationResult
          /\ t \in TextType
          /\ t.kind = "object" /\ ~Refused(t) /\ ~TooLarge(t)
          /\ Deserialize(t).errorCode = made'.errorCode
          /\ Deserialize(t).message = made'.message
          /\ Deserialize(t).qualityResult = RoundedAll(made'.qualityResult)
      <4> DEFINE r == Result(k, ThisProvider, s.str, <<q>>)
      <4>1. /\ r \in EvaluationResult
            /\ t \in TextType
            /\ t.kind = "object" /\ ~Refused(t) /\ ~TooLarge(t)
            /\ Deserialize(t).errorCode = k
            /\ Deserialize(t).message = s.str
            /\ Deserialize(t).qualityResult = RoundedAll(<<q>>)
            /\ r.errorCode = k /\ r.message = s.str /\ r.qualityResult = <<q>>
            BY <2>2, JavaRight
      <4> HIDE DEF t, r
      <4> QED BY <3>1, <4>1 DEF r
    <3> HIDE DEF t
    <3> QED BY <3>1, <3>2, EvaluateStep
  <2>3. ASSUME NEW x \in TextType, EvaluateOther(x) PROVE CodecInv'
        BY <2>3, NothingRight, EvaluateStep DEF EvaluateOther
  <2>4. ASSUME NEW kind \in {"null", "malformed", "scalar"},
               EvaluateOther(NoText(kind))
        PROVE  CodecInv'
        BY <2>3, <2>4, NoTextRight
  <2>5. ASSUME NEW k \in NumberMembers, NEW s \in StringMembers,
               NEW p \in {NoString(f) : f \in Faults},
               NEW q \in SeqUpTo([metrics : MapMembers, features : MapMembers]),
               EvaluateOther(Text("object", k, p, s, q))
        PROVE  CodecInv'
        BY <2>3, <2>5, OtherRight
  <2> QED BY <1>2, <2>1, <2>2, <2>4, <2>5 DEF Evaluate
<1> QED BY <1>1, <1>2, RunProviderStep, RelayStep DEF Next

LEMMA AlwaysCodec == Spec => []CodecInv
BY InitCodec, NextCodec, PTL DEF Spec

(* The state has its type, and results hold floats.                         *)
THEOREM TypeCorrect == Spec => []TypeOK
<1>1. CodecInv => TypeOK
      BY DEF CodecInv, TypeOK, TextType, Floats
<1> QED BY <1>1, AlwaysCodec, PTL

(* What a Provider found reaches the caller of runProvider.                 *)
THEOREM AllArrives == Spec => []DetectionsArrive
<1>1. CodecInv => DetectionsArrive
      BY DEF CodecInv
<1> QED BY <1>1, AlwaysCodec, PTL

(* A text that is not understood leaves an error and nothing else.          *)
THEOREM NoHalfResults == Spec => []AllOrNothing
<1>1. CodecInv => AllOrNothing
      BY DEF CodecInv
<1> QED BY <1>1, AlwaysCodec, PTL

(* A Java program is told what the C++ caller was told, whatever text the   *)
(* provider returned.                                                       *)
THEOREM JavaIsTold == Spec => []RelayedFaithfully
<1>1. CodecInv => RelayedFaithfully
      BY RoundTrip DEF CodecInv, RelayedFaithfully
<1> QED BY <1>1, AlwaysCodec, PTL
=============================================================================
