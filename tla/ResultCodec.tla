----------------------------- MODULE ResultCodec ------------------------------
(***************************************************************************)
(* The way of a result from a provider to a Java program: serializeResult   *)
(* in a native provider, or Provider.evaluate in a Java provider,           *)
(* deserializeResult in BIQT::runProvider, serializeResult in the binding.  *)
(* Source: src/cxx/ProviderInterface.h, src/cxx/BIQT.cpp,                   *)
(* src/templates/Provider.cpp, src/java/.../Provider.java.                  *)
(*                                                                          *)
(* A JSON text is abstracted to what the accessors of jsoncpp make of it:   *)
(* of each member whether it is null or missing, has a value of the kind    *)
(* asked for, or is refused with an exception.  errorCode is what asInt     *)
(* makes of a number or boolean.  A metric is a double, and ToFloat what    *)
(* the conversion to a float makes of it: one beyond the range of a float   *)
(* becomes infinite.  In a text NaN stands for null, which is how it is     *)
(* written, and an infinite number for 1e+9999.                             *)
(***************************************************************************)
EXTENDS Integers, Sequences

CONSTANTS
    Keys,           \* names of metrics and features
    Numbers,        \* finite doubles
    Infinities,
    NaN,
    Zero,
    ToFloat,
    Codes,          \* error codes
    Strings,        \* names of providers, and messages
    Detections,     \* detections per result, at most
    ThisProvider    \* the name under which the provider is registered

Doubles == Numbers \cup Infinities \cup {NaN}

ASSUME NumbersAssumption ==
    /\ Zero \in Numbers /\ NaN \notin Numbers \cup Infinities
    /\ Numbers \cap Infinities = {}
    /\ ToFloat \in [Doubles -> Doubles]
    /\ \A x \in Doubles : /\ ToFloat[ToFloat[x]] = ToFloat[x]
                          /\ ToFloat[x] = NaN <=> x = NaN
    /\ \A x \in Infinities \cup {Zero} : ToFloat[x] = x
ASSUME CodesAssumption == Codes \subseteq Int
Empty == ""

ASSUME StringsAssumption == Empty \in Strings /\ ThisProvider \in Strings
ASSUME DetectionsAssumption == Detections \in Nat

NoResult == "Provider returned a null result."
NoJson == "Provider returned malformed JSON."

Maps == UNION {[S -> Doubles] : S \in SUBSET Keys}
SeqUpTo(S) == UNION {[1..n -> S] : n \in 0..Detections}

QualityResult == [metrics : Maps, features : Maps]
EvaluationResult == [errorCode : Int, provider : Strings,
                     message : Strings \cup {NoResult, NoJson},
                     qualityResult : Seq(QualityResult)]

(* JSON members.  A map of numbers is refused when it is no object or one   *)
(* of its members neither a number nor null.                                *)
Number(k) == [kind |-> "value", num |-> k]
NoNumber(kind) == [kind |-> kind, num |-> 0]
String(s) == [kind |-> "value", str |-> s]
NoString(kind) == [kind |-> kind, str |-> Empty]
Map(f) == [kind |-> "value", map |-> f]
NoMap(kind) == [kind |-> kind, map |-> [n \in {} |-> n]]

Text(kind, k, p, s, q) ==
    [kind |-> kind, errorCode |-> k, provider |-> p, message |-> s,
     qualityResult |-> q]

(* A null pointer, a text that is no JSON, one that is neither an object    *)
(* nor null (operator[] throws).                                            *)
NoText(kind) ==
    Text(kind, NoNumber("absent"), NoString("absent"), NoString("absent"), <<>>)

VARIABLES
    pc,         \* evaluate, deserialize, serialize, done
    made,       \* history: what the provider put into its text, if a Provider did
    text,       \* what the provider returned
    result,     \* what BIQT::runProvider returned
    relayed,    \* what the native method runProvider returned to Java
    wide        \* does the Json::Reader at hand take 1e+9999?  That differs
                \* between versions of jsoncpp.

vars == <<pc, made, text, result, relayed, wide>>

Result(k, p, s, q) ==
    [errorCode |-> k, provider |-> p, message |-> s, qualityResult |-> q]
Nothing == Result(0, Empty, Empty, <<>>)

-----------------------------------------------------------------------------
(* serializeResult.  An empty map is written as null: it stays a            *)
(* Json::Value that nothing was assigned to.                                *)

WriteMap(f) == IF DOMAIN f = {} THEN NoMap("absent") ELSE Map(f)

(* Mutant of WriteQuality: what is written under both names is one map.     *)
WriteQualityTwice(q) ==
    [metrics |-> WriteMap(q.metrics), features |-> WriteMap(q.metrics)]

WriteQuality(q) ==
    [metrics |-> WriteMap(q.metrics), features |-> WriteMap(q.features)]

Serialize(r) ==
    Text("object", Number(r.errorCode), String(r.provider), String(r.message),
         [i \in DOMAIN r.qualityResult |-> WriteQuality(r.qualityResult[i])])

(* deserializeResult.                                                       *)

Infinite(f) == \E n \in DOMAIN f : f[n] \in Infinities
TooLarge(t) ==
    \E i \in DOMAIN t.qualityResult : \/ Infinite(t.qualityResult[i].metrics.map)
                                     \/ Infinite(t.qualityResult[i].features.map)

(* reader.parse: a reader to which 1e+9999 is not a number takes the whole  *)
(* text for malformed.                                                      *)
Parsed(t) == IF TooLarge(t) /\ ~wide THEN NoText("malformed") ELSE t

Refused(t) ==
    \/ t.kind = "scalar"
    \/ /\ t.kind = "object"
       /\ \/ "refused" \in {t.errorCode.kind, t.provider.kind, t.message.kind}
          \/ \E i \in DOMAIN t.qualityResult :
                "refused" \in {t.qualityResult[i].metrics.kind,
                               t.qualityResult[i].features.kind}

(* Mutant of ReadMap: the doubles are kept.                                 *)
ReadMapDouble(m) == m.map

(* asFloat, which makes 0 of a null.                                        *)
AsFloat(x) == IF x = NaN THEN Zero ELSE ToFloat[x]

ReadMap(m) == [n \in DOMAIN m.map |-> AsFloat(m.map[n])]

ReadQuality(q) ==
    [metrics |-> ReadMap(q.metrics), features |-> ReadMap(q.features)]

(* Mutant of ReadAll: quality_result is declared outside the loop, so a     *)
(* detection keeps the metrics of those before it.                          *)
ReadAllShared(s) ==
    [i \in DOMAIN s |->
        [metrics |->
            [n \in UNION {DOMAIN s[j].metrics.map : j \in 1..i} |->
                LET last == CHOOSE j \in 1..i :
                        /\ n \in DOMAIN s[j].metrics.map
                        /\ \A k \in (j + 1)..i : n \notin DOMAIN s[k].metrics.map
                IN  AsFloat(s[last].metrics.map[n])],
         features |-> ReadMap(s[i].features)]]

ReadAll(s) == [i \in DOMAIN s |-> ReadQuality(s[i])]

(* The result for a text that is not refused.                               *)
Deserialize(t) ==
    IF t.kind \in {"null", "malformed"}
    THEN Result(-1, Empty, IF t.kind = "null" THEN NoResult ELSE NoJson, <<>>)
    ELSE Result(t.errorCode.num, t.provider.str, t.message.str,
                ReadAll(t.qualityResult))

-----------------------------------------------------------------------------
Init ==
    /\ pc = "evaluate"
    /\ made = Nothing
    /\ text = NoText("null")
    /\ result = Nothing
    /\ relayed = NoText("null")
    /\ wide \in BOOLEAN

Returns(x) ==
    /\ pc' = "deserialize"
    /\ text' = x
    /\ UNCHANGED <<result, relayed, wide>>

(* A native provider: provider_eval of the template, which writes whatever  *)
(* its evaluate left in the result (errorCode is not initialised).          *)
EvaluateNative(r) ==
    /\ Returns(Serialize(r))
    /\ made' = r

(* A Java provider: Provider.evaluate, with one detection under the name of *)
(* the provider instead of a list, and a message that may be null.          *)
(* json-simple writes an infinite number as it does NaN.                    *)
EvaluateJava(k, s, q) ==
    /\ Returns(Text("object", Number(k), String(ThisProvider), s,
                    <<[metrics |-> Map(q.metrics), features |-> Map(q.features)]>>))
    /\ made' = Result(k, ThisProvider, s.str, <<q>>)

(* Any other text, or none.                                                 *)
EvaluateOther(x) ==
    /\ Returns(x)
    /\ made' = Nothing

(* The result after an exception: nothing of what was read is assigned.     *)
Failed == Result(-1, Empty, Empty, <<>>)

(* The provider's name in a result is the registered one.                   *)
Registered(r) == Result(r.errorCode, ThisProvider, r.message, r.qualityResult)

(* Mutant of RunProvider: deserializeResult fills the result of its caller. *)
RunProviderFills ==
    /\ pc = "deserialize"
    /\ pc' = "serialize"
    /\ result' = IF Refused(Parsed(text))
                 THEN Result(-1, Empty, Empty, ReadAll(text.qualityResult))
                 ELSE Registered(Deserialize(Parsed(text)))
    /\ UNCHANGED <<made, text, relayed, wide>>

(* BIQT::runProvider.                                                       *)
RunProvider ==
    /\ pc = "deserialize"
    /\ pc' = "serialize"
    /\ result' = IF Refused(Parsed(text)) THEN Failed
                 ELSE Registered(Deserialize(Parsed(text)))
    /\ UNCHANGED <<made, text, relayed, wide>>

(* The native method runProvider of the Java binding.                       *)
Relay ==
    /\ pc = "serialize"
    /\ pc' = "done"
    /\ relayed' = Serialize(result)
    /\ UNCHANGED <<made, text, result, wide>>

(* The inputs: any result a Provider can make, and texts with any fault.    *)
Faults == {"absent", "refused"}
NumberMembers == {NoNumber(f) : f \in Faults} \cup {Number(k) : k \in Codes}
StringMembers == {NoString(f) : f \in Faults} \cup {String(x) : x \in Strings}
MapMembers == {NoMap(f) : f \in Faults} \cup {Map(f) : f \in Maps}

Evaluate ==
    /\ pc = "evaluate"
    /\ \/ \E k \in Codes, p, s \in Strings, q \in SeqUpTo(QualityResult) :
             EvaluateNative(Result(k, p, s, q))
       \/ \E k \in Codes, q \in {d \in QualityResult :
                                  ~Infinite(d.metrics) /\ ~Infinite(d.features)},
             s \in {NoString("absent")} \cup {String(x) : x \in Strings} :
             EvaluateJava(k, s, q)
       \/ \E kind \in {"null", "malformed", "scalar"} : EvaluateOther(NoText(kind))
       \/ \E k \in NumberMembers, s \in StringMembers,
             p \in {NoString(f) : f \in Faults},
             q \in SeqUpTo([metrics : MapMembers, features : MapMembers]) :
             EvaluateOther(Text("object", k, p, s, q))

Next ==
    \/ Evaluate
    \/ RunProvider
    \/ Relay

Spec == Init /\ [][Next]_vars

-----------------------------------------------------------------------------
(* Properties.                                                              *)

Rounded(f) == [n \in DOMAIN f |-> IF f[n] = NaN THEN Zero ELSE ToFloat[f[n]]]
RoundedAll(s) ==
    [i \in DOMAIN s |-> [metrics |-> Rounded(s[i].metrics),
                         features |-> Rounded(s[i].features)]]

(* Every variable keeps its type, and a result holds floats.                *)
TypeOK ==
    /\ pc \in {"evaluate", "deserialize", "serialize", "done"}
    /\ made \in EvaluationResult
    /\ result \in EvaluationResult
    /\ RoundedAll(result.qualityResult) = result.qualityResult
    /\ {text.kind, relayed.kind} \subseteq {"null", "malformed", "scalar", "object"}
    /\ wide \in BOOLEAN

(* What a native or a Java provider found reaches the caller of runProvider *)
(* and the Java program: every detection in its place, with its own metrics *)
(* and features, rounded to floats, and the code and the message.  What is  *)
(* no number arrives as 0, and only an infinite one may cost the result.    *)
HasInfinite(s) ==
    \E i \in DOMAIN s : Infinite(s[i].metrics) \/ Infinite(s[i].features)
DetectionsArrive ==
    pc \in {"serialize", "done"} /\ made # Nothing =>
        \/ /\ result.errorCode = made.errorCode
           /\ result.message = made.message
           /\ result.qualityResult = RoundedAll(made.qualityResult)
        \/ result.errorCode = -1 /\ ~wide /\ HasInfinite(made.qualityResult)

(* A text that is not understood as a whole leaves an error and nothing of  *)
(* what had been read before the fault; only a text without a code, or with *)
(* the code 0, comes out as a success.                                      *)
AllOrNothing ==
    pc \in {"serialize", "done"} =>
        /\ Parsed(text).kind # "object" \/ Refused(Parsed(text)) =>
              result.errorCode # 0 /\ result.qualityResult = <<>>
        /\ result.errorCode = 0 =>
              Len(result.qualityResult) = Len(text.qualityResult)

(* The text a Java program gets says what the C++ caller was told, for any  *)
(* text of the provider: it can be read, by a parser such as json-simple    *)
(* that takes 1e+9999, and reads as the same result.                        *)
RelayedFaithfully ==
    pc = "done" => ~Refused(relayed) /\ Deserialize(relayed) = result
=============================================================================
