----------------------------- MODULE Evaluation ------------------------------
(***************************************************************************)
(* Running providers: BIQT::runProvider by name, BIQT::runModality, the     *)
(* evaluation of one provider with its failures, the parsing of what it     *)
(* returned and the release of the string it returned.                      *)
(* Source: src/cxx/BIQT.cpp, src/cxx/ProviderInterface.h.                   *)
(*                                                                          *)
(* The registry is a constant: Registry proves that the list of an object   *)
(* that shows a provider never changes.  Calls of several threads on one    *)
(* object share nothing else, so one caller is modelled.  What a provider   *)
(* computes is abstracted to how its result string parses; file names and   *)
(* metrics are left out.                                                    *)
(***************************************************************************)
EXTENDS Integers, Sequences, FiniteSets

CONSTANTS
    Names,          \* provider names
    Modalities,
    Registries,     \* the lists of providers an object may show
    Codes,          \* errorCode values a result string can hold
    Garbage         \* what an uninitialised int can hold

(* alloc: the provider returns memory from new char[] or from an allocator  *)
(* of its own; exportsFree: its library exports provider_free.              *)
Provider == [name : Names, modality : Modalities, java : BOOLEAN,
             alloc : {"array", "own"}, exportsFree : BOOLEAN]

(* java_provider_eval returns new char[]; a native provider that does not   *)
(* use new[] has to export provider_free.                                   *)
WellBehaved(p) ==
    /\ p.java => p.alloc = "array"
    /\ p.alloc = "own" => p.exportsFree

ASSUME CodesAssumption == Codes \subseteq Int /\ Garbage \subseteq Int
ASSUME RegistriesAssumption ==
    \A r \in Registries :
        r \in Seq(Provider) /\ \A i \in DOMAIN r : WellBehaved(r[i])

VARIABLES
    registry,       \* the providers, in the order of the registry
    call,           \* what the caller is doing
    heap,           \* the strings providers returned during the call
    results,        \* the map runModality builds: name -> provider
    log             \* history: the evaluations of the call, in order

vars == <<registry, call, heap, results, log>>

Providers == DOMAIN registry

(* How the string a provider returned parses: not JSON at all; JSON of a    *)
(* shape an accessor of jsoncpp refuses; an object without errorCode; or    *)
(* one with a code.                                                         *)
Malformed == [kind |-> "malformed", code |-> 0]
IllTyped == [kind |-> "illTyped", code |-> 0]
NoCode == [kind |-> "noCode", code |-> 0]
WithCode(k) == [kind |-> "code", code |-> k]
Texts == {Malformed, IllTyped, NoCode} \cup {WithCode(k) : k \in Codes}
Null == [kind |-> "null", code |-> 0]

(* at: the provider the call is working on.  pc: idle; next: at the head of *)
(* runModality's loop; eval: about to evaluate; parse, release, collect:    *)
(* after evaluate, after deserializeResult or the catch block, after        *)
(* freeResult; done: runProvider has its result.                            *)
CallType ==
    [pc : {"idle", "next", "eval", "parse", "release", "collect", "done"},
     modality : Modalities \cup {"by name"},
     at : Nat,
     text : Texts \cup {Null},
     code : Int]

Called(pc, m, i, k) ==
    [pc |-> pc, modality |-> m, at |-> i, text |-> Null, code |-> k]

Idle == Called("idle", "by name", 0, 0)

(* The call in progress, with text x read and code k.                       *)
Parsed(pc, x, k) ==
    [pc |-> pc, modality |-> call.modality, at |-> call.at, text |-> x,
     code |-> k]

-----------------------------------------------------------------------------
Init ==
    /\ registry \in Registries
    /\ call = Idle
    /\ heap = <<>>
    /\ results = <<>>
    /\ log = <<>>

Begin(c) ==
    /\ call' = c
    /\ heap' = <<>>
    /\ results' = <<>>
    /\ log' = <<>>
    /\ UNCHANGED registry

(* runModality: a loop over a copy of the registry.                         *)
RunModality(m) ==
    /\ call.pc = "idle"
    /\ Begin(Called("next", m, 1, 0))

(* runProvider by name: getProvider finds the first one of that name.       *)
RunProvider(n) ==
    /\ call.pc = "idle"
    /\ \E i \in Providers :
        /\ registry[i].name = n
        /\ \A j \in Providers : registry[j].name = n => i <= j
        /\ Begin(Called("eval", "by name", i, 0))

(* runProvider of a name nobody has: nothing assigns result.errorCode.      *)
RunUnknown(n) ==
    /\ call.pc = "idle"
    /\ \A i \in Providers : registry[i].name # n
    /\ \E g \in Garbage : Begin(Called("done", "by name", 0, g))

(* Mutant of Consider: the loop does not pass a provider of another         *)
(* modality.                                                                *)
ConsiderStays ==
    /\ call.pc = "next"
    /\ call.at \in Providers
    /\ registry[call.at].modality = call.modality
    /\ call' = [call EXCEPT !.pc = "eval"]
    /\ UNCHANGED <<registry, heap, results, log>>

Consider ==
    /\ call.pc = "next"
    /\ call.at \in Providers
    /\ call' = IF registry[call.at].modality = call.modality
               THEN [call EXCEPT !.pc = "eval"]
               ELSE [call EXCEPT !.at = @ + 1]
    /\ UNCHANGED <<registry, heap, results, log>>

(* The provider returns a string.                                           *)
Evaluate(x) ==
    /\ call.pc = "eval"
    /\ call' = Parsed("parse", x, 0)
    /\ heap' = Append(heap, [by |-> call.at, state |-> "live"])
    /\ UNCHANGED <<registry, results, log>>

(* The provider returns a null pointer.                                     *)
EvaluateNull ==
    /\ call.pc = "eval"
    /\ call' = Parsed("parse", Null, 0)
    /\ UNCHANGED <<registry, heap, results, log>>

(* Mutant of CaughtCode: the catch block sets no code.                      *)
CaughtCodeKept(k) == k

(* The catch block of runProvider: an error code that is there is kept.     *)
CaughtCode(k) == IF k = 0 THEN -1 ELSE k

(* Mutant of EvaluateThrows: an exception ends runModality's loop.          *)
EvaluateThrowsOut ==
    /\ call.pc = "eval"
    /\ ~registry[call.at].java
    /\ call' = [call EXCEPT !.pc = "next", !.at = Len(registry) + 1]
    /\ UNCHANGED <<registry, heap, results, log>>

(* The provider throws: result_str is still null.  java_provider_eval       *)
(* does not throw.                                                          *)
EvaluateThrows ==
    /\ call.pc = "eval"
    /\ ~registry[call.at].java
    /\ call' = Parsed("release", Null, CaughtCode(0))
    /\ UNCHANGED <<registry, heap, results, log>>

(* deserializeResult: no string, and a string that is no JSON, are error -1 *)
(* without an exception.  A missing errorCode is JSON null, and asInt is 0. *)
ParsedCode(x) == IF x \in {Null, Malformed} THEN -1 ELSE x.code

Deserialize ==
    /\ call.pc = "parse"
    /\ call.text # IllTyped
    /\ call' = Parsed("release", call.text, ParsedCode(call.text))
    /\ UNCHANGED <<registry, heap, results, log>>

(* An accessor throws, so runProvider's result is not assigned.             *)
DeserializeThrows ==
    /\ call.pc = "parse"
    /\ call.text = IllTyped
    /\ call' = Parsed("release", call.text, CaughtCode(call.code))
    /\ UNCHANGED <<registry, heap, results, log>>

(* Mutant of FreesItself: delete[] for every provider.                      *)
NeverFreesItself(p) == FALSE

(* freeResult: free_result is looked up for native providers only.          *)
FreesItself(p) == ~p.java /\ p.exportsFree

Freed(b) ==
    [b EXCEPT !.state =
        IF b.state # "live" THEN "freed twice"
        ELSE IF FreesItself(registry[b.by]) \/ registry[b.by].alloc = "array"
             THEN "freed"
             ELSE "mismatched"]

Release ==
    /\ call.pc = "release"
    /\ call' = [call EXCEPT !.pc = "collect"]
    /\ heap' = IF call.text # Null
               THEN [heap EXCEPT ![Len(heap)] = Freed(@)]
               ELSE heap
    /\ log' = Append(log, [prov |-> call.at, text |-> call.text])
    /\ UNCHANGED <<registry, results>>

(* Mutants of Inserted: the loop variable has moved on; results[name] = ... *)
InsertedNext(i) ==
    LET n == registry[i].name
    IN  [k \in DOMAIN results \cup {n} |->
            IF k \in DOMAIN results THEN results[k] ELSE i + 1]

Overwritten(i) ==
    [k \in DOMAIN results \cup {registry[i].name} |->
        IF k = registry[i].name THEN i ELSE results[k]]

(* runModality drops a result with an error, and std::map::insert keeps the *)
(* entry that is there.                                                     *)
Inserted(i) ==
    LET n == registry[i].name
    IN  [k \in DOMAIN results \cup {n} |->
            IF k \in DOMAIN results THEN results[k] ELSE i]

Collect ==
    /\ call.pc = "collect"
    /\ call.modality # "by name"
    /\ results' = IF call.code = 0 THEN Inserted(call.at) ELSE results
    /\ call' = [call EXCEPT !.pc = "next", !.at = @ + 1]
    /\ UNCHANGED <<registry, heap, log>>

(* runProvider hands its result to its caller.                              *)
Deliver ==
    /\ call.pc = "collect"
    /\ call.modality = "by name"
    /\ call' = [call EXCEPT !.pc = "done"]
    /\ UNCHANGED <<registry, heap, results, log>>

(* The call is over; what it returned stays readable until the next one.    *)
Return ==
    /\ \/ call.pc = "done"
       \/ call.pc = "next" /\ call.at \notin Providers
    /\ call' = [call EXCEPT !.pc = "idle"]
    /\ UNCHANGED <<registry, heap, results, log>>

Step ==
    \/ Consider
    \/ \E x \in Texts : Evaluate(x)
    \/ EvaluateNull
    \/ EvaluateThrows
    \/ Deserialize
    \/ DeserializeThrows
    \/ Release
    \/ Collect
    \/ Deliver
    \/ Return

Request ==
    \/ \E m \in Modalities : RunModality(m)
    \/ \E n \in Names : RunProvider(n) \/ RunUnknown(n)

Next == Step \/ Request

Spec == Init /\ [][Next]_vars

-----------------------------------------------------------------------------
(* Properties.                                                              *)

BufferType == [by : Nat, state : {"live", "freed", "freed twice", "mismatched"}]
LogType == [prov : Nat, text : Texts \cup {Null}]

(* Every variable keeps its type.                                           *)
TypeOK ==
    /\ registry \in Registries
    /\ call \in CallType
    /\ heap \in Seq(BufferType)
    /\ DOMAIN results \subseteq Names
    /\ \A n \in DOMAIN results : results[n] \in Providers
    /\ log \in Seq(LogType)

(* Each string a provider returned is released once and by the deallocator  *)
(* that matches its allocation, on every path: null, malformed, ill-typed,  *)
(* error code and exception.  While the last one is being parsed it is the  *)
(* only one that is still allocated.                                        *)
EveryStringFreedOnce ==
    \A b \in DOMAIN heap :
        \/ heap[b].state = "freed"
        \/ /\ heap[b].state = "live"
           /\ b = Len(heap)
           /\ call.pc \in {"parse", "release"}
           /\ call.text # Null

(* An evaluation counts as a success when the text it returned says so.     *)
SuccessText(x) == x.kind \in {"noCode", "code"} /\ x.code = 0
Succeeded(e) == SuccessText(e.text)

(* Whether the caller sees an answer of the last call.                      *)
Answered == call.pc = "idle" /\ call.modality # "by name"

(* runModality evaluates every provider of the modality, each once and in   *)
(* the order of the registry, however those before it failed.               *)
EachProviderOnce ==
    Answered =>
        /\ \A e, f \in DOMAIN log : e < f => log[e].prov < log[f].prov
        /\ {log[e].prov : e \in DOMAIN log} =
              {i \in Providers : registry[i].modality = call.modality}

(* The map runModality returns holds, for each name under which a provider  *)
(* of the modality succeeded, the result of the first that did, and nothing *)
(* for a name under which all failed.                                       *)
FirstSuccessWins ==
    Answered =>
        LET Won(n) == {log[e].prov : e \in {e \in DOMAIN log :
                          Succeeded(log[e]) /\ registry[log[e].prov].name = n}}
        IN  /\ DOMAIN results = {n \in Names : Won(n) # {}}
            /\ \A n \in DOMAIN results :
                  /\ results[n] \in Won(n)
                  /\ \A i \in Won(n) : results[n] <= i

(* The code runProvider returns for a registered provider is 0 exactly when *)
(* the provider returned a text that says so: no failure inside evaluate or *)
(* deserializeResult is reported as a success.                              *)
CodeTellsSuccess ==
    call.pc \in {"collect", "done"} /\ log # <<>> =>
        (call.code = 0 <=> Succeeded(log[Len(log)]))

(* Strengthenings that make EveryStringFreedOnce and CodeTellsSuccess       *)
(* inductive: what the call knows about the string it has not released yet, *)
(* and about the code it has not recorded yet.                              *)
AtProvider ==
    call.pc \in {"eval", "parse", "release", "collect"} => call.at \in Providers

Holding == call.pc \in {"parse", "release"} /\ call.text # Null

StringInv ==
    /\ AtProvider
    /\ \A b \in DOMAIN heap :
          heap[b].state = "freed" \/ (b = Len(heap) /\ Holding)
    /\ Holding => /\ heap # <<>>
                  /\ heap[Len(heap)] = [by |-> call.at, state |-> "live"]

CodeInv ==
    /\ call.pc \in {"release", "collect"} => (call.code = 0 <=> SuccessText(call.text))
    /\ call.pc = "collect" =>
          log # <<>> /\ log[Len(log)].text = call.text
    /\ CodeTellsSuccess

(* Strengthenings that make EachProviderOnce and FirstSuccessWins           *)
(* inductive.  The loop has dealt with the providers before the one it is   *)
(* at, whose evaluation is recorded before its result is collected.         *)
Reached(i) == i < call.at \/ (i = call.at /\ call.pc = "collect")

PlaceInv ==
    /\ call.at > 0
    /\ call.pc # "done"
    /\ call.pc \in {"eval", "parse", "release", "collect"} =>
          registry[call.at].modality = call.modality
    /\ call.pc = "collect" => log # <<>> /\ log[Len(log)].prov = call.at
    /\ call.pc = "idle" => \A i \in Providers : i < call.at

LogInv ==
    /\ \A e, f \in DOMAIN log : e < f => log[e].prov < log[f].prov
    /\ \A e \in DOMAIN log :
          /\ log[e].prov \in Providers
          /\ Reached(log[e].prov)
          /\ registry[log[e].prov].modality = call.modality
    /\ \A i \in Providers :
          Reached(i) /\ registry[i].modality = call.modality =>
              \E e \in DOMAIN log : log[e].prov = i

(* Entry e of the log is a success under name n that has been collected.    *)
Wins(e, n) ==
    /\ log[e].prov < call.at
    /\ Succeeded(log[e])
    /\ registry[log[e].prov].name = n

MapInv ==
    /\ \A n \in DOMAIN results :
          \E e \in DOMAIN log : Wins(e, n) /\ results[n] = log[e].prov
    /\ \A e \in DOMAIN log, n \in Names :
          Wins(e, n) => n \in DOMAIN results /\ results[n] <= log[e].prov

LoopInv == call.modality # "by name" => PlaceInv /\ LogInv /\ MapInv

(* "Non-zero values indicate errors" (ProviderInterface.h): running a       *)
(* provider that is not there is an error.                                  *)
UnknownProviderIsError ==
    call.pc = "done" /\ log = <<>> => call.code # 0
=============================================================================
